----------------------------- MODULE SessionRewind -----------------------------
(***************************************************************************)
(* internal/sessions: checkpoints and rewind.  A run records what the      *)
(* files a tool call is going to change are like before it does: their     *)
(* contents as blobs named by their hash, and an event that refers to      *)
(* them.  An exec run does both under the session's lock; a turn of the    *)
(* interface writes the blobs at once, without the lock, and its events    *)
(* when it ends.  A rewind puts the files back, shortens the log, prunes   *)
(* the blobs no event refers to any more and appends a marker.  A fork     *)
(* copies the events and the blobs of a session into a new one.            *)
(*                                                                         *)
(* An event is its place in the log (its sequence), the files it is a      *)
(* checkpoint of, if any, and as history the workspace before it.  What    *)
(* goes on inside one append is SessionLog.                                *)
(***************************************************************************)
EXTENDS Integers, Sequences, FiniteSets

CONSTANTS
    Files,      \* files of the workspace tools write to
    Contents,   \* contents of a file; a blob is named by, so is, its content
    Execs,      \* exec runs on the session, each a process
    Turns,      \* turns of the one terminal interface that has the session open
    MaxIssued   \* bound: tool calls, rewinds and forks asked for

Tui == "tui"    \* the interface, rewinding
Cli == "cli"    \* green sessions rewind, a process of its own
Runs == Execs \cup Turns
Rewinds == {Tui, Cli}
NoOne == "no one"
ASSUME RunsAssumption ==
    Execs \cap Turns = {} /\ Runs \cap (Rewinds \cup {NoOne}) = {}
ASSUME IssuedAssumption == MaxIssued \in Nat

Absent == "absent" Skipped == "skipped" None == "none" Unsure == "unsure"
ASSUME ContentsAssumption == Contents \cap {Absent, Skipped, None, Unsure} = {}

VARIABLES
    ws,         \* the workspace: what each file is
    log,        \* the events of the session
    blobs,      \* the blobs of the session
    holder,     \* who holds the session lock
    pc,         \* where each run and rewind is
    todo,       \* files still to capture, change or restore
    image,      \* what a run captured, or what a rewind is going to restore
    batch,      \* events a turn has not written yet
    cancelled,  \* turns cancelled before they ended (flushRunIDs)
    target,     \* the sequence a rewind keeps the log through
    skipped,    \* files a rewind could not restore
    fork,       \* a fork under way: what its events need, what it has copied
    issued,     \* tool calls, rewinds and forks asked for
    goal,       \* history: what a rewind should leave, where that is certain
    orphaned,   \* history: blobs pruned while a turn was to refer to them
    unforked    \* history: blobs pruned since the fork read the events

store == <<log, blobs, holder>>
run == <<batch, cancelled>>
rewind == <<target, skipped>>
ghost == <<orphaned, unforked>>
vars == <<ws, store, pc, todo, image, run, rewind, fork, issued, goal, ghost>>

State == Contents \cup {Absent}
Image == [Files -> State \cup {Skipped, None}]
Nothing == [f \in Files |-> None]

Event == [files : Image, before : [Files -> State \cup {Unsure}]]
Fork == [pc : {"no", "list", "copy", "done", "failed"},
         needs : SUBSET Contents, listed : SUBSET Contents, has : SUBSET Contents]

TypeOK ==
    /\ ws \in [Files -> State]
    /\ log \in Seq(Event) /\ blobs \subseteq Contents
    /\ holder \in Runs \cup Rewinds \cup {NoOne}
    /\ pc \in [Runs \cup Rewinds -> {"idle", "capture", "captured", "mutate", "turn",
                                     "wait", "restore", "prune", "mark"}]
    /\ todo \in [Runs \cup Rewinds -> SUBSET Files]
    /\ image \in [Runs \cup Rewinds -> Image]
    /\ batch \in [Turns -> Seq(Event)] /\ cancelled \subseteq Turns
    /\ target \in [Rewinds -> Nat] /\ skipped \in [Rewinds -> SUBSET Files]
    /\ fork \in Fork
    /\ issued \in 0 .. MaxIssued
    /\ goal \in [Rewinds -> [Files -> State \cup {Unsure}]]
    /\ orphaned \subseteq Contents /\ unforked \subseteq Contents

Captured(files) == {f \in Files : files[f] # None}
BlobsOf(files) == {files[f] : f \in Files} \cap Contents
Referenced(events) == UNION {BlobsOf(events[i].files) : i \in DOMAIN events}

-----------------------------------------------------------------------------
(* History: what the workspace was like at an event.  The answer is not     *)
(* certain for a file some run has captured and may or may not have changed. *)

Open(r) ==
    {f \in Files : \/ f \in todo[r]
                   \/ (r \in Turns /\ \E i \in DOMAIN batch[r] : batch[r][i].files[f] # None)}

OpenNow == UNION {Open(r) : r \in Runs}

\* What an event recorded now comes after, but for what others have open.
Before(others) ==
    [f \in Files |-> IF \E r \in others : f \in Open(r) THEN Unsure ELSE ws[f]]

NewEvent(others, files) == [files |-> files, before |-> Before(others)]

\* A file is changed that no checkpoint will bring back: its earlier states
\* are out of reach.
Blur(events, files) ==
    [i \in DOMAIN events |->
        [events[i] EXCEPT !.before = [f \in Files |-> IF f \in files THEN Unsure ELSE @[f]]]]

\* The states of these files since their last checkpoint are.
BlurLatest(events, files) ==
    [i \in DOMAIN events |->
        [events[i] EXCEPT !.before = [f \in Files |->
            IF f \in files /\ \A j \in i .. Len(events) : events[j].files[f] = None
            THEN Unsure ELSE @[f]]]]

\* Files are changed between events a turn has not written and the
\* checkpoints of them the turn may yet take.
Disturb(files) == batch' = [t \in Turns |-> BlurLatest(batch[t], files)]

\* A checkpoint of these files is recorded before one that was taken earlier.
Overtaking(r) ==
    Open(r) \cap UNION {Open(t) : t \in Turns \ {r}}

\* The events of a batch take their place when they are written: a file the
\* rest of the batch does not restore is by then what it is.
Placed(r) ==
    [i \in DOMAIN batch[r] |->
        [batch[r][i] EXCEPT !.before = [f \in Files |->
            IF \E j \in i .. Len(batch[r]) : batch[r][j].files[f] # None
            THEN @[f] ELSE Before(Runs \ {r})[f]]]]

-----------------------------------------------------------------------------
Goto(a, place) == pc' = [pc EXCEPT ![a] = place]
Unlock(a) == holder' = IF holder = a THEN NoOne ELSE holder
Append1(event) == log' = Append(log, event)

NoFork == [pc |-> "no", needs |-> {}, listed |-> {}, has |-> {}]

Init ==
    /\ ws \in [Files -> State]
    /\ log = <<>> /\ blobs = {} /\ holder = NoOne
    /\ pc = [a \in Runs \cup Rewinds |-> "idle"]
    /\ todo = [a \in Runs \cup Rewinds |-> {}]
    /\ image = [a \in Runs \cup Rewinds |-> Nothing]
    /\ batch = [t \in Turns |-> <<>>] /\ cancelled = {}
    /\ target = [r \in Rewinds |-> 0] /\ skipped = [r \in Rewinds |-> {}]
    /\ fork = NoFork
    /\ issued = 0
    /\ goal = [r \in Rewinds |-> [f \in Files |-> Unsure]]
    /\ orphaned = {} /\ unforked = {}

-----------------------------------------------------------------------------
(* A tool call of a run.                                                     *)

\* SnapshotForCheckpoint: of each file its content, in a blob, or the fact
\* that it is absent or cannot be captured (too large, unreadable, no room).
Snapshot(r) ==
    \E files \in SUBSET Files \ {{}} : \E lost \in SUBSET files :
        /\ image' = [image EXCEPT ![r] = [f \in Files |->
                        IF f \in lost THEN Skipped ELSE IF f \in files THEN ws[f] ELSE None]]
        /\ blobs' = blobs \cup BlobsOf(image'[r])
        /\ todo' = [todo EXCEPT ![r] = files]

\* OnToolCall of an exec run records the call.
ExecCall(x) ==
    /\ pc[x] = "idle" /\ holder = NoOne
    /\ issued < MaxIssued /\ issued' = issued + 1
    /\ Append1(NewEvent(Runs \ {x}, Nothing))
    /\ Goto(x, "capture")
    /\ UNCHANGED <<ws, blobs, holder, todo, image, run, rewind, fork, goal, ghost>>

\* Mutant: CaptureToolCheckpoint leaves the lock to its append.
CaptureUnlocked(x) ==
    /\ pc[x] = "capture"
    /\ Snapshot(x)
    /\ Goto(x, "captured")
    /\ UNCHANGED <<ws, log, holder, run, rewind, fork, issued, goal, ghost>>

\* CaptureToolCheckpoint takes the lock, snapshots the files MutationTargets
\* names,
Capture(x) ==
    /\ pc[x] = "capture" /\ holder = NoOne
    /\ holder' = x
    /\ Snapshot(x)
    /\ Goto(x, "captured")
    /\ UNCHANGED <<ws, log, run, rewind, fork, issued, goal, ghost>>

\* and appends the event that refers to them; then the tool runs.
Record(x) ==
    /\ pc[x] = "captured"
    /\ LET late == {f \in Files : image[x][f] \notin {None, Skipped, ws[f]}} IN
       log' = Blur(log, Overtaking(x))
                  \o Blur(<<NewEvent(Runs \ {x}, image[x])>>, late)
    /\ Unlock(x)
    /\ Goto(x, "mutate")
    /\ UNCHANGED <<ws, blobs, todo, image, run, rewind, fork, issued, goal, ghost>>

\* CaptureToolCheckpoint returns an error at the lock or at the append: the
\* tool runs all the same.
CaptureFails(x) ==
    /\ \/ /\ pc[x] = "capture"
          /\ \E files \in SUBSET Files \ {{}} : todo' = [todo EXCEPT ![x] = files]
       \/ pc[x] = "captured" /\ UNCHANGED todo
    /\ Goto(x, "mutate")
    /\ image' = [image EXCEPT ![x] = Nothing]
    /\ Unlock(x)
    /\ UNCHANGED <<ws, log, blobs, run, rewind, fork, issued, goal, ghost>>

\* OnToolCall of a turn keeps the call and its checkpoint for the end of the
\* turn; only the blobs are written, and without the lock.  The interface
\* runs one turn at a time, but a cancelled one may not be over.
TurnCall(t) ==
    /\ pc[t] \in {"idle", "turn"} /\ pc[Tui] = "idle"
    /\ \A o \in Turns \ {t} : pc[o] = "idle" \/ o \in cancelled \/ t \in cancelled
    /\ issued < MaxIssued /\ issued' = issued + 1
    /\ Snapshot(t)
    /\ batch' = [batch EXCEPT ![t] = @ \o <<NewEvent(Runs \ {t}, Nothing),
                                           NewEvent(Runs \ {t}, image'[t])>>]
    /\ Goto(t, "mutate")
    /\ UNCHANGED <<ws, log, holder, cancelled, rewind, fork, goal, ghost>>

\* The tool changes its files, all, some or none of them, and returns.
Tool(r) ==
    /\ pc[r] = "mutate"
    /\ \E new \in [todo[r] -> State] :
           ws' = [f \in Files |-> IF f \in todo[r] THEN new[f] ELSE ws[f]]
    /\ log' = Blur(log, {f \in todo[r] : image[r][f] = None \/ holder \in Rewinds})
    /\ goal' = [w \in Rewinds |-> [f \in Files |->
                   IF f \in todo[r] THEN Unsure ELSE goal[w][f]]]
    /\ todo' = [todo EXCEPT ![r] = {}]
    /\ image' = [image EXCEPT ![r] = Nothing]
    /\ Disturb(todo[r])
    /\ Goto(r, IF r \in Execs THEN "idle" ELSE "turn")
    /\ UNCHANGED <<blobs, holder, cancelled, rewind, fork, issued, ghost>>

-----------------------------------------------------------------------------
(* The end of a turn.                                                        *)

\* cancelRun: the turn runs on to its end, the log says so at once.
Cancel(t) ==
    /\ pc[t] # "idle" /\ t \notin cancelled /\ holder = NoOne
    /\ cancelled' = cancelled \cup {t}
    /\ Append1(NewEvent(Runs, Nothing))
    /\ UNCHANGED <<ws, blobs, holder, pc, todo, image, batch, rewind, fork, issued, goal, ghost>>

\* agentResponseMsg: the events of the turn are appended in one batch, or the
\* append fails and they are lost.
Flush(t) ==
    /\ pc[t] = "turn" /\ holder = NoOne
    /\ log' \in {Blur(log, Overtaking(t)) \o Placed(t), Blur(log, Open(t))}
    /\ batch' = [batch EXCEPT ![t] = <<>>]
    /\ cancelled' = cancelled \ {t}
    /\ Goto(t, "idle")
    /\ UNCHANGED <<ws, blobs, holder, todo, image, rewind, fork, issued, goal, ghost>>

-----------------------------------------------------------------------------
(* Rewinding.                                                                *)

\* Mutant: the interface asks only whether a turn is in progress.
MayRewindUnflushed(r) ==
    r = Tui => \A t \in Turns : pc[t] = "idle" \/ t \in cancelled

\* handleRewindCommand refuses while a turn is in progress, or cancelled and
\* not flushed; the command line cannot know.
MayRewind(r) ==
    r = Tui => \A t \in Turns : pc[t] = "idle"

\* The target is chosen from the log as it is, without the lock.
AskRewind(r) ==
    /\ pc[r] = "idle" /\ MayRewind(r) /\ log # <<>>
    /\ issued < MaxIssued /\ issued' = issued + 1
    /\ \E keep \in 0 .. Len(log) : target' = [target EXCEPT ![r] = keep]
    /\ Goto(r, "wait")
    /\ UNCHANGED <<ws, store, todo, image, run, skipped, fork, goal, ghost>>

\* Mutant: the newest snapshot of a file wins.
NewestAfter(keep) ==
    [f \in Files |->
        LET of == {i \in DOMAIN log : i > keep /\ log[i].files[f] # None} IN
        IF of = {} THEN None
        ELSE log[CHOOSE i \in of : \A j \in of : i >= j].files[f]]

\* Of every file, its snapshot closest to the target.
ClosestAfter(keep) ==
    [f \in Files |->
        LET of == {i \in DOMAIN log : i > keep /\ log[i].files[f] # None} IN
        IF of = {} THEN None
        ELSE log[CHOOSE i \in of : \A j \in of : i <= j].files[f]]

\* ApplyRewind takes the lock and reads the checkpoints after the target.
ApplyRewind(r) ==
    /\ pc[r] = "wait" /\ holder = NoOne
    /\ holder' = r
    /\ image' = [image EXCEPT ![r] = ClosestAfter(target[r])]
    /\ todo' = [todo EXCEPT ![r] = Captured(image'[r])]
    /\ skipped' = [skipped EXCEPT ![r] = {}]
    /\ goal' = [goal EXCEPT ![r] = [f \in Files |->
                   IF \E t \in Turns : f \in Open(t) THEN Unsure
                   ELSE IF target[r] < Len(log) THEN log[target[r] + 1].before[f] ELSE ws[f]]]
    /\ Goto(r, "restore")
    /\ UNCHANGED <<ws, log, blobs, run, target, fork, issued, ghost>>

\* One file is deleted or written, or reported as skipped: it was not
\* captured, its blob is not there, or the workspace refuses.
Restore(r) ==
    /\ pc[r] = "restore"
    /\ \E f \in todo[r] :
           /\ todo' = [todo EXCEPT ![r] = @ \ {f}]
           /\ \/ /\ image[r][f] \in blobs \cup {Absent}
                 /\ ws' = [ws EXCEPT ![f] = image[r][f]]
                 /\ log' = BlurLatest(log, {f}) /\ Disturb({f})
                 /\ UNCHANGED skipped
              \/ /\ skipped' = [skipped EXCEPT ![r] = @ \cup {f}]
                 /\ UNCHANGED <<ws, log, batch>>
    /\ UNCHANGED <<blobs, holder, pc, image, cancelled, target, fork, issued, goal, ghost>>

\* truncateEventsLocked.
Truncate(r) ==
    /\ pc[r] = "restore" /\ todo[r] = {}
    /\ log' = Blur(IF target[r] < Len(log) THEN SubSeq(log, 1, target[r]) ELSE log,
                 OpenNow \cup skipped[r])
    /\ Goto(r, "prune")
    /\ UNCHANGED <<ws, blobs, holder, todo, image, run, rewind, fork, issued, goal, ghost>>

\* What the turns of the interface are going to refer to.
Unwritten ==
    UNION {BlobsOf(image[t]) \cup Referenced(batch[t]) : t \in Turns}

\* pruneOrphanBlobsLocked: best effort, a blob may stay.
Prune(r) ==
    /\ pc[r] = "prune"
    /\ \E gone \in SUBSET (blobs \ Referenced(log)) :
           /\ blobs' = blobs \ gone
           /\ orphaned' = IF r = Cli THEN orphaned \cup (gone \cap Unwritten) ELSE orphaned
           /\ unforked' = IF fork.pc = "no" THEN unforked ELSE unforked \cup gone
    /\ Goto(r, "mark")
    /\ UNCHANGED <<ws, log, holder, todo, image, run, rewind, fork, issued, goal>>

\* The call is over; nothing of it is left but what it wrote.
Over(r) ==
    /\ Goto(r, "idle")
    /\ Unlock(r)
    /\ todo' = [todo EXCEPT ![r] = {}]
    /\ image' = [image EXCEPT ![r] = Nothing]
    /\ target' = [target EXCEPT ![r] = 0]
    /\ skipped' = [skipped EXCEPT ![r] = {}]
    /\ goal' = [goal EXCEPT ![r] = [f \in Files |-> Unsure]]

\* The EventSessionRewind marker.
Mark(r) ==
    /\ pc[r] = "mark"
    /\ Append1(NewEvent(Runs, Nothing))
    /\ Over(r)
    /\ UNCHANGED <<ws, blobs, run, fork, issued, ghost>>

\* A read or a write of the log fails, or the process of the rewind dies.
RewindStops(r) ==
    /\ pc[r] \notin {"idle"}
    /\ Over(r)
    /\ UNCHANGED <<ws, log, blobs, run, fork, issued, ghost>>

-----------------------------------------------------------------------------
(* The process of a run dies.                                                *)

KillExec(x) ==
    /\ pc[x] # "idle"
    /\ Goto(x, "idle")
    /\ Unlock(x)
    /\ todo' = [todo EXCEPT ![x] = {}]
    /\ image' = [image EXCEPT ![x] = Nothing]
    /\ UNCHANGED <<ws, log, blobs, run, rewind, fork, issued, goal, ghost>>

\* The interface dies, and what its turns have not written with it.
KillTui ==
    /\ \E t \in Turns : pc[t] # "idle"
    /\ log' = Blur(log, UNION {Open(t) : t \in Turns})
    /\ pc' = [a \in DOMAIN pc |-> IF a \in Turns THEN "idle" ELSE pc[a]]
    /\ todo' = [a \in DOMAIN todo |-> IF a \in Turns THEN {} ELSE todo[a]]
    /\ image' = [a \in DOMAIN image |-> IF a \in Turns THEN Nothing ELSE image[a]]
    /\ batch' = [t \in Turns |-> <<>>] /\ cancelled' = {}
    /\ UNCHANGED <<ws, blobs, holder, rewind, fork, issued, goal, ghost>>

-----------------------------------------------------------------------------
(* Fork, which takes no lock on its parent.                                  *)

ForkEvents ==
    /\ fork.pc = "no" /\ log # <<>>
    /\ issued < MaxIssued /\ issued' = issued + 1
    /\ fork' = [NoFork EXCEPT !.pc = "list", !.needs = Referenced(log)]
    /\ UNCHANGED <<ws, store, pc, todo, image, run, rewind, goal, ghost>>

\* copyBlobs reads the directory,
ForkList ==
    /\ fork.pc = "list"
    /\ fork' = [fork EXCEPT !.pc = "copy", !.listed = blobs]
    /\ UNCHANGED <<ws, store, pc, todo, image, run, rewind, issued, goal, ghost>>

\* then copies each blob; one that is gone fails the fork.
ForkCopy ==
    /\ fork.pc = "copy"
    /\ \E b \in fork.listed \ fork.has :
           fork' = IF b \in blobs THEN [fork EXCEPT !.has = @ \cup {b}]
                   ELSE [fork EXCEPT !.pc = "failed"]
    /\ UNCHANGED <<ws, store, pc, todo, image, run, rewind, issued, goal, ghost>>

\* Mutant: copyBlobs stops at the first blob the fork has already.
ForkReturnsEarly ==
    /\ fork.pc = "copy"
    /\ fork' = [fork EXCEPT !.pc = "done"]
    /\ UNCHANGED <<ws, store, pc, todo, image, run, rewind, issued, goal, ghost>>

ForkReturns ==
    /\ fork.pc = "copy" /\ fork.listed \subseteq fork.has
    /\ fork' = [fork EXCEPT !.pc = "done"]
    /\ UNCHANGED <<ws, store, pc, todo, image, run, rewind, issued, goal, ghost>>

\* The process of the fork dies.
ForkStops ==
    /\ fork.pc \in {"list", "copy"}
    /\ fork' = [fork EXCEPT !.pc = "failed"]
    /\ UNCHANGED <<ws, store, pc, todo, image, run, rewind, issued, goal, ghost>>

-----------------------------------------------------------------------------
ExecStep(x) == ExecCall(x) \/ Capture(x) \/ Record(x) \/ CaptureFails(x) \/ KillExec(x)

TurnStep(t) == TurnCall(t) \/ Cancel(t) \/ Flush(t)

RewindStep(r) ==
    \/ AskRewind(r) \/ ApplyRewind(r) \/ Restore(r) \/ Truncate(r)
    \/ Prune(r) \/ Mark(r) \/ RewindStops(r)

ForkStep == ForkEvents \/ ForkList \/ ForkCopy \/ ForkReturns \/ ForkStops

Next ==
    \/ \E r \in Runs : Tool(r)
    \/ \E x \in Execs : ExecStep(x)
    \/ \E t \in Turns : TurnStep(t)
    \/ \E r \in Rewinds : RewindStep(r)
    \/ KillTui \/ ForkStep

Spec == Init /\ [][Next]_vars

-----------------------------------------------------------------------------
(* Properties.                                                               *)

\* A rewind that is done restoring leaves every file it does not report as
\* skipped as it was when the first of the dropped events was recorded,
\* whatever rewinds and runs died half-way before it.  The files not claimed
\* are those a tool call was changing at that event or during the rewind,
\* and those changed without a checkpoint that lasted.
RewindExact ==
    \A r \in Rewinds : pc[r] = "restore" /\ todo[r] = {} =>
        \A f \in Files \ skipped[r] : goal[r][f] \in {Unsure, ws[f]}

\* Every checkpoint in the log finds its blobs, except those that another
\* process's rewind pruned before the interface wrote its events.
CheckpointsResolve == Referenced(log) \subseteq blobs \cup orphaned

\* A fork that returned has the blobs of all the checkpoints it copied,
\* except those that a rewind of the parent pruned meanwhile.
ForkCarriesBlobs ==
    fork.pc = "done" => fork.needs \subseteq fork.has \cup orphaned \cup unforked

\* Fork's comment: the blobs are copied "so the copied EventSessionCheckpoint
\* events resolve to real blobs".
ForkResolves == fork.pc = "done" => fork.needs \subseteq fork.has
=============================================================================
