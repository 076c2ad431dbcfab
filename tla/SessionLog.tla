------------------------------ MODULE SessionLog ------------------------------
(***************************************************************************)
(* internal/sessions: one session on disk.  Its event log events.jsonl is  *)
(* appended to and, by a rewind, rewritten; its metadata.json is replaced  *)
(* as a whole.  Callers in any number of goroutines and processes take the *)
(* session's lock (store.go lockSession) around every mutation.            *)
(*                                                                         *)
(* The log is a sequence of pieces: the JSON of an event, the newline that *)
(* ends its line, or a fragment, what an interrupted write left of an      *)
(* event.  Only the first `synced` pieces are known to survive a loss of   *)
(* power; the death of one process loses nothing it has written.           *)
(***************************************************************************)
EXTENDS Integers, Sequences, FiniteSets, FiniteSetsExt

CONSTANTS
    Callers,    \* goroutines, of one or several processes, using the session
    MaxBatch,   \* bound: events in one AppendEvents
    Titles,     \* titles a caller may set
    MaxIssued   \* bound: events, retitles and rewinds asked for

ASSUME BatchAssumption == MaxBatch \in Nat \ {0}

VARIABLES
    file,     \* events.jsonl
    synced,   \* how many pieces of it the last fsync covered
    meta,     \* metadata.json
    holder,   \* who holds the session lock; NoOne if nobody
    pc,       \* pc[c]: where the call of c is
    call,     \* call[c]: the operation and its arguments
    next,     \* next[c]: the metadata c is going to write
    batch,    \* batch[c]: the pieces c appends
    base,     \* base[c]: length of the log before the append of c
    issued,   \* ids given to events, to tell them apart whatever their sequence
    acked,    \* history: the events whose append returned, less those rewound
    want,     \* history: the title and spec of the last metadata written for one
    halfCut   \* history: a rewind cut the log, the count has not caught up

files == <<file, synced, meta>>
local == <<next, batch, base>>
ghost == <<issued, acked, want>>
vars == <<files, holder, pc, call, local, ghost, halfCut>>

NoOne == "no one"
ASSUME NoOneAssumption == NoOne \notin Callers

Newline  == [kind |-> "newline", seq |-> 0, id |-> 0]
Fragment == [kind |-> "fragment", seq |-> 0, id |-> 0]
Kinds == {"event", "once", "spec"}
IsEvent(piece) == piece.kind \in Kinds

-----------------------------------------------------------------------------
(* Reading the log.                                                          *)

\* A line that is the JSON of one event and nothing else; the last one need
\* not be terminated.
Whole(i) ==
    /\ IsEvent(file[i])
    /\ i = 1 \/ file[i - 1] = Newline
    /\ i = Len(file) \/ file[i + 1] = Newline

\* ReadEvents succeeds: what does not parse is in an unterminated last line.
Readable ==
    \A i \in DOMAIN file :
        file[i] # Newline /\ ~Whole(i) => \A j \in i .. Len(file) : file[j] # Newline

\* The places of the events ReadEvents returns.
Read == {i \in DOMAIN file : Whole(i)}

\* lastEventSequence: of the last terminated line.  A line that does not
\* parse sends it to ReadEvents, which fails on it; -1 is that error.
LastSequence ==
    LET ends == {i \in DOMAIN file : file[i] = Newline} IN
    IF ends = {} THEN 0
    ELSE LET last == Max(ends) IN
         IF Whole(last - 1) THEN file[last - 1].seq ELSE -1

NextFromMetadata == meta.count + 1  \* mutant: the log is not consulted

\* The sequence the next event gets.
NextSequence == Max({meta.count + 1, LastSequence + 1})

-----------------------------------------------------------------------------
Goto(c, place) == pc' = [pc EXCEPT ![c] = place]

\* What a caller that is not in a call has in its locals.
NoCall == [op |-> "none", ids |-> <<>>, title |-> "none", keep |-> 0]
NoMeta == [count |-> 0, title |-> "none", spec |-> 0]

\* The calls of `those` are over, and their locals gone.
Over(those) ==
    /\ pc' = [c \in Callers |-> IF c \in those THEN "idle" ELSE pc[c]]
    /\ call' = [c \in Callers |-> IF c \in those THEN NoCall ELSE call[c]]
    /\ next' = [c \in Callers |-> IF c \in those THEN NoMeta ELSE next[c]]
    /\ batch' = [c \in Callers |-> IF c \in those THEN <<>> ELSE batch[c]]
    /\ base' = [c \in Callers |-> IF c \in those THEN 0 ELSE base[c]]
    /\ holder' = IF holder \in those THEN NoOne ELSE holder

Pieces == [kind : Kinds \cup {"newline", "fragment"}, seq : Nat, id : 0 .. MaxIssued]
Metadata == [count : Nat, title : Titles \cup {"none"}, spec : 0 .. MaxIssued]
Ops == {"append", "once", "spec", "title", "truncate"}

TypeOK ==
    /\ file \in Seq(Pieces)
    /\ synced \in 0 .. Len(file)
    /\ meta \in Metadata
    /\ holder \in Callers \cup {NoOne}
    /\ pc \in [Callers -> {"idle", "wait", "check", "append", "title", "spec",
                           "truncate", "recount", "write", "sync", "meta", "unlock"}]
    /\ call \in [Callers -> [op : Ops \cup {"none"}, ids : Seq(1 .. MaxIssued),
                            title : Titles \cup {"none"}, keep : Nat]]
    /\ next \in [Callers -> Metadata]
    /\ batch \in [Callers -> Seq(Pieces)]
    /\ base \in [Callers -> Nat]
    /\ issued \in 0 .. MaxIssued
    /\ acked \subseteq 1 .. issued
    /\ want \in [title : Titles \cup {"none"}, spec : 0 .. MaxIssued]
    /\ halfCut \in BOOLEAN

\* Create has returned: metadata without events and an empty log.
Init ==
    /\ file = <<>> /\ synced = 0
    /\ meta = NoMeta
    /\ holder = NoOne
    /\ pc = [c \in Callers |-> "idle"]
    /\ call = [c \in Callers |-> NoCall]
    /\ next = [c \in Callers |-> NoMeta]
    /\ batch = [c \in Callers |-> <<>>]
    /\ base = [c \in Callers |-> 0]
    /\ issued = 0 /\ acked = {}
    /\ want = [title |-> "none", spec |-> 0]
    /\ halfCut = FALSE

-----------------------------------------------------------------------------
(* Calls.                                                                    *)

Ask(c, op, n, title, keep) ==
    /\ pc[c] = "idle"
    /\ issued + n <= MaxIssued
    /\ issued' = issued + n
    /\ call' = [call EXCEPT ![c] = [op |-> op, ids |-> [i \in 1 .. n |-> issued + i],
                                    title |-> title, keep |-> keep]]
    /\ Goto(c, "wait")
    /\ UNCHANGED <<files, holder, local, acked, want, halfCut>>

AppendEvents(c) == \E n \in 1 .. MaxBatch : Ask(c, "append", n, "none", 0)
AppendEventUnlessExists(c) == Ask(c, "once", 1, "none", 0)
RecordSpec(c) == Ask(c, "spec", 1, "none", 0)
UpdateTitle(c) == \E title \in Titles : Ask(c, "title", 1, title, 0)
TruncateEvents(c) == \E keep \in 0 .. meta.count : Ask(c, "truncate", 1, "none", keep)

\* Mutant: AppendEventUnlessExists works without the lock.
LockSessionNotOnce(c) ==
    /\ pc[c] = "wait" /\ (holder = NoOne \/ call[c].op = "once")
    /\ holder' = IF call[c].op = "once" THEN holder ELSE c
    /\ Goto(c, IF call[c].op = "once" THEN "check" ELSE call[c].op)
    /\ UNCHANGED <<files, call, local, ghost, halfCut>>

LockSession(c) ==
    /\ pc[c] = "wait" /\ holder = NoOne
    /\ holder' = c
    /\ Goto(c, IF call[c].op = "once" THEN "check" ELSE call[c].op)
    /\ UNCHANGED <<files, call, local, ghost, halfCut>>

Unlock(c) ==
    /\ pc[c] = "unlock"
    /\ Over({c})
    /\ UNCHANGED <<files, ghost, halfCut>>

-----------------------------------------------------------------------------
(* Appending.                                                                *)

\* The predicate of AppendEventUnlessExists, over what ReadEvents returns.
CheckExists(c) ==
    /\ pc[c] = "check"
    /\ Goto(c, IF Readable /\ \A i \in Read : file[i].kind # "once" THEN "append" ELSE "unlock")
    /\ UNCHANGED <<files, holder, call, local, ghost, halfCut>>

\* appendPreparedEventsLocked up to the write.
PrepareAppend(c) ==
    LET ids == call[c].ids
        event(i) == [kind |-> IF call[c].op = "append" THEN "event" ELSE call[c].op,
                     seq |-> NextSequence + i - 1, id |-> ids[i]]
    IN
    /\ pc[c] = "append"
    /\ batch' = [batch EXCEPT ![c] = [j \in 1 .. 2 * Len(ids) |->
                     IF j % 2 = 1 THEN event((j + 1) \div 2) ELSE Newline]]
    /\ next' = [next EXCEPT ![c] = [meta EXCEPT !.count = NextSequence + Len(ids) - 1]]
    /\ base' = [base EXCEPT ![c] = Len(file)]
    /\ Goto(c, "write")
    /\ UNCHANGED <<files, holder, call, ghost, halfCut>>

\* What is left of a sequence of pieces cut after k of them, or inside the
\* one that follows.
Cuts(pieces, k) ==
    {SubSeq(pieces, 1, k)} \cup
        IF k < Len(pieces) /\ IsEvent(pieces[k + 1])
        THEN {Append(SubSeq(pieces, 1, k), Fragment)} ELSE {}

\* Part of the batch is in the file: what others, and a crash, may see.
WritePart(c) ==
    /\ pc[c] = "write" /\ Len(file) = base[c]
    /\ \E k \in 0 .. Len(batch[c]) - 1 : \E part \in Cuts(batch[c], k) : file' = file \o part
    /\ UNCHANGED <<synced, meta, holder, pc, call, local, ghost, halfCut>>

Write(c) ==
    /\ pc[c] = "write"
    /\ file' = SubSeq(file, 1, base[c]) \o batch[c]
    /\ Goto(c, "sync")
    /\ UNCHANGED <<synced, meta, holder, call, local, ghost, halfCut>>

\* Mutant: the log is not fsynced before its metadata.
SyncNothing(c) ==
    /\ pc[c] = "sync"
    /\ Goto(c, "meta")
    /\ UNCHANGED <<files, holder, call, local, ghost, halfCut>>

Sync(c) ==
    /\ pc[c] = "sync"
    /\ synced' = Len(file)
    /\ Goto(c, "meta")
    /\ UNCHANGED <<file, meta, holder, call, local, ghost, halfCut>>

-----------------------------------------------------------------------------
(* Metadata.                                                                 *)

\* UpdateTitle re-reads the metadata under the lock; the same title is a no-op.
PrepareTitle(c) ==
    /\ pc[c] = "title"
    /\ next' = [next EXCEPT ![c] = [meta EXCEPT !.title = call[c].title]]
    /\ Goto(c, IF meta.title = call[c].title THEN "unlock" ELSE "meta")
    /\ UNCHANGED <<files, holder, call, batch, base, ghost, halfCut>>

PrepareSpec(c) ==
    /\ pc[c] = "spec"
    /\ next' = [next EXCEPT ![c] = [meta EXCEPT !.spec = call[c].ids[1]]]
    /\ Goto(c, "meta")
    /\ UNCHANGED <<files, holder, call, batch, base, ghost, halfCut>>

\* The metadata is for the append when the log already ends in its batch.
Appended(c) == call[c].op \in {"append", "once", "spec"} /\ batch[c] # <<>>

\* metadata.json is replaced by a rename.
Replace(c) ==
    /\ meta' = next[c]
    /\ want' = CASE call[c].op = "title" -> [want EXCEPT !.title = call[c].title]
                 [] call[c].op = "spec" /\ ~Appended(c) -> [want EXCEPT !.spec = call[c].ids[1]]
                 [] OTHER -> want
    /\ halfCut' = (halfCut /\ ~Appended(c) /\ call[c].op # "truncate")

\* writeMetadata, and what the caller does next: RecordSpec goes on to its
\* event, every other call returns.
WriteMetadata(c) ==
    /\ pc[c] = "meta"
    /\ Replace(c)
    /\ acked' = IF Appended(c) THEN acked \cup {call[c].ids[i] : i \in DOMAIN call[c].ids} ELSE acked
    /\ Goto(c, IF call[c].op = "spec" /\ ~Appended(c) THEN "append" ELSE "unlock")
    /\ batch' = [batch EXCEPT ![c] = <<>>]
    /\ UNCHANGED <<file, synced, holder, call, next, base, issued>>

-----------------------------------------------------------------------------
(* truncateEventsLocked.                                                     *)

\* Mutant: the event rewound to goes too.
KeptBelow(keep) ==
    LET places == {i \in Read : file[i].seq < keep}
        nth(n) == CHOOSE i \in places : Cardinality({j \in places : j <= i}) = n
    IN  [j \in 1 .. 2 * Cardinality(places) |->
            IF j % 2 = 1 THEN file[nth((j + 1) \div 2)] ELSE Newline]

\* The kept events, each on a line, in a new file renamed over the log.
Kept(keep) ==
    LET places == {i \in Read : file[i].seq <= keep}
        nth(n) == CHOOSE i \in places : Cardinality({j \in places : j <= i}) = n
    IN  [j \in 1 .. 2 * Cardinality(places) |->
            IF j % 2 = 1 THEN file[nth((j + 1) \div 2)] ELSE Newline]

Truncate(c) ==
    /\ pc[c] = "truncate"
    /\ IF Readable
       THEN /\ file' = Kept(call[c].keep)
            /\ synced' = Len(file')
            /\ acked' = acked \ {file[i].id : i \in {j \in Read : file[j].seq > call[c].keep}}
            /\ halfCut' = TRUE
            /\ Goto(c, "recount")
       ELSE /\ Goto(c, "unlock")
            /\ UNCHANGED <<file, synced, acked, halfCut>>
    /\ UNCHANGED <<meta, holder, call, local, issued, want>>

\* Mutant: the rewind's own marker is not counted, but not written yet either.
RecountLess(c) ==
    /\ pc[c] = "recount"
    /\ next' = [next EXCEPT ![c] = [meta EXCEPT !.count = Len(file) \div 2 - 1]]
    /\ Goto(c, "meta")
    /\ UNCHANGED <<files, holder, call, batch, base, ghost, halfCut>>

Recount(c) ==
    /\ pc[c] = "recount"
    /\ next' = [next EXCEPT ![c] = [meta EXCEPT !.count = Len(file) \div 2]]
    /\ Goto(c, "meta")
    /\ UNCHANGED <<files, holder, call, batch, base, ghost, halfCut>>

-----------------------------------------------------------------------------
(* Failure.                                                                  *)

\* A system call under the lock returns an error: so does the call, leaving on
\* disk what it has done so far.
Fail(c) ==
    /\ pc[c] \notin {"idle", "wait", "unlock"}
    /\ Goto(c, "unlock")
    /\ UNCHANGED <<files, holder, call, local, ghost, halfCut>>

\* The fsync of the directory fails after metadata.json has been replaced.
FailLate(c) ==
    /\ pc[c] = "meta"
    /\ Replace(c)
    /\ Goto(c, "unlock")
    /\ UNCHANGED <<file, synced, holder, call, local, issued, acked>>

\* Mutant: the lock is a file that survives its process.
KillKeepingLock(c) ==
    /\ pc[c] # "idle"
    /\ Goto(c, "idle")
    /\ UNCHANGED <<files, holder, call, local, ghost, halfCut>>

\* The process of c dies; the system drops its flock.
Kill(c) ==
    /\ pc[c] # "idle"
    /\ Over({c})
    /\ UNCHANGED <<files, ghost, halfCut>>

\* Every process dies, and with them what was not fsynced, in part or whole.
PowerLoss ==
    /\ \E c \in Callers : pc[c] # "idle"
    /\ \E k \in synced .. Len(file) : \E cut \in Cuts(file, k) :
           file' = cut /\ synced' = Len(cut)
    /\ Over(Callers)
    /\ UNCHANGED <<meta, ghost, halfCut>>

-----------------------------------------------------------------------------
Begin(c) ==
    \/ AppendEvents(c) \/ AppendEventUnlessExists(c) \/ RecordSpec(c)
    \/ UpdateTitle(c) \/ TruncateEvents(c)

Step(c) ==
    \/ CheckExists(c) \/ PrepareAppend(c) \/ WritePart(c) \/ Write(c) \/ Sync(c)
    \/ PrepareTitle(c) \/ PrepareSpec(c) \/ WriteMetadata(c)
    \/ Truncate(c) \/ Recount(c) \/ Fail(c) \/ FailLate(c) \/ Unlock(c)

Next ==
    \/ \E c \in Callers : Begin(c) \/ LockSession(c) \/ Step(c) \/ Kill(c)
    \/ PowerLoss

Spec == Init /\ [][Next]_vars

\* A goroutine that holds the lock goes on; both locks are fair to those who
\* wait (sync.Mutex hands over to a starving waiter, flock queues).
Fairness == \A c \in Callers : WF_vars(Step(c)) /\ SF_vars(LockSession(c))

LiveSpec == Spec /\ Fairness

-----------------------------------------------------------------------------
(* Properties.                                                               *)

\* In a log that can be read, sequences grow from line to line whatever
\* crashes and rewinds left the metadata count behind or ahead: /rewind can
\* name an event by its sequence.
SequencesRise ==
    Readable => \A i, j \in Read : i < j => file[i].seq < file[j].seq

\* An append that returned is durable: as long as the log can be read, its
\* events are in it until a rewind takes them out.
AckedReadable ==
    Readable => \A id \in acked : \E i \in Read : file[i].id = id

\* The metadata never counts events the log does not have, except after a
\* rewind was interrupted between the log and the count (the "benign gap").
CountBacked ==
    halfCut \/ \A n \in 1 .. meta.count : \E i \in DOMAIN file : file[i].seq >= n

\* A record-once event is recorded once: in a readable log there is one at
\* most, however many callers, retries and crashes there were.
RecordedOnce ==
    Readable => Cardinality({i \in Read : file[i].kind = "once"}) <= 1

\* The metadata has the title and the spec that were written last: an append
\* or a rewind that writes back what it read does not undo another caller's.
MetadataKept == meta.title = want.title /\ meta.spec = want.spec

\* Every call returns, also when other callers die holding the lock.
EveryCallReturns == \A c \in Callers : pc[c] # "idle" ~> pc[c] = "idle"

\* ReadEvents' comment: a torn tail is dropped "so resume still recovers
\* every complete event".
EveryAckedRecovered == \A id \in acked : \E i \in Read : Readable /\ file[i].id = id
=============================================================================
