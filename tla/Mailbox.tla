-------------------------------- MODULE Mailbox --------------------------------
(***************************************************************************)
(* internal/swarm/mailbox.go: one inbox file, the calls that send to it    *)
(* and read it, each in a process that may die, and the lock file between  *)
(* them.                                                                   *)
(*                                                                         *)
(* The lock is a file made with O_EXCL that carries its maker's token.  A  *)
(* file older than lockStaleAfter may be broken: it is renamed aside, and  *)
(* there either dropped or, if it proves young, renamed back.  The cron    *)
(* store's job lock (cron/lock.go) is made, broken and released in the same*)
(* way, but there a break that fails goes on to the wait and its deadline, *)
(* where a call of the mailbox tries again at once.                        *)
(*                                                                         *)
(* A lock file is named for the call that made it.                         *)
(***************************************************************************)
EXTENDS Naturals, FiniteSets

CONSTANTS
    Senders,        \* calls of Send, each with a message of its own
    Readers,        \* calls of ReadAndConsume
    None,           \* no file
    MaxMessages,    \* messages retained in the inbox
    MaxFaults       \* bound: dying processes and failing operations, but for
                    \* the renames of Rename, which fail as often as they like

Calls == Senders \cup Readers

ASSUME CallsAssumption == Senders \cap Readers = {} /\ None \notin Calls
ASSUME BoundsAssumption == MaxMessages \in Nat /\ MaxFaults \in Nat

VARIABLES
    pc,         \* where each call is
    lock,       \* the file at the lock's path
    aside,      \* the file each call has renamed aside
    old,        \* the lock files older than lockStaleAfter
    inbox,      \* what the inbox says of each message
    seen,       \* the inbox as each call has read it
    result,     \* what each call is about to return, or has
    faults,     \* failures so far
    late,       \* history: a lock became stale under its holder
    gap         \* history: a lock was made while a young one was aside, or
                \* overwritten by one that was put back, or a young one could
                \* not be put back

lockVars == <<lock, aside, old>>
boxVars == <<inbox, seen, result>>
vars == <<pc, lockVars, boxVars, faults, late, gap>>

\* From the return of acquireLock to that of release.
Holding == {"read", "write", "check", "remove"}
Holds(c) == pc[c] \in Holding
Inbox == [Senders -> {"absent", "unread", "read"}]
Unread(box) == {m \in Senders : box[m] = "unread"}
NoResult == [ok |-> FALSE, new |-> {}]

TypeOK ==
    /\ pc \in [Calls -> Holding \cup {"idle", "try", "stat", "wait", "rename", "verify", "drop",
                                      "restore", "over", "dead"}]
    /\ lock \in Calls \cup {None}
    /\ aside \in [Calls -> Calls \cup {None}]
    /\ old \subseteq Calls
    /\ inbox \in Inbox
    /\ seen \in [Calls -> Inbox]
    /\ result \in [Calls -> [ok : BOOLEAN, new : SUBSET Senders]]
    /\ faults \in 0 .. MaxFaults /\ late \in BOOLEAN /\ gap \in BOOLEAN

Empty == [m \in Senders |-> "absent"]

Init ==
    /\ pc = [c \in Calls |-> "idle"]
    /\ lock = None /\ aside = [c \in Calls |-> None] /\ old = {}
    /\ inbox = Empty /\ seen = [c \in Calls |-> Empty]
    /\ result = [c \in Calls |-> NoResult]
    /\ faults = 0 /\ late = FALSE /\ gap = FALSE

At(c, place) == pc' = [pc EXCEPT ![c] = place]
Fault == faults < MaxFaults /\ faults' = faults + 1

-----------------------------------------------------------------------------
(* acquireLock.                                                              *)

Call(c) ==
    /\ pc[c] = "idle" /\ At(c, "try")
    /\ UNCHANGED <<lockVars, boxVars, faults, late, gap>>

YoungAside == \E d \in Calls : aside[d] \in Calls \ old

\* Mutant: a reader asks for no lock.
CreateUnlessReader(c) ==
    /\ pc[c] = "try" /\ (c \in Readers \/ lock = None)
    /\ lock' = (IF c \in Readers THEN lock ELSE c) /\ At(c, "read")
    /\ gap' = (gap \/ YoungAside)
    /\ UNCHANGED <<aside, old, boxVars, faults, late>>

\* The file is there, and the lock its maker's.
Create(c) ==
    /\ pc[c] = "try" /\ lock = None
    /\ lock' = c /\ At(c, "read")
    /\ gap' = (gap \/ YoungAside)
    /\ UNCHANGED <<aside, old, boxVars, faults, late>>

Contended(c) ==
    /\ pc[c] = "try" /\ lock # None
    /\ At(c, "stat")
    /\ UNCHANGED <<lockVars, boxVars, faults, late, gap>>

\* It cannot be made for another reason.
CreateFails(c) ==
    /\ pc[c] = "try" /\ Fault
    /\ At(c, "over")
    /\ UNCHANGED <<lockVars, boxVars, late, gap>>

Stat(c) ==
    /\ pc[c] = "stat"
    /\ At(c, IF lock \in old THEN "rename" ELSE "wait")
    /\ UNCHANGED <<lockVars, boxVars, faults, late, gap>>

Retry(c) ==
    /\ pc[c] = "wait" /\ At(c, "try")
    /\ UNCHANGED <<lockVars, boxVars, faults, late, gap>>

\* The deadline is looked at here only, not on the way of a stale lock.
TimeOut(c) ==
    /\ pc[c] = "wait" /\ At(c, "over")
    /\ UNCHANGED <<lockVars, boxVars, faults, late, gap>>

\* What is at the path by now goes aside, over what the call has left there.
MoveAside(c) ==
    /\ pc[c] = "rename" /\ lock # None
    /\ aside' = [aside EXCEPT ![c] = lock] /\ lock' = None
    /\ At(c, "verify")
    /\ UNCHANGED <<old, boxVars, faults, late, gap>>

\* There is nothing by now, or it cannot be moved: the call tries again, at once
\* and without a look at its deadline, for as long as this happens.
MoveFails(c) ==
    /\ pc[c] = "rename" /\ At(c, "try")
    /\ UNCHANGED <<lockVars, boxVars, faults, late, gap>>

Rename(c) == MoveAside(c) \/ MoveFails(c)

\* Mutant: whatever was moved aside is dropped.
VerifyNothing(c) ==
    /\ pc[c] = "verify"
    /\ At(c, "drop")
    /\ UNCHANGED <<lockVars, boxVars, faults, late, gap>>

\* Mutant: it is always put back.
VerifyRestoring(c) ==
    /\ pc[c] = "verify"
    /\ At(c, "restore")
    /\ UNCHANGED <<lockVars, boxVars, faults, late, gap>>

\* It is looked at again where nobody else can move it.
Verify(c) ==
    /\ pc[c] = "verify"
    /\ \/ At(c, IF aside[c] \in old THEN "drop" ELSE "restore") /\ UNCHANGED faults
       \/ Fault /\ At(c, "restore")
    /\ UNCHANGED <<lockVars, boxVars, late, gap>>

\* Whether it can be removed or not.
Drop(c) ==
    /\ pc[c] = "drop" /\ At(c, "try")
    /\ \/ aside' = [aside EXCEPT ![c] = None] /\ UNCHANGED faults
       \/ Fault /\ UNCHANGED aside
    /\ UNCHANGED <<lock, old, boxVars, late, gap>>

\* Over the file that may have been made meanwhile; an error is ignored.
Restore(c) ==
    /\ pc[c] = "restore" /\ At(c, "try")
    /\ \/ /\ lock' = aside[c] /\ aside' = [aside EXCEPT ![c] = None]
          /\ gap' = (gap \/ lock # None) /\ UNCHANGED faults
       \/ /\ Fault /\ gap' = (gap \/ aside[c] \notin old)
          /\ UNCHANGED <<lock, aside>>
    /\ UNCHANGED <<old, boxVars, late>>

-----------------------------------------------------------------------------
(* What is done under the lock.                                              *)

Full(box) == Cardinality({m \in Senders : box[m] # "absent"}) >= MaxMessages

\* The inbox is read.  It may be full, have nothing to mark, or not be
\* readable.
Read(c) ==
    /\ pc[c] = "read"
    /\ \/ /\ seen' = [seen EXCEPT ![c] = inbox] /\ UNCHANGED faults
          /\ IF c \in Senders
             THEN At(c, IF Full(inbox) THEN "check" ELSE "write") /\ UNCHANGED result
             ELSE IF Unread(inbox) = {}
             THEN At(c, "check") /\ result' = [result EXCEPT ![c].ok = TRUE]
             ELSE At(c, "write") /\ UNCHANGED result
       \/ Fault /\ At(c, "check") /\ UNCHANGED <<seen, result>>
    /\ UNCHANGED <<lockVars, inbox, late, gap>>

\* All that was unread has been read.
Marked(c) == [m \in Senders |-> IF seen[c][m] = "unread" THEN "read" ELSE seen[c][m]]

\* It is written anew as a whole, or stays as it is.
Write(c) ==
    /\ pc[c] = "write"
    /\ At(c, "check")
    /\ \/ /\ UNCHANGED faults
          /\ inbox' = IF c \in Senders THEN [seen[c] EXCEPT ![c] = "unread"] ELSE Marked(c)
          /\ result' = [result EXCEPT ![c] = [ok |-> TRUE, new |-> IF c \in Senders THEN {}
                                                                   ELSE Unread(seen[c])]]
       \/ Fault /\ UNCHANGED <<inbox, result>>
    /\ UNCHANGED <<lockVars, seen, late, gap>>

-----------------------------------------------------------------------------
(* release.                                                                  *)

\* The file is only removed if it carries the call's token; it is left if it
\* does not, or cannot be read.
Check(c) ==
    /\ pc[c] = "check"
    /\ \/ At(c, IF lock = c THEN "remove" ELSE "over") /\ UNCHANGED faults
       \/ Fault /\ At(c, "over")
    /\ UNCHANGED <<lockVars, boxVars, late, gap>>

\* Whatever is there by now.
Remove(c) ==
    /\ pc[c] = "remove"
    /\ At(c, "over")
    /\ \/ lock' = None /\ UNCHANGED faults
       \/ Fault /\ UNCHANGED lock
    /\ UNCHANGED <<aside, old, boxVars, late, gap>>

-----------------------------------------------------------------------------
(* Processes and time.                                                       *)

Die(c) ==
    /\ pc[c] \notin {"idle", "over", "dead"} /\ Fault
    /\ At(c, "dead")
    /\ UNCHANGED <<lockVars, boxVars, late, gap>>

\* A lock file grows older than lockStaleAfter.
Age(c) ==
    /\ c \notin old
    /\ lock = c \/ \E d \in Calls : aside[d] = c
    /\ old' = old \cup {c}
    /\ late' = (late \/ Holds(c))
    /\ UNCHANGED <<pc, lock, aside, boxVars, faults, gap>>

-----------------------------------------------------------------------------
Goes(c) ==
    \/ Create(c) \/ Contended(c) \/ CreateFails(c) \/ Stat(c) \/ Retry(c) \/ TimeOut(c)
    \/ Rename(c) \/ Verify(c) \/ Drop(c) \/ Restore(c)
    \/ Read(c) \/ Write(c) \/ Check(c) \/ Remove(c)

Next == \E c \in Calls : Call(c) \/ Goes(c) \/ Die(c) \/ Age(c)

Spec == Init /\ [][Next]_vars

\* A call that is made goes on, and sleeps whenever it waits, so that waiting
\* again and again brings it to its deadline.
LiveSpec == Spec /\ \A c \in Calls : WF_vars(Goes(c)) /\ SF_vars(TimeOut(c))

-----------------------------------------------------------------------------
(* Properties.                                                               *)

\* No holder was slower than lockStaleAfter, nobody came while a young lock was
\* aside, and none was left there.
Undisturbed == ~ late /\ ~ gap

\* Then there is one holder at a time, through crashes, locks left behind and
\* any number of calls that break them.
OneHolder == Undisturbed => \A c, d \in Calls : Holds(c) /\ Holds(d) => c = d

\* A message whose Send returned without error is in the inbox, and has been
\* handed out as new to one reader if it is marked, never to two.
Returned(c) == pc[c] = "over" /\ result[c].ok
MessagesKept ==
    Undisturbed =>
        /\ \A s \in Senders : Returned(s) => inbox[s] # "absent"
        /\ \A s \in Senders : inbox[s] = "read" => \E r \in Readers : s \in result[r].new
        /\ \A r, q \in Readers : r # q => result[r].new \cap result[q].new = {}

\* What the return of a call that meets stale locks needs, for nothing else ends
\* its tries: renaming one that is there does not fail for ever.
StaleLocksMove == SF_vars(\E c \in Calls : MoveAside(c))

\* Then every call returns, whoever has died and left a lock, or a file aside.
Returns == \A c \in Calls : (pc[c] = "try") ~> (pc[c] \in {"over", "dead"})
EveryCallReturns == StaleLocksMove => Returns

\* The comment of acquireLock: "It retries with a short backoff until timeout",
\* whatever the renames do.
TimesOut == Returns

\* The comment of acquireLock: "if a holder rotated a fresh lock in the gap it
\* is renamed back rather than stolen".
NeverStolen == ~ late => \A c, d \in Calls : Holds(c) /\ Holds(d) => c = d
=============================================================================
