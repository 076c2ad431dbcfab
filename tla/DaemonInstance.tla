---------------------------- MODULE DaemonInstance ----------------------------
(***************************************************************************)
(* internal/daemon: how one daemon at a time comes to serve a control      *)
(* socket.  lock.go takes the lock file, reclaiming the one of a dead      *)
(* daemon; server.go (Serve, Shutdown, cleanup) then replaces the socket,  *)
(* publishes its listener, accepts, and removes everything it has made.    *)
(*                                                                         *)
(* A step is one system call on the shared paths, or one critical section  *)
(* of Server.mu.  A daemon is one process life: it is started once, may    *)
(* crash at any step, and its process id is not used again.  A lock file   *)
(* is named for the daemon that created it, wherever it is renamed to; it  *)
(* is empty until its creator has written its process id.                  *)
(***************************************************************************)
EXTENDS Naturals

CONSTANTS
    Daemons,   \* daemons started
    Previous   \* a daemon of before, dead, that may have left its lock file

ASSUME PreviousAssumption == Previous \notin Daemons

None == "none"
ASSUME NoneAssumption == None \notin Daemons \cup {Previous}

VARIABLES
    lockPath,   \* whose lock file is at the path of the lock
    written,    \* the lock files with a process id in them
    aside,      \* aside[d]: whose lock file d has renamed aside
    socket,     \* whose socket is at the path of the control socket
    status,     \* whose status file
    pc,         \* pc[d]: what d does next
    pass,    \* pass[d]: passes of the loop of acquireLock
    listening,  \* the daemons with an open listener
    known,      \* the daemons whose Server.listener is set
    done,       \* the daemons whose Server.done is closed
    racing,     \* history: two daemons have been in acquireLock at once
    unlinked    \* history: the daemons whose socket another one removed while they served

lockVars == <<lockPath, written, aside, pass>>
serveVars == <<socket, status, listening, known>>
instanceVars == <<lockVars, serveVars, pc, done, racing, unlinked>>

Acquiring == {"create", "fill", "read", "reclaim", "recheck"}
Serving   == {"clear", "bind", "publish", "check", "report", "accept"}
Cleaning  == {"wait", "close", "unlink", "forget", "release"}
Places == {"off", "refused", "returned", "dead"} \cup Acquiring \cup Serving \cup Cleaning

Alive(d) == d \in Daemons /\ pc[d] \notin {"off", "dead"}

\* Where acquireLock has returned a lock that has not been released.
Holds(d) == pc[d] \in Serving \cup Cleaning

InstanceTypeOK ==
    /\ lockPath \in Daemons \cup {Previous, None}
    /\ written \subseteq Daemons \cup {Previous}
    /\ aside \in [Daemons -> Daemons \cup {Previous, None}]
    /\ socket \in Daemons \cup {None} /\ status \in Daemons \cup {None}
    /\ pc \in [Daemons -> Places]
    /\ pass \in [Daemons -> 0 .. 2]
    /\ listening \subseteq Daemons /\ known \subseteq Daemons
    /\ done \subseteq Daemons
    /\ racing \in BOOLEAN /\ unlinked \subseteq Daemons

InstanceInit ==
    /\ lockPath \in {Previous, None}
    /\ written \in SUBSET {Previous}
    /\ aside = [d \in Daemons |-> None]
    /\ socket = None /\ status = None
    /\ pc = [d \in Daemons |-> "off"]
    /\ pass = [d \in Daemons |-> 0]
    /\ listening = {} /\ known = {} /\ done = {}
    /\ racing = FALSE /\ unlinked = {}

Proceed(d, place) == pc' = [pc EXCEPT ![d] = place]

-----------------------------------------------------------------------------
(* acquireLock.                                                              *)

Start(d) ==
    /\ pc[d] = "off"
    /\ Proceed(d, "create")
    /\ racing' = (racing \/ \E e \in Daemons \ {d} : pc[e] \in Acquiring)
    /\ UNCHANGED <<lockVars, serveVars, done, unlinked>>

\* Mutant: one pass too many.
CreateThrice(d) ==
    /\ pc[d] = "create"
    /\ IF pass[d] = 3
       THEN /\ Proceed(d, "refused")
            /\ UNCHANGED <<lockPath, pass>>
       ELSE /\ pass' = [pass EXCEPT ![d] = @ + 1]
            /\ lockPath' = IF lockPath = None THEN d ELSE lockPath
            /\ Proceed(d, IF lockPath = None THEN "fill" ELSE "read")
    /\ UNCHANGED <<written, aside, serveVars, done, racing, unlinked>>

\* The exclusive create; in its third pass the loop is over.
Create(d) ==
    /\ pc[d] = "create"
    /\ IF pass[d] = 2
       THEN /\ Proceed(d, "refused")
            /\ UNCHANGED <<lockPath, pass>>
       ELSE /\ pass' = [pass EXCEPT ![d] = @ + 1]
            /\ lockPath' = IF lockPath = None THEN d ELSE lockPath
            /\ Proceed(d, IF lockPath = None THEN "fill" ELSE "read")
    /\ UNCHANGED <<written, aside, serveVars, done, racing, unlinked>>

\* The process id goes to the file d created, wherever it is by now.
Fill(d) ==
    /\ pc[d] = "fill"
    /\ written' = written \cup {d}
    /\ Proceed(d, "clear")
    /\ UNCHANGED <<lockPath, aside, pass, serveVars, done, racing, unlinked>>

\* The write fails: what is at the path is removed.
FillFails(d) ==
    /\ pc[d] = "fill"
    /\ lockPath' = None
    /\ Proceed(d, "refused")
    /\ UNCHANGED <<written, aside, pass, serveVars, done, racing, unlinked>>

\* Mutant: a holder counts as alive when its socket answers.
LiveListener(file) == file \in written /\ Alive(file) /\ file \in listening

\* What readPidFile and isAlive say of a lock file.
LiveHolder(file) == file \in written /\ Alive(file)

\* Mutant: the cleanup is deferred before the lock is taken.
ReadPidCleaning(d) ==
    /\ pc[d] = "read"
    /\ Proceed(d, IF LiveHolder(lockPath) THEN "refused" ELSE "reclaim")
    /\ socket' = IF LiveHolder(lockPath) THEN None ELSE socket
    /\ unlinked' = IF LiveHolder(lockPath) THEN unlinked \cup ({socket} \cap listening) ELSE unlinked
    /\ UNCHANGED <<lockVars, status, listening, known, done, racing>>

ReadPid(d) ==
    /\ pc[d] = "read"
    /\ Proceed(d, IF LiveHolder(lockPath) THEN "refused" ELSE "reclaim")
    /\ UNCHANGED <<lockVars, serveVars, done, racing, unlinked>>

\* reclaimStaleLock: the rename, which fails when there is nothing at the path.
Reclaim(d) ==
    /\ pc[d] = "reclaim"
    /\ aside' = [aside EXCEPT ![d] = lockPath]
    /\ lockPath' = None
    /\ Proceed(d, IF lockPath = None THEN "create" ELSE "recheck")
    /\ UNCHANGED <<written, pass, serveVars, done, racing, unlinked>>

\* reclaimStaleLock: the file that was renamed is put back if its owner
\* lives, over whatever is at the path by now, and removed otherwise.
Recheck(d) ==
    /\ pc[d] = "recheck"
    /\ lockPath' = IF LiveHolder(aside[d]) THEN aside[d] ELSE lockPath
    /\ aside' = [aside EXCEPT ![d] = None]
    /\ Proceed(d, "create")
    /\ UNCHANGED <<written, pass, serveVars, done, racing, unlinked>>

-----------------------------------------------------------------------------
(* Serve, once it has the lock.                                              *)

\* os.Remove of the socket: "we hold the lock, so any socket here is stale".
ClearSocket(d) ==
    /\ pc[d] = "clear"
    /\ socket' = None
    /\ unlinked' = unlinked \cup ({socket} \cap listening)
    /\ Proceed(d, "bind")
    /\ UNCHANGED <<lockVars, status, listening, known, done, racing>>

\* net.Listen; it fails on an existing file.
Listen(d) ==
    /\ pc[d] = "bind"
    /\ IF socket = None
       THEN /\ socket' = d /\ listening' = listening \cup {d}
            /\ Proceed(d, "publish")
       ELSE /\ Proceed(d, "close")
            /\ UNCHANGED <<socket, listening>>
    /\ UNCHANGED <<lockVars, status, known, done, racing, unlinked>>

Publish(d) ==
    /\ pc[d] = "publish"
    /\ known' = known \cup {d}
    /\ Proceed(d, "check")
    /\ UNCHANGED <<lockVars, socket, status, listening, done, racing, unlinked>>

\* Closing a unix listener unlinks its path, whoever's socket is there.
CloseListener(d) ==
    /\ listening' = listening \ {d}
    /\ socket' = IF d \in listening THEN None ELSE socket
    /\ unlinked' = IF d \in listening THEN unlinked \cup ({socket} \cap (listening \ {d})) ELSE unlinked

\* Mutant: a shutdown that comes before the listener is known is forgotten.
CheckNothing(d) ==
    /\ pc[d] = "check"
    /\ Proceed(d, "report")
    /\ UNCHANGED <<lockVars, serveVars, done, racing, unlinked>>

CheckDone(d) ==
    /\ pc[d] = "check"
    /\ IF d \in done
       THEN CloseListener(d) /\ Proceed(d, "wait")
       ELSE Proceed(d, "report") /\ UNCHANGED <<listening, socket, unlinked>>
    /\ UNCHANGED <<lockVars, status, known, done, racing>>

WriteStatusFile(d) ==
    /\ pc[d] = "report"
    /\ status' = d
    /\ Proceed(d, "accept")
    /\ UNCHANGED <<lockVars, socket, listening, known, done, racing, unlinked>>

\* The socket cannot be hardened or the status file not be written.
ServeFails(d) ==
    /\ pc[d] = "report"
    /\ Proceed(d, "close")
    /\ UNCHANGED <<lockVars, serveVars, done, racing, unlinked>>

\* Accept returns an error once the listener is closed; Serve waits for its
\* handlers only when it was a shutdown that closed it.
AcceptFails(d) ==
    /\ pc[d] = "accept" /\ d \notin listening
    /\ Proceed(d, IF d \in done THEN "wait" ELSE "close")
    /\ UNCHANGED <<lockVars, serveVars, done, racing, unlinked>>

HandlersDone(d) ==
    /\ pc[d] = "wait"
    /\ Proceed(d, "close")
    /\ UNCHANGED <<lockVars, serveVars, done, racing, unlinked>>

\* Shutdown, from a signal or a client, as soon as there is a Server.
Shutdown(d) ==
    /\ Alive(d) /\ d \notin done
    /\ done' = done \cup {d}
    /\ IF d \in known THEN CloseListener(d) ELSE UNCHANGED <<listening, socket, unlinked>>
    /\ UNCHANGED <<lockVars, status, known, pc, racing>>

-----------------------------------------------------------------------------
(* cleanup, and the end of the process.                                      *)

Close(d) ==
    /\ pc[d] = "close"
    /\ CloseListener(d)
    /\ Proceed(d, "unlink")
    /\ UNCHANGED <<lockVars, status, known, done, racing>>

Unlink(d) ==
    /\ pc[d] = "unlink"
    /\ socket' = None
    /\ unlinked' = unlinked \cup ({socket} \cap listening)
    /\ Proceed(d, "forget")
    /\ UNCHANGED <<lockVars, status, listening, known, done, racing>>

\* Mutant: the status file is left.
ForgetNothing(d) ==
    /\ pc[d] = "forget"
    /\ Proceed(d, "release")
    /\ UNCHANGED <<lockVars, serveVars, done, racing, unlinked>>

Forget(d) ==
    /\ pc[d] = "forget"
    /\ status' = None
    /\ Proceed(d, "release")
    /\ UNCHANGED <<lockVars, socket, listening, known, done, racing, unlinked>>

\* fileLock.release removes what is at the path.
ReleaseLock(d) ==
    /\ pc[d] = "release"
    /\ lockPath' = None
    /\ Proceed(d, "returned")
    /\ UNCHANGED <<written, aside, pass, serveVars, done, racing, unlinked>>

\* The process ends after Serve, or is killed; the system closes its listener
\* and leaves its files.
ProcessEnds(d) ==
    /\ Alive(d)
    /\ Proceed(d, "dead")
    /\ listening' = listening \ {d}
    /\ UNCHANGED <<lockVars, socket, status, known, done, racing, unlinked>>

Step(d) ==
    \/ Create(d) \/ Fill(d) \/ FillFails(d) \/ ReadPid(d) \/ Reclaim(d) \/ Recheck(d)
    \/ ClearSocket(d) \/ Listen(d) \/ Publish(d) \/ CheckDone(d)
    \/ WriteStatusFile(d) \/ ServeFails(d) \/ AcceptFails(d) \/ HandlersDone(d)
    \/ Close(d) \/ Unlink(d) \/ Forget(d) \/ ReleaseLock(d)

InstanceNext == \E d \in Daemons : Start(d) \/ Step(d) \/ Shutdown(d) \/ ProcessEnds(d)

InstanceSpec == InstanceInit /\ [][InstanceNext]_instanceVars

\* A running process goes on.  Nothing obliges anybody to shut it down.
InstanceLiveSpec == InstanceSpec /\ \A d \in Daemons : WF_instanceVars(Step(d))

-----------------------------------------------------------------------------
(* Properties.                                                               *)

\* "A second start fails" (lock.go): one daemon at most holds the lock.
OneHolder == \A d, e \in Daemons : Holds(d) /\ Holds(e) => d = e

\* One daemon at most holds the lock as long as no two were starting at the
\* same time, whichever of them crashed where.
OneHolderInTurn == ~racing => OneHolder

\* A daemon that serves is not cut off by another one's start or end, as long
\* as no two were starting at the same time: "any socket here is stale".
SocketKept ==
    ~racing =>
        /\ unlinked = {}
        /\ \A d \in Daemons : pc[d] \in {"publish", "check", "report", "accept"} /\ d \in listening => socket = d

\* A start is refused because of a daemon that lives, or because its own lock
\* file cannot be written: a crash never needs manual cleanup.
RefusedForReason ==
    [][\A d \in Daemons :
          pc[d] \in {"create", "read", "recheck"} /\ pc'[d] = "refused"
              => racing \/ \E e \in Daemons \ {d} : Alive(e)]_instanceVars

\* When Serve has returned, none of the three files is the daemon's.
CleanReturn ==
    ~racing => \A d \in Daemons :
        pc[d] = "returned" => d \notin {lockPath, socket, status}

\* A shutdown ends Serve, also one that comes while it is still starting.
ShutdownEndsServe ==
    \A d \in Daemons :
        d \in done ~> pc[d] \in {"refused", "returned", "dead"}
=============================================================================
