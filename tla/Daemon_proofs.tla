---------------------------- MODULE Daemon_proofs ----------------------------
(***************************************************************************)
(* Proofs about the parts of the daemon: the single instance that serves   *)
(* (DaemonInstance), the pool of its workers (WorkerPool), the stream of   *)
(* one session (SessionStream) and the registry of the sessions            *)
(* (SessionRegistry), for all values of their constants.  The parts share  *)
(* no state; each has its own specification, its own invariant and its own *)
(* section below, in that order.                                           *)
(***************************************************************************)
EXTENDS DaemonInstance, WorkerPool, SessionStream, SessionRegistry,
        FiniteSetTheorems, SequenceTheorems, NaturalsInduction,
        WellFoundedInduction, TLAPS

-----------------------------------------------------------------------------
(***************************************************************************)
(* DaemonInstance, for every number of daemons.                            *)
(* As long as no two daemons have been starting at once, the one that      *)
(* starts is alone between reading a lock file and acting on what it read: *)
(* a file it finds stale stays stale, so it is not a holder's; and whoever *)
(* holds the lock has its own, filled, file at the path.                   *)
(***************************************************************************)

\* A daemon that has not been started has left nothing.
Fresh == \A d \in Daemons : pc[d] = "off" => d \notin written /\ lockPath # d

\* At most one daemon starts, at most one holds the lock.
Turn ==
    /\ \A d, e \in Daemons : pc[d] \in Acquiring /\ pc[e] \in Acquiring => d = e
    /\ OneHolder

\* What the file at the path of the lock, and the one aside, can be.
LockFile ==
    \A d \in Daemons :
        /\ Holds(d) => lockPath = d /\ d \in written
        /\ pc[d] = "fill" => lockPath = d
        /\ pc[d] \in {"fill", "reclaim", "recheck"} => \A e \in Daemons : ~ Holds(e)
        /\ pc[d] = "reclaim" => ~ LiveHolder(lockPath)
        /\ pc[d] = "recheck" => ~ LiveHolder(aside[d])

\* A listener is a holder's and has its socket at the path.
Listener ==
    /\ \A d \in listening :
          /\ socket = d
          /\ pc[d] \in {"publish", "check", "report", "accept", "close"}
    /\ unlinked = {}

\* What cleanup has removed stays removed.
Gone ==
    \A d \in Daemons :
        /\ pc[d] \in {"off", "forget", "release", "returned"} \cup Acquiring => socket # d
        /\ pc[d] \in {"off", "release", "returned"} \cup Acquiring => status # d
        /\ pc[d] = "returned" => lockPath # d

InTurn == Turn /\ LockFile /\ Listener /\ Gone

InstanceInv == InstanceTypeOK /\ Fresh /\ (~ racing => InTurn)

LEMMA InitInstanceInv == InstanceInit => InstanceInv
  <1>. SUFFICES ASSUME InstanceInit  PROVE InstanceInv
    OBVIOUS
  <1>1. InstanceTypeOK
    <2>1. written \subseteq Daemons \cup {Previous}
      BY DEF InstanceInit
    <2>2. pc \in [Daemons -> Places] /\ pass \in [Daemons -> 0 .. 2]
      BY DEF InstanceInit, Places
    <2>3. aside \in [Daemons -> Daemons \cup {Previous, None}]
      BY DEF InstanceInit
    <2>. QED
      BY <2>1, <2>2, <2>3 DEF InstanceInit, InstanceTypeOK
  <1>2. Fresh
    BY PreviousAssumption, NoneAssumption DEF InstanceInit, Fresh
  <1>3. InTurn
    BY NoneAssumption DEF InstanceInit, InTurn, Turn, OneHolder, Holds, LockFile, Listener, Gone,
       Acquiring, Serving, Cleaning
  <1>. QED
    BY <1>1, <1>2, <1>3 DEF InstanceInv

LEMMA CreateStep ==
    ASSUME InstanceInv, NEW d \in Daemons, Create(d)  PROVE InstanceInv'
  <1>. USE PreviousAssumption, NoneAssumption DEF Create, Proceed, lockVars, serveVars
  <1>1. InstanceTypeOK'
    BY DEF InstanceInv, InstanceTypeOK, Places, Acquiring, Serving, Cleaning
  <1>2. Fresh'
    BY DEF InstanceInv, InstanceTypeOK, Fresh
  <1>. SUFFICES ASSUME ~ racing'  PROVE InTurn'
    BY <1>1, <1>2 DEF InstanceInv
  <1>3. InTurn
    BY DEF InstanceInv
  <1>4. Turn'
    BY <1>3 DEF InstanceInv, InstanceTypeOK, InTurn, Turn, OneHolder, Holds, LockFile, Acquiring, Serving, Cleaning, LiveHolder, Alive
  <1>5. LockFile'
    BY <1>3 DEF InstanceInv, InstanceTypeOK, Fresh, InTurn, Turn, OneHolder, Holds, LockFile, LiveHolder, Alive, Acquiring, Serving, Cleaning
  <1>6. Listener'
    BY <1>3 DEF InstanceInv, InstanceTypeOK, InTurn, Turn, OneHolder, Holds, LockFile, Listener, Acquiring, Serving, Cleaning
  <1>7. Gone'
    BY <1>3 DEF InstanceInv, InstanceTypeOK, InTurn, Turn, OneHolder, Holds, LockFile, LiveHolder, Alive, Listener, Gone, Acquiring, Serving, Cleaning
  <1>. QED
    BY <1>4, <1>5, <1>6, <1>7 DEF InTurn

LEMMA FillStep ==
    ASSUME InstanceInv, NEW d \in Daemons, Fill(d)  PROVE InstanceInv'
  <1>. USE PreviousAssumption, NoneAssumption DEF Fill, Proceed, lockVars, serveVars
  <1>1. InstanceTypeOK'
    BY DEF InstanceInv, InstanceTypeOK, Places, Acquiring, Serving, Cleaning
  <1>2. Fresh'
    BY DEF InstanceInv, InstanceTypeOK, Fresh
  <1>. SUFFICES ASSUME ~ racing'  PROVE InTurn'
    BY <1>1, <1>2 DEF InstanceInv
  <1>3. InTurn
    BY DEF InstanceInv
  <1>4. Turn'
    BY <1>3 DEF InstanceInv, InstanceTypeOK, InTurn, Turn, OneHolder, Holds, LockFile, Acquiring, Serving, Cleaning, LiveHolder, Alive
  <1>5. LockFile'
    BY <1>3 DEF InstanceInv, InstanceTypeOK, Fresh, InTurn, Turn, OneHolder, Holds, LockFile, LiveHolder, Alive, Acquiring, Serving, Cleaning
  <1>6. Listener'
    BY <1>3 DEF InstanceInv, InstanceTypeOK, InTurn, Turn, OneHolder, Holds, LockFile, Listener, Acquiring, Serving, Cleaning
  <1>7. Gone'
    BY <1>3 DEF InstanceInv, InstanceTypeOK, InTurn, Turn, OneHolder, Holds, LockFile, LiveHolder, Alive, Listener, Gone, Acquiring, Serving, Cleaning
  <1>. QED
    BY <1>4, <1>5, <1>6, <1>7 DEF InTurn

LEMMA FillFailsStep ==
    ASSUME InstanceInv, NEW d \in Daemons, FillFails(d)  PROVE InstanceInv'
  <1>. USE PreviousAssumption, NoneAssumption DEF FillFails, Proceed, lockVars, serveVars
  <1>1. InstanceTypeOK'
    BY DEF InstanceInv, InstanceTypeOK, Places, Acquiring, Serving, Cleaning
  <1>2. Fresh'
    BY DEF InstanceInv, InstanceTypeOK, Fresh
  <1>. SUFFICES ASSUME ~ racing'  PROVE InTurn'
    BY <1>1, <1>2 DEF InstanceInv
  <1>3. InTurn
    BY DEF InstanceInv
  <1>4. Turn'
    BY <1>3 DEF InstanceInv, InstanceTypeOK, InTurn, Turn, OneHolder, Holds, LockFile, Acquiring, Serving, Cleaning, LiveHolder, Alive
  <1>5. LockFile'
    BY <1>3 DEF InstanceInv, InstanceTypeOK, Fresh, InTurn, Turn, OneHolder, Holds, LockFile, LiveHolder, Alive, Acquiring, Serving, Cleaning
  <1>6. Listener'
    BY <1>3 DEF InstanceInv, InstanceTypeOK, InTurn, Turn, OneHolder, Holds, LockFile, Listener, Acquiring, Serving, Cleaning
  <1>7. Gone'
    BY <1>3 DEF InstanceInv, InstanceTypeOK, InTurn, Turn, OneHolder, Holds, LockFile, LiveHolder, Alive, Listener, Gone, Acquiring, Serving, Cleaning
  <1>. QED
    BY <1>4, <1>5, <1>6, <1>7 DEF InTurn

LEMMA ReadPidStep ==
    ASSUME InstanceInv, NEW d \in Daemons, ReadPid(d)  PROVE InstanceInv'
  <1>. USE PreviousAssumption, NoneAssumption DEF ReadPid, Alive, LiveHolder, Proceed, lockVars, serveVars
  <1>1. InstanceTypeOK'
    BY DEF InstanceInv, InstanceTypeOK, Places, Acquiring, Serving, Cleaning
  <1>2. Fresh'
    BY DEF InstanceInv, InstanceTypeOK, Fresh
  <1>. SUFFICES ASSUME ~ racing'  PROVE InTurn'
    BY <1>1, <1>2 DEF InstanceInv
  <1>3. InTurn
    BY DEF InstanceInv
  <1>4. Turn'
    BY <1>3 DEF InstanceInv, InstanceTypeOK, InTurn, Turn, OneHolder, Holds, LockFile, Acquiring, Serving, Cleaning, LiveHolder, Alive
  <1>5. LockFile'
    BY <1>3 DEF InstanceInv, InstanceTypeOK, Fresh, InTurn, Turn, OneHolder, Holds, LockFile, LiveHolder, Alive, Acquiring, Serving, Cleaning
  <1>6. Listener'
    BY <1>3 DEF InstanceInv, InstanceTypeOK, InTurn, Turn, OneHolder, Holds, LockFile, Listener, Acquiring, Serving, Cleaning
  <1>7. Gone'
    BY <1>3 DEF InstanceInv, InstanceTypeOK, InTurn, Turn, OneHolder, Holds, LockFile, LiveHolder, Alive, Listener, Gone, Acquiring, Serving, Cleaning
  <1>. QED
    BY <1>4, <1>5, <1>6, <1>7 DEF InTurn

LEMMA ReclaimStep ==
    ASSUME InstanceInv, NEW d \in Daemons, Reclaim(d)  PROVE InstanceInv'
  <1>. USE PreviousAssumption, NoneAssumption DEF Reclaim, Proceed, lockVars, serveVars
  <1>1. InstanceTypeOK'
    BY DEF InstanceInv, InstanceTypeOK, Places, Acquiring, Serving, Cleaning
  <1>2. Fresh'
    BY DEF InstanceInv, InstanceTypeOK, Fresh
  <1>. SUFFICES ASSUME ~ racing'  PROVE InTurn'
    BY <1>1, <1>2 DEF InstanceInv
  <1>3. InTurn
    BY DEF InstanceInv
  <1>4. Turn'
    BY <1>3 DEF InstanceInv, InstanceTypeOK, InTurn, Turn, OneHolder, Holds, LockFile, Acquiring, Serving, Cleaning, LiveHolder, Alive
  <1>5. LockFile'
    BY <1>3 DEF InstanceInv, InstanceTypeOK, Fresh, InTurn, Turn, OneHolder, Holds, LockFile, LiveHolder, Alive, Acquiring, Serving, Cleaning
  <1>6. Listener'
    BY <1>3 DEF InstanceInv, InstanceTypeOK, InTurn, Turn, OneHolder, Holds, LockFile, Listener, Acquiring, Serving, Cleaning
  <1>7. Gone'
    BY <1>3 DEF InstanceInv, InstanceTypeOK, InTurn, Turn, OneHolder, Holds, LockFile, LiveHolder, Alive, Listener, Gone, Acquiring, Serving, Cleaning
  <1>. QED
    BY <1>4, <1>5, <1>6, <1>7 DEF InTurn

LEMMA RecheckStep ==
    ASSUME InstanceInv, NEW d \in Daemons, Recheck(d)  PROVE InstanceInv'
  <1>. USE PreviousAssumption, NoneAssumption DEF Recheck, Alive, LiveHolder, Proceed, lockVars, serveVars
  <1>1. InstanceTypeOK'
    BY DEF InstanceInv, InstanceTypeOK, Places, Acquiring, Serving, Cleaning
  <1>2. Fresh'
    BY DEF InstanceInv, InstanceTypeOK, Fresh
  <1>. SUFFICES ASSUME ~ racing'  PROVE InTurn'
    BY <1>1, <1>2 DEF InstanceInv
  <1>3. InTurn
    BY DEF InstanceInv
  <1>4. Turn'
    BY <1>3 DEF InstanceInv, InstanceTypeOK, InTurn, Turn, OneHolder, Holds, LockFile, Acquiring, Serving, Cleaning, LiveHolder, Alive
  <1>5. LockFile'
    BY <1>3 DEF InstanceInv, InstanceTypeOK, Fresh, InTurn, Turn, OneHolder, Holds, LockFile, LiveHolder, Alive, Acquiring, Serving, Cleaning
  <1>6. Listener'
    BY <1>3 DEF InstanceInv, InstanceTypeOK, InTurn, Turn, OneHolder, Holds, LockFile, Listener, Acquiring, Serving, Cleaning
  <1>7. Gone'
    BY <1>3 DEF InstanceInv, InstanceTypeOK, InTurn, Turn, OneHolder, Holds, LockFile, LiveHolder, Alive, Listener, Gone, Acquiring, Serving, Cleaning
  <1>. QED
    BY <1>4, <1>5, <1>6, <1>7 DEF InTurn

LEMMA ClearSocketStep ==
    ASSUME InstanceInv, NEW d \in Daemons, ClearSocket(d)  PROVE InstanceInv'
  <1>. USE PreviousAssumption, NoneAssumption DEF ClearSocket, Proceed, lockVars, serveVars
  <1>1. InstanceTypeOK'
    BY DEF InstanceInv, InstanceTypeOK, Places, Acquiring, Serving, Cleaning
  <1>2. Fresh'
    BY DEF InstanceInv, InstanceTypeOK, Fresh
  <1>. SUFFICES ASSUME ~ racing'  PROVE InTurn'
    BY <1>1, <1>2 DEF InstanceInv
  <1>3. InTurn
    BY DEF InstanceInv
  <1>4. Turn'
    BY <1>3 DEF InstanceInv, InstanceTypeOK, InTurn, Turn, OneHolder, Holds, LockFile, Acquiring, Serving, Cleaning, LiveHolder, Alive
  <1>5. LockFile'
    BY <1>3 DEF InstanceInv, InstanceTypeOK, Fresh, InTurn, Turn, OneHolder, Holds, LockFile, LiveHolder, Alive, Acquiring, Serving, Cleaning
  <1>6. Listener'
    BY <1>3 DEF InstanceInv, InstanceTypeOK, InTurn, Turn, OneHolder, Holds, LockFile, Listener, Acquiring, Serving, Cleaning
  <1>7. Gone'
    BY <1>3 DEF InstanceInv, InstanceTypeOK, InTurn, Turn, OneHolder, Holds, LockFile, LiveHolder, Alive, Listener, Gone, Acquiring, Serving, Cleaning
  <1>. QED
    BY <1>4, <1>5, <1>6, <1>7 DEF InTurn

LEMMA ListenStep ==
    ASSUME InstanceInv, NEW d \in Daemons, Listen(d)  PROVE InstanceInv'
  <1>. USE PreviousAssumption, NoneAssumption DEF Listen, Proceed, lockVars, serveVars
  <1>1. InstanceTypeOK'
    BY DEF InstanceInv, InstanceTypeOK, Places, Acquiring, Serving, Cleaning
  <1>2. Fresh'
    BY DEF InstanceInv, InstanceTypeOK, Fresh
  <1>. SUFFICES ASSUME ~ racing'  PROVE InTurn'
    BY <1>1, <1>2 DEF InstanceInv
  <1>3. InTurn
    BY DEF InstanceInv
  <1>4. Turn'
    BY <1>3 DEF InstanceInv, InstanceTypeOK, InTurn, Turn, OneHolder, Holds, LockFile, Acquiring, Serving, Cleaning, LiveHolder, Alive
  <1>5. LockFile'
    BY <1>3 DEF InstanceInv, InstanceTypeOK, Fresh, InTurn, Turn, OneHolder, Holds, LockFile, LiveHolder, Alive, Acquiring, Serving, Cleaning
  <1>6. Listener'
    BY <1>3 DEF InstanceInv, InstanceTypeOK, InTurn, Turn, OneHolder, Holds, LockFile, Listener, Acquiring, Serving, Cleaning
  <1>7. Gone'
    BY <1>3 DEF InstanceInv, InstanceTypeOK, InTurn, Turn, OneHolder, Holds, LockFile, LiveHolder, Alive, Listener, Gone, Acquiring, Serving, Cleaning
  <1>. QED
    BY <1>4, <1>5, <1>6, <1>7 DEF InTurn

LEMMA PublishStep ==
    ASSUME InstanceInv, NEW d \in Daemons, Publish(d)  PROVE InstanceInv'
  <1>. USE PreviousAssumption, NoneAssumption DEF Publish, Proceed, lockVars, serveVars
  <1>1. InstanceTypeOK'
    BY DEF InstanceInv, InstanceTypeOK, Places, Acquiring, Serving, Cleaning
  <1>2. Fresh'
    BY DEF InstanceInv, InstanceTypeOK, Fresh
  <1>. SUFFICES ASSUME ~ racing'  PROVE InTurn'
    BY <1>1, <1>2 DEF InstanceInv
  <1>3. InTurn
    BY DEF InstanceInv
  <1>4. Turn'
    BY <1>3 DEF InstanceInv, InstanceTypeOK, InTurn, Turn, OneHolder, Holds, LockFile, Acquiring, Serving, Cleaning, LiveHolder, Alive
  <1>5. LockFile'
    BY <1>3 DEF InstanceInv, InstanceTypeOK, Fresh, InTurn, Turn, OneHolder, Holds, LockFile, LiveHolder, Alive, Acquiring, Serving, Cleaning
  <1>6. Listener'
    BY <1>3 DEF InstanceInv, InstanceTypeOK, InTurn, Turn, OneHolder, Holds, LockFile, Listener, Acquiring, Serving, Cleaning
  <1>7. Gone'
    BY <1>3 DEF InstanceInv, InstanceTypeOK, InTurn, Turn, OneHolder, Holds, LockFile, LiveHolder, Alive, Listener, Gone, Acquiring, Serving, Cleaning
  <1>. QED
    BY <1>4, <1>5, <1>6, <1>7 DEF InTurn

LEMMA CheckDoneStep ==
    ASSUME InstanceInv, NEW d \in Daemons, CheckDone(d)  PROVE InstanceInv'
  <1>. USE PreviousAssumption, NoneAssumption DEF CheckDone, CloseListener, Proceed, lockVars, serveVars
  <1>1. InstanceTypeOK'
    BY DEF InstanceInv, InstanceTypeOK, Places, Acquiring, Serving, Cleaning
  <1>2. Fresh'
    BY DEF InstanceInv, InstanceTypeOK, Fresh
  <1>. SUFFICES ASSUME ~ racing'  PROVE InTurn'
    BY <1>1, <1>2 DEF InstanceInv
  <1>3. InTurn
    BY DEF InstanceInv
  <1>4. Turn'
    BY <1>3 DEF InstanceInv, InstanceTypeOK, InTurn, Turn, OneHolder, Holds, LockFile, Acquiring, Serving, Cleaning, LiveHolder, Alive
  <1>5. LockFile'
    BY <1>3 DEF InstanceInv, InstanceTypeOK, Fresh, InTurn, Turn, OneHolder, Holds, LockFile, LiveHolder, Alive, Acquiring, Serving, Cleaning
  <1>6. Listener'
    BY <1>3 DEF InstanceInv, InstanceTypeOK, InTurn, Turn, OneHolder, Holds, LockFile, Listener, Acquiring, Serving, Cleaning
  <1>7. Gone'
    BY <1>3 DEF InstanceInv, InstanceTypeOK, InTurn, Turn, OneHolder, Holds, LockFile, LiveHolder, Alive, Listener, Gone, Acquiring, Serving, Cleaning
  <1>. QED
    BY <1>4, <1>5, <1>6, <1>7 DEF InTurn

LEMMA WriteStatusFileStep ==
    ASSUME InstanceInv, NEW d \in Daemons, WriteStatusFile(d)  PROVE InstanceInv'
  <1>. USE PreviousAssumption, NoneAssumption DEF WriteStatusFile, Proceed, lockVars, serveVars
  <1>1. InstanceTypeOK'
    BY DEF InstanceInv, InstanceTypeOK, Places, Acquiring, Serving, Cleaning
  <1>2. Fresh'
    BY DEF InstanceInv, InstanceTypeOK, Fresh
  <1>. SUFFICES ASSUME ~ racing'  PROVE InTurn'
    BY <1>1, <1>2 DEF InstanceInv
  <1>3. InTurn
    BY DEF InstanceInv
  <1>4. Turn'
    BY <1>3 DEF InstanceInv, InstanceTypeOK, InTurn, Turn, OneHolder, Holds, LockFile, Acquiring, Serving, Cleaning, LiveHolder, Alive
  <1>5. LockFile'
    BY <1>3 DEF InstanceInv, InstanceTypeOK, Fresh, InTurn, Turn, OneHolder, Holds, LockFile, LiveHolder, Alive, Acquiring, Serving, Cleaning
  <1>6. Listener'
    BY <1>3 DEF InstanceInv, InstanceTypeOK, InTurn, Turn, OneHolder, Holds, LockFile, Listener, Acquiring, Serving, Cleaning
  <1>7. Gone'
    BY <1>3 DEF InstanceInv, InstanceTypeOK, InTurn, Turn, OneHolder, Holds, LockFile, LiveHolder, Alive, Listener, Gone, Acquiring, Serving, Cleaning
  <1>. QED
    BY <1>4, <1>5, <1>6, <1>7 DEF InTurn

LEMMA ServeFailsStep ==
    ASSUME InstanceInv, NEW d \in Daemons, ServeFails(d)  PROVE InstanceInv'
  <1>. USE PreviousAssumption, NoneAssumption DEF ServeFails, Proceed, lockVars, serveVars
  <1>1. InstanceTypeOK'
    BY DEF InstanceInv, InstanceTypeOK, Places, Acquiring, Serving, Cleaning
  <1>2. Fresh'
    BY DEF InstanceInv, InstanceTypeOK, Fresh
  <1>. SUFFICES ASSUME ~ racing'  PROVE InTurn'
    BY <1>1, <1>2 DEF InstanceInv
  <1>3. InTurn
    BY DEF InstanceInv
  <1>4. Turn'
    BY <1>3 DEF InstanceInv, InstanceTypeOK, InTurn, Turn, OneHolder, Holds, LockFile, Acquiring, Serving, Cleaning, LiveHolder, Alive
  <1>5. LockFile'
    BY <1>3 DEF InstanceInv, InstanceTypeOK, Fresh, InTurn, Turn, OneHolder, Holds, LockFile, LiveHolder, Alive, Acquiring, Serving, Cleaning
  <1>6. Listener'
    BY <1>3 DEF InstanceInv, InstanceTypeOK, InTurn, Turn, OneHolder, Holds, LockFile, Listener, Acquiring, Serving, Cleaning
  <1>7. Gone'
    BY <1>3 DEF InstanceInv, InstanceTypeOK, InTurn, Turn, OneHolder, Holds, LockFile, LiveHolder, Alive, Listener, Gone, Acquiring, Serving, Cleaning
  <1>. QED
    BY <1>4, <1>5, <1>6, <1>7 DEF InTurn

LEMMA AcceptFailsStep ==
    ASSUME InstanceInv, NEW d \in Daemons, AcceptFails(d)  PROVE InstanceInv'
  <1>. USE PreviousAssumption, NoneAssumption DEF AcceptFails, Proceed, lockVars, serveVars
  <1>1. InstanceTypeOK'
    BY DEF InstanceInv, InstanceTypeOK, Places, Acquiring, Serving, Cleaning
  <1>2. Fresh'
    BY DEF InstanceInv, InstanceTypeOK, Fresh
  <1>. SUFFICES ASSUME ~ racing'  PROVE InTurn'
    BY <1>1, <1>2 DEF InstanceInv
  <1>3. InTurn
    BY DEF InstanceInv
  <1>4. Turn'
    BY <1>3 DEF InstanceInv, InstanceTypeOK, InTurn, Turn, OneHolder, Holds, LockFile, Acquiring, Serving, Cleaning, LiveHolder, Alive
  <1>5. LockFile'
    BY <1>3 DEF InstanceInv, InstanceTypeOK, Fresh, InTurn, Turn, OneHolder, Holds, LockFile, LiveHolder, Alive, Acquiring, Serving, Cleaning
  <1>6. Listener'
    BY <1>3 DEF InstanceInv, InstanceTypeOK, InTurn, Turn, OneHolder, Holds, LockFile, Listener, Acquiring, Serving, Cleaning
  <1>7. Gone'
    BY <1>3 DEF InstanceInv, InstanceTypeOK, InTurn, Turn, OneHolder, Holds, LockFile, LiveHolder, Alive, Listener, Gone, Acquiring, Serving, Cleaning
  <1>. QED
    BY <1>4, <1>5, <1>6, <1>7 DEF InTurn

LEMMA HandlersDoneStep ==
    ASSUME InstanceInv, NEW d \in Daemons, HandlersDone(d)  PROVE InstanceInv'
  <1>. USE PreviousAssumption, NoneAssumption DEF HandlersDone, Proceed, lockVars, serveVars
  <1>1. InstanceTypeOK'
    BY DEF InstanceInv, InstanceTypeOK, Places, Acquiring, Serving, Cleaning
  <1>2. Fresh'
    BY DEF InstanceInv, InstanceTypeOK, Fresh
  <1>. SUFFICES ASSUME ~ racing'  PROVE InTurn'
    BY <1>1, <1>2 DEF InstanceInv
  <1>3. InTurn
    BY DEF InstanceInv
  <1>4. Turn'
    BY <1>3 DEF InstanceInv, InstanceTypeOK, InTurn, Turn, OneHolder, Holds, LockFile, Acquiring, Serving, Cleaning, LiveHolder, Alive
  <1>5. LockFile'
    BY <1>3 DEF InstanceInv, InstanceTypeOK, Fresh, InTurn, Turn, OneHolder, Holds, LockFile, LiveHolder, Alive, Acquiring, Serving, Cleaning
  <1>6. Listener'
    BY <1>3 DEF InstanceInv, InstanceTypeOK, InTurn, Turn, OneHolder, Holds, LockFile, Listener, Acquiring, Serving, Cleaning
  <1>7. Gone'
    BY <1>3 DEF InstanceInv, InstanceTypeOK, InTurn, Turn, OneHolder, Holds, LockFile, LiveHolder, Alive, Listener, Gone, Acquiring, Serving, Cleaning
  <1>. QED
    BY <1>4, <1>5, <1>6, <1>7 DEF InTurn

LEMMA CloseStep ==
    ASSUME InstanceInv, NEW d \in Daemons, Close(d)  PROVE InstanceInv'
  <1>. USE PreviousAssumption, NoneAssumption DEF Close, CloseListener, Proceed, lockVars, serveVars
  <1>1. InstanceTypeOK'
    BY DEF InstanceInv, InstanceTypeOK, Places, Acquiring, Serving, Cleaning
  <1>2. Fresh'
    BY DEF InstanceInv, InstanceTypeOK, Fresh
  <1>. SUFFICES ASSUME ~ racing'  PROVE InTurn'
    BY <1>1, <1>2 DEF InstanceInv
  <1>3. InTurn
    BY DEF InstanceInv
  <1>4. Turn'
    BY <1>3 DEF InstanceInv, InstanceTypeOK, InTurn, Turn, OneHolder, Holds, LockFile, Acquiring, Serving, Cleaning, LiveHolder, Alive
  <1>5. LockFile'
    BY <1>3 DEF InstanceInv, InstanceTypeOK, Fresh, InTurn, Turn, OneHolder, Holds, LockFile, LiveHolder, Alive, Acquiring, Serving, Cleaning
  <1>6. Listener'
    BY <1>3 DEF InstanceInv, InstanceTypeOK, InTurn, Turn, OneHolder, Holds, LockFile, Listener, Acquiring, Serving, Cleaning
  <1>7. Gone'
    BY <1>3 DEF InstanceInv, InstanceTypeOK, InTurn, Turn, OneHolder, Holds, LockFile, LiveHolder, Alive, Listener, Gone, Acquiring, Serving, Cleaning
  <1>. QED
    BY <1>4, <1>5, <1>6, <1>7 DEF InTurn

LEMMA UnlinkStep ==
    ASSUME InstanceInv, NEW d \in Daemons, Unlink(d)  PROVE InstanceInv'
  <1>. USE PreviousAssumption, NoneAssumption DEF Unlink, Proceed, lockVars, serveVars
  <1>1. InstanceTypeOK'
    BY DEF InstanceInv, InstanceTypeOK, Places, Acquiring, Serving, Cleaning
  <1>2. Fresh'
    BY DEF InstanceInv, InstanceTypeOK, Fresh
  <1>. SUFFICES ASSUME ~ racing'  PROVE InTurn'
    BY <1>1, <1>2 DEF InstanceInv
  <1>3. InTurn
    BY DEF InstanceInv
  <1>4. Turn'
    BY <1>3 DEF InstanceInv, InstanceTypeOK, InTurn, Turn, OneHolder, Holds, LockFile, Acquiring, Serving, Cleaning, LiveHolder, Alive
  <1>5. LockFile'
    BY <1>3 DEF InstanceInv, InstanceTypeOK, Fresh, InTurn, Turn, OneHolder, Holds, LockFile, LiveHolder, Alive, Acquiring, Serving, Cleaning
  <1>6. Listener'
    BY <1>3 DEF InstanceInv, InstanceTypeOK, InTurn, Turn, OneHolder, Holds, LockFile, Listener, Acquiring, Serving, Cleaning
  <1>7. Gone'
    BY <1>3 DEF InstanceInv, InstanceTypeOK, InTurn, Turn, OneHolder, Holds, LockFile, LiveHolder, Alive, Listener, Gone, Acquiring, Serving, Cleaning
  <1>. QED
    BY <1>4, <1>5, <1>6, <1>7 DEF InTurn

LEMMA ForgetStep ==
    ASSUME InstanceInv, NEW d \in Daemons, Forget(d)  PROVE InstanceInv'
  <1>. USE PreviousAssumption, NoneAssumption DEF Forget, Proceed, lockVars, serveVars
  <1>1. InstanceTypeOK'
    BY DEF InstanceInv, InstanceTypeOK, Places, Acquiring, Serving, Cleaning
  <1>2. Fresh'
    BY DEF InstanceInv, InstanceTypeOK, Fresh
  <1>. SUFFICES ASSUME ~ racing'  PROVE InTurn'
    BY <1>1, <1>2 DEF InstanceInv
  <1>3. InTurn
    BY DEF InstanceInv
  <1>4. Turn'
    BY <1>3 DEF InstanceInv, InstanceTypeOK, InTurn, Turn, OneHolder, Holds, LockFile, Acquiring, Serving, Cleaning, LiveHolder, Alive
  <1>5. LockFile'
    BY <1>3 DEF InstanceInv, InstanceTypeOK, Fresh, InTurn, Turn, OneHolder, Holds, LockFile, LiveHolder, Alive, Acquiring, Serving, Cleaning
  <1>6. Listener'
    BY <1>3 DEF InstanceInv, InstanceTypeOK, InTurn, Turn, OneHolder, Holds, LockFile, Listener, Acquiring, Serving, Cleaning
  <1>7. Gone'
    BY <1>3 DEF InstanceInv, InstanceTypeOK, InTurn, Turn, OneHolder, Holds, LockFile, LiveHolder, Alive, Listener, Gone, Acquiring, Serving, Cleaning
  <1>. QED
    BY <1>4, <1>5, <1>6, <1>7 DEF InTurn

LEMMA ReleaseLockStep ==
    ASSUME InstanceInv, NEW d \in Daemons, ReleaseLock(d)  PROVE InstanceInv'
  <1>. USE PreviousAssumption, NoneAssumption DEF ReleaseLock, Proceed, lockVars, serveVars
  <1>1. InstanceTypeOK'
    BY DEF InstanceInv, InstanceTypeOK, Places, Acquiring, Serving, Cleaning
  <1>2. Fresh'
    BY DEF InstanceInv, InstanceTypeOK, Fresh
  <1>. SUFFICES ASSUME ~ racing'  PROVE InTurn'
    BY <1>1, <1>2 DEF InstanceInv
  <1>3. InTurn
    BY DEF InstanceInv
  <1>4. Turn'
    BY <1>3 DEF InstanceInv, InstanceTypeOK, InTurn, Turn, OneHolder, Holds, LockFile, Acquiring, Serving, Cleaning, LiveHolder, Alive
  <1>5. LockFile'
    BY <1>3 DEF InstanceInv, InstanceTypeOK, Fresh, InTurn, Turn, OneHolder, Holds, LockFile, LiveHolder, Alive, Acquiring, Serving, Cleaning
  <1>6. Listener'
    BY <1>3 DEF InstanceInv, InstanceTypeOK, InTurn, Turn, OneHolder, Holds, LockFile, Listener, Acquiring, Serving, Cleaning
  <1>7. Gone'
    BY <1>3 DEF InstanceInv, InstanceTypeOK, InTurn, Turn, OneHolder, Holds, LockFile, LiveHolder, Alive, Listener, Gone, Acquiring, Serving, Cleaning
  <1>. QED
    BY <1>4, <1>5, <1>6, <1>7 DEF InTurn

LEMMA StartStep ==
    ASSUME InstanceInv, NEW d \in Daemons, Start(d)  PROVE InstanceInv'
  <1>. USE PreviousAssumption, NoneAssumption DEF Start, Proceed, lockVars, serveVars
  <1>1. InstanceTypeOK'
    BY DEF InstanceInv, InstanceTypeOK, Places, Acquiring, Serving, Cleaning
  <1>2. Fresh'
    BY DEF InstanceInv, InstanceTypeOK, Fresh
  <1>. SUFFICES ASSUME ~ racing'  PROVE InTurn'
    BY <1>1, <1>2 DEF InstanceInv
  <1>3. InTurn
    BY DEF InstanceInv
  <1>4. Turn'
    <2>1. \A e, f \in Daemons : pc'[e] \in Acquiring /\ pc'[f] \in Acquiring => e = f
      <3>1. \A e \in Daemons \ {d} : pc[e] \notin Acquiring
        OBVIOUS
      <3>2. \A e \in Daemons \ {d} : pc'[e] = pc[e]
        BY DEF InstanceInv, InstanceTypeOK
      <3>. QED
        BY <3>1, <3>2
    <2>2. \A e \in Daemons : Holds(e)' => Holds(e)
      BY DEF InstanceInv, InstanceTypeOK, Holds, Serving, Cleaning
    <2>3. OneHolder'
      BY <1>3, <2>2 DEF InTurn, Turn, OneHolder
    <2>. QED
      BY <2>1, <2>3 DEF Turn
  <1>5. LockFile'
    BY <1>3 DEF InstanceInv, InstanceTypeOK, Fresh, InTurn, Turn, OneHolder, Holds, LockFile, LiveHolder, Alive, Acquiring, Serving, Cleaning
  <1>6. Listener'
    BY <1>3 DEF InstanceInv, InstanceTypeOK, InTurn, Turn, OneHolder, Holds, LockFile, Listener, Acquiring, Serving, Cleaning
  <1>7. Gone'
    BY <1>3 DEF InstanceInv, InstanceTypeOK, InTurn, Turn, OneHolder, Holds, LockFile, LiveHolder, Alive, Listener, Gone, Acquiring, Serving, Cleaning
  <1>. QED
    BY <1>4, <1>5, <1>6, <1>7 DEF InTurn

LEMMA ShutdownStep ==
    ASSUME InstanceInv, NEW d \in Daemons, Shutdown(d)  PROVE InstanceInv'
  <1>. USE PreviousAssumption, NoneAssumption DEF Shutdown, CloseListener, Alive, Proceed, lockVars, serveVars
  <1>1. InstanceTypeOK'
    BY DEF InstanceInv, InstanceTypeOK, Places, Acquiring, Serving, Cleaning
  <1>2. Fresh'
    BY DEF InstanceInv, InstanceTypeOK, Fresh
  <1>. SUFFICES ASSUME ~ racing'  PROVE InTurn'
    BY <1>1, <1>2 DEF InstanceInv
  <1>3. InTurn
    BY DEF InstanceInv
  <1>4. Turn'
    BY <1>3 DEF InstanceInv, InstanceTypeOK, InTurn, Turn, OneHolder, Holds, LockFile, Acquiring, Serving, Cleaning, LiveHolder, Alive
  <1>5. LockFile'
    BY <1>3 DEF InstanceInv, InstanceTypeOK, Fresh, InTurn, Turn, OneHolder, Holds, LockFile, LiveHolder, Alive, Acquiring, Serving, Cleaning
  <1>6. Listener'
    BY <1>3 DEF InstanceInv, InstanceTypeOK, InTurn, Turn, OneHolder, Holds, LockFile, Listener, Acquiring, Serving, Cleaning
  <1>7. Gone'
    BY <1>3 DEF InstanceInv, InstanceTypeOK, InTurn, Turn, OneHolder, Holds, LockFile, LiveHolder, Alive, Listener, Gone, Acquiring, Serving, Cleaning
  <1>. QED
    BY <1>4, <1>5, <1>6, <1>7 DEF InTurn

LEMMA ProcessEndsStep ==
    ASSUME InstanceInv, NEW d \in Daemons, ProcessEnds(d)  PROVE InstanceInv'
  <1>. USE PreviousAssumption, NoneAssumption DEF ProcessEnds, Alive, Proceed, lockVars, serveVars
  <1>1. InstanceTypeOK'
    BY DEF InstanceInv, InstanceTypeOK, Places, Acquiring, Serving, Cleaning
  <1>2. Fresh'
    BY DEF InstanceInv, InstanceTypeOK, Fresh
  <1>. SUFFICES ASSUME ~ racing'  PROVE InTurn'
    BY <1>1, <1>2 DEF InstanceInv
  <1>3. InTurn
    BY DEF InstanceInv
  <1>4. Turn'
    BY <1>3 DEF InstanceInv, InstanceTypeOK, InTurn, Turn, OneHolder, Holds, LockFile, Acquiring, Serving, Cleaning, LiveHolder, Alive
  <1>5. LockFile'
    BY <1>3 DEF InstanceInv, InstanceTypeOK, Fresh, InTurn, Turn, OneHolder, Holds, LockFile, LiveHolder, Alive, Acquiring, Serving, Cleaning
  <1>6. Listener'
    BY <1>3 DEF InstanceInv, InstanceTypeOK, InTurn, Turn, OneHolder, Holds, LockFile, Listener, Acquiring, Serving, Cleaning
  <1>7. Gone'
    BY <1>3 DEF InstanceInv, InstanceTypeOK, InTurn, Turn, OneHolder, Holds, LockFile, LiveHolder, Alive, Listener, Gone, Acquiring, Serving, Cleaning
  <1>. QED
    BY <1>4, <1>5, <1>6, <1>7 DEF InTurn

LEMMA NextInstanceInv == InstanceInv /\ [InstanceNext]_instanceVars => InstanceInv'
  <1>. SUFFICES ASSUME InstanceInv, [InstanceNext]_instanceVars  PROVE InstanceInv'
    OBVIOUS
  <1>1. CASE UNCHANGED instanceVars
    BY <1>1 DEF instanceVars, lockVars, serveVars, InstanceInv, InstanceTypeOK, Fresh, InTurn, Turn, OneHolder,
       Holds, LockFile, LiveHolder, Alive, Listener, Gone
  <1>2. ASSUME NEW d \in Daemons, Step(d)  PROVE InstanceInv'
    BY <1>2, CreateStep, FillStep, FillFailsStep, ReadPidStep,
       ReclaimStep, RecheckStep, ClearSocketStep, ListenStep,
       PublishStep, CheckDoneStep, WriteStatusFileStep, ServeFailsStep,
       AcceptFailsStep, HandlersDoneStep, CloseStep, UnlinkStep,
       ForgetStep, ReleaseLockStep DEF Step
  <1>3. ASSUME NEW d \in Daemons, Start(d) \/ Shutdown(d) \/ ProcessEnds(d)  PROVE InstanceInv'
    BY <1>3, StartStep, ShutdownStep, ProcessEndsStep
  <1>. QED
    BY <1>1, <1>2, <1>3 DEF InstanceNext

LEMMA AlwaysInstanceInv == InstanceSpec => []InstanceInv
  <1>1. QED
    BY InitInstanceInv, NextInstanceInv, PTL DEF InstanceSpec

\* As long as no two daemons start at the same time one at most holds the
\* single-instance lock, whatever crashed before (acquireLock).
THEOREM OneInTurn == InstanceSpec => []OneHolderInTurn
  <1>1. InstanceInv => OneHolderInTurn
    BY DEF InstanceInv, InTurn, Turn, OneHolderInTurn
  <1>. QED
    BY <1>1, AlwaysInstanceInv, PTL

\* Under the same condition no daemon removes the socket of one that serves
\* (Serve, cleanup).
THEOREM SocketsKept == InstanceSpec => []SocketKept
  <1>1. InstanceInv => SocketKept
    BY DEF InstanceInv, InTurn, Listener, SocketKept
  <1>. QED
    BY <1>1, AlwaysInstanceInv, PTL

\* Under the same condition a daemon whose Serve returned has left no lock,
\* socket or status file of its own (cleanup).
THEOREM ReturnsClean == InstanceSpec => []CleanReturn
  <1>1. InstanceInv => CleanReturn
    BY DEF InstanceInv, InTurn, Gone, CleanReturn
  <1>. QED
    BY <1>1, AlwaysInstanceInv, PTL

-----------------------------------------------------------------------------
(***************************************************************************)
(* WorkerPool, for every set of requests, number of slots and attempts.    *)
(* The inductive invariant LeaseInv counts leases by the Runs between Lease*)
(* and Release, and ties each live worker to a Run in the two phases that  *)
(* end only once the worker has ended.                                     *)
(***************************************************************************)

LEMMA LeasedFinite == IsFiniteSet(Leased) /\ Cardinality(Leased) \in Nat
BY RequestsAssumption, FS_Subset, FS_CardinalityType DEF Leased

\* A Run that keeps its lease, or stays without one, does not change the count.
LEMMA SameLeased ==
    ASSUME PoolTypeOK, NEW r \in Requests, NEW p \in Phases, Goto(r, p),
           p \in Holding <=> phase[r] \in Holding
    PROVE  Leased' = Leased
BY DEF PoolTypeOK, Goto, Leased

LEMMA MoreLeased ==
    ASSUME PoolTypeOK, NEW r \in Requests, NEW p \in Holding, Goto(r, p),
           phase[r] \notin Holding
    PROVE  Cardinality(Leased') = Cardinality(Leased) + 1
  <1>1. Leased' = Leased \cup {r} /\ r \notin Leased
    BY DEF PoolTypeOK, Goto, Leased
  <1>. QED
    BY <1>1, LeasedFinite, FS_AddElement

LEMMA FewerLeased ==
    ASSUME PoolTypeOK, NEW r \in Requests, NEW p, p \notin Holding, Goto(r, p),
           phase[r] \in Holding
    PROVE  Cardinality(Leased') = Cardinality(Leased) - 1
  <1>1. Leased' = Leased \ {r} /\ r \in Leased
    BY DEF PoolTypeOK, Goto, Leased
  <1>. QED
    BY <1>1, LeasedFinite, FS_RemoveElement

LEMMA RunStepType ==
    ASSUME PoolTypeOK, NEW r \in Requests, Acquire(r) \/ RunStep(r),
           slots' \in Nat
    PROVE  PoolTypeOK'
  <1>. USE AttemptsAssumption
       DEF PoolTypeOK, drainVars, Goto, Becomes, Return, Phases, Holding, Working,
           Workers, Results
  <1>1. CASE Acquire(r)
    BY <1>1 DEF Acquire
  <1>2. CASE Lease(r)
    BY <1>2 DEF Lease
  <1>3. CASE Refuse(r)
    BY <1>3 DEF Refuse
  <1>4. CASE CheckDraining(r)
    BY <1>4 DEF CheckDraining
  <1>5. CASE Launch(r) \/ StartProcess(r)
    BY <1>5 DEF Launch, StartProcess
  <1>6. CASE Track(r)
    BY <1>6 DEF Track
  <1>7. CASE PumpAndWait(r)
    BY <1>7 DEF PumpAndWait
  <1>8. CASE Untrack(r)
    BY <1>8 DEF Untrack
  <1>9. CASE Judge(r)
    BY <1>9 DEF Judge
  <1>10. CASE Wake(r)
    BY <1>10 DEF Wake, LastAttempt
  <1>11. CASE SleepCancelled(r)
    BY <1>11 DEF SleepCancelled
  <1>12. CASE Release(r)
    BY <1>12 DEF Release
  <1>. QED
    BY <1>1, <1>2, <1>3, <1>4, <1>5, <1>6, <1>7, <1>8, <1>9, <1>10, <1>11,
       <1>12 DEF RunStep

\* A step of Run that neither takes nor gives back a lease.
LEMMA KeepsLease ==
    ASSUME LeaseInv, PoolTypeOK', NEW r \in Requests, NEW p \in Phases, Goto(r, p),
           p \in Holding <=> phase[r] \in Holding, slots' = slots,
           \A q \in Requests : q # r => worker'[q] = worker[q],
           worker'[r] = "live" => p \in {"started", "pump"}
    PROVE  LeaseInv'
  <1>1. Leased' = Leased
    BY SameLeased DEF LeaseInv
  <1>2. LeaseAccounting'
    BY <1>1 DEF LeaseInv, LeaseAccounting
  <1>3. WorkerIsSupervised'
    BY DEF LeaseInv, WorkerIsSupervised, Goto, PoolTypeOK
  <1>. QED
    BY <1>2, <1>3 DEF LeaseInv

LEMMA RunStepInv ==
    ASSUME LeaseInv, NEW r \in Requests, Acquire(r) \/ RunStep(r)
    PROVE  LeaseInv'
  <1>. USE DEF LeaseInv
  <1>0. worker[r] = "live" => phase[r] \in {"started", "pump"}
    BY DEF WorkerIsSupervised
  <1>1. CASE Lease(r)
    <2>1. slots' = slots + 1 /\ slots < Size /\ Goto(r, "leased")
      BY <1>1 DEF Lease, SlotFree
    <2>2. PoolTypeOK'
      BY <1>1, <2>1, RunStepType DEF RunStep, PoolTypeOK
    <2>3. Cardinality(Leased') = Cardinality(Leased) + 1
      BY <1>1, <2>1, MoreLeased DEF Lease, Holding, Working
    <2>4. WorkerIsSupervised'
      BY <1>0, <1>1 DEF Lease, Goto, WorkerIsSupervised, PoolTypeOK
    <2>5. LeaseAccounting' /\ slots' <= Size
      BY <2>1, <2>3, SizeAssumption DEF LeaseAccounting, PoolTypeOK
    <2>. QED
      BY <2>2, <2>4, <2>5
  <1>2. CASE Release(r)
    <2>1. slots' = slots - 1 /\ Goto(r, "back") /\ phase[r] = "leave"
      BY <1>2 DEF Release
    <2>2. Cardinality(Leased') = Cardinality(Leased) - 1
      BY <2>1, FewerLeased DEF Holding, Working
    <2>3. r \in Leased
      BY <2>1 DEF Leased, Holding
    <2>4. Cardinality(Leased) >= 1
      <3>1. Cardinality(Leased) # 0
        BY <2>3, LeasedFinite, FS_EmptySet
      <3>. QED
        BY <3>1, LeasedFinite
    <2>5. slots' \in Nat /\ slots' <= Size
      BY <2>1, <2>4, SizeAssumption DEF LeaseAccounting, PoolTypeOK
    <2>6. PoolTypeOK'
      BY <1>2, <2>5, RunStepType DEF RunStep
    <2>7. WorkerIsSupervised'
      BY <1>0, <1>2 DEF Release, Goto, WorkerIsSupervised, PoolTypeOK
    <2>8. LeaseAccounting'
      BY <2>1, <2>2 DEF LeaseAccounting
    <2>. QED
      BY <2>5, <2>6, <2>7, <2>8
  <1>3. ASSUME ~ Lease(r), ~ Release(r)
        PROVE  LeaseInv'
    <2>1. slots' = slots
      BY <1>3 DEF RunStep, Acquire, Refuse, CheckDraining, Launch, StartProcess, Track,
                  PumpAndWait, Untrack, Judge, Wake, SleepCancelled
    <2>2. PoolTypeOK'
      BY <2>1, RunStepType DEF PoolTypeOK
    <2>. USE DEF Phases, Holding, Working, Return, Becomes, PoolTypeOK
    <2>3. CASE Acquire(r)
      BY <2>1, <2>2, <2>3, <1>0, KeepsLease DEF Acquire
    <2>4. CASE Refuse(r)
      BY <2>1, <2>2, <2>4, <1>0, KeepsLease DEF Refuse
    <2>5. CASE CheckDraining(r)
      BY <2>1, <2>2, <2>5, <1>0, KeepsLease DEF CheckDraining
    <2>6. CASE Launch(r)
      BY <2>1, <2>2, <2>6, <1>0, KeepsLease DEF Launch
    <2>13. CASE StartProcess(r)
      BY <2>1, <2>2, <2>13, <1>0, KeepsLease DEF StartProcess
    <2>7. CASE Track(r)
      BY <2>1, <2>2, <2>7, <1>0, KeepsLease DEF Track
    <2>8. CASE PumpAndWait(r)
      BY <2>1, <2>2, <2>8, <1>0, KeepsLease DEF PumpAndWait, Ended
    <2>9. CASE Untrack(r)
      BY <2>1, <2>2, <2>9, <1>0, KeepsLease DEF Untrack
    <2>10. CASE Judge(r)
      BY <2>1, <2>2, <2>10, <1>0, KeepsLease DEF Judge
    <2>11. CASE Wake(r)
      BY <2>1, <2>2, <2>11, <1>0, KeepsLease DEF Wake
    <2>12. CASE SleepCancelled(r)
      BY <2>1, <2>2, <2>12, <1>0, KeepsLease DEF SleepCancelled
    <2>. QED
      BY <1>3, <2>3, <2>4, <2>5, <2>6, <2>7, <2>8, <2>9, <2>10, <2>11,
         <2>12, <2>13 DEF RunStep
  <1>. QED
    BY <1>1, <1>2, <1>3

\* Steps of workers and of the shutdown leave every Run where it is, and only
\* end workers.
LEMMA OtherStepInv ==
    ASSUME LeaseInv, PoolTypeOK', phase' = phase, slots' = slots,
           \A q \in Requests : worker'[q] = "live" => worker[q] = "live"
    PROVE  LeaseInv'
  <1>1. Leased' = Leased
    BY DEF Leased
  <1>. QED
    BY <1>1 DEF LeaseInv, LeaseAccounting, WorkerIsSupervised

LEMMA NextLeaseInv == LeaseInv /\ [PoolNext]_poolVars => LeaseInv'
  <1>. SUFFICES ASSUME LeaseInv, [PoolNext]_poolVars  PROVE LeaseInv'
    OBVIOUS
  <1>. USE DEF LeaseInv
  <1>1. CASE UNCHANGED poolVars
    BY <1>1 DEF poolVars, LeaseInv, PoolTypeOK, LeaseAccounting, Leased,
                WorkerIsSupervised
  <1>2. ASSUME NEW r \in Requests, Acquire(r) \/ RunStep(r)  PROVE LeaseInv'
    BY <1>2, RunStepInv
  <1>3. ASSUME NEW r \in Requests, KillOnCancel(r) \/ WorkerExit(r)
        PROVE  LeaseInv'
    <2>1. PoolTypeOK'
      BY <1>3 DEF KillOnCancel, WorkerExit, Becomes, PoolTypeOK, Workers, Ended,
                  drainVars
    <2>2. \A q \in Requests : worker'[q] = "live" => worker[q] = "live"
      BY <1>3 DEF KillOnCancel, WorkerExit, Becomes, PoolTypeOK, Ended
    <2>. QED
      BY <1>3, <2>1, <2>2, OtherStepInv DEF KillOnCancel, WorkerExit
  <1>4. CASE Cancel
    BY <1>4, OtherStepInv DEF Cancel, PoolTypeOK
  <1>5. ASSUME NEW r \in Requests, KillStraggler(r)  PROVE LeaseInv'
    <2>1. PoolTypeOK'
      BY <1>5 DEF KillStraggler, PoolTypeOK, Workers, Ended
    <2>2. \A q \in Requests : worker'[q] = "live" => worker[q] = "live"
      BY <1>5 DEF KillStraggler, PoolTypeOK
    <2>. QED
      BY <1>5, <2>1, <2>2, OtherStepInv DEF KillStraggler
  <1>6. CASE MarkDraining \/ CloseDrained \/ EndGrace \/ EndKill
    BY <1>6, OtherStepInv
       DEF MarkDraining, CloseDrained, EndGrace, EndKill, PoolTypeOK
  <1>7. CASE Exit
    BY <1>7, OtherStepInv DEF Exit, PoolTypeOK
  <1>. QED
    BY <1>1, <1>2, <1>3, <1>4, <1>5, <1>6, <1>7 DEF PoolNext, DaemonStep, DrainStep

LEMMA InitLeaseInv == PoolInit => LeaseInv
  <1>. SUFFICES ASSUME PoolInit  PROVE LeaseInv
    OBVIOUS
  <1>1. Leased = {}
    BY DEF PoolInit, Leased, Holding, Working
  <1>2. LeaseAccounting /\ slots <= Size
    BY <1>1, FS_EmptySet, SizeAssumption DEF PoolInit, LeaseAccounting
  <1>3. PoolTypeOK
    <2>1. 0 \in 0 .. MaxAttempts
      BY AttemptsAssumption
    <2>. QED
      BY <2>1 DEF PoolInit, PoolTypeOK, Phases, Workers, Results
  <1>. QED
    BY <1>2, <1>3 DEF LeaseInv, WorkerIsSupervised, PoolInit

\* The inductive invariant: what the channel of slots holds, and which Run keeps
\* an eye on which worker (pool.go, Run and runOnce).
THEOREM LeaseInvariant == PoolSpec => []LeaseInv
  <1>. QED
    BY InitLeaseInv, NextLeaseInv, PTL DEF PoolSpec

-----------------------------------------------------------------------------
(* What follows.                                                             *)

\* The channel of slots holds exactly one token per Run between its lease and
\* its return (pool.go, Run and its deferred release), on every path.
THEOREM LeasesExact == PoolSpec => []LeaseAccounting
  <1>1. LeaseInv => LeaseAccounting
    BY DEF LeaseInv
  <1>. QED
    BY <1>1, LeaseInvariant, PTL

\* Run never goes on, nor returns, while the worker it launched is alive.
THEOREM WorkersSupervised == PoolSpec => []WorkerIsSupervised
  <1>1. LeaseInv => WorkerIsSupervised
    BY DEF LeaseInv
  <1>. QED
    BY <1>1, LeaseInvariant, PTL

\* The pool never has more live workers than PoolOptions.Size.
THEOREM WorkersBounded == PoolSpec => []WorkerBound
  <1>1. LeaseInv => WorkerBound
    <2>. SUFFICES ASSUME LeaseInv  PROVE WorkerBound
      OBVIOUS
    <2>. DEFINE Living == {r \in Requests : worker[r] = "live"}
    <2>1. Living \in SUBSET Leased
      BY DEF LeaseInv, WorkerIsSupervised, Leased, Holding, Working
    <2>2. Cardinality(Living) <= Cardinality(Leased)
      BY <2>1, LeasedFinite, FS_Subset
    <2>3. Cardinality(Living) \in Nat
      BY <2>1, LeasedFinite, FS_Subset, FS_CardinalityType
    <2>. QED
      BY <2>2, <2>3, LeasedFinite, SizeAssumption
         DEF LeaseInv, LeaseAccounting, WorkerBound
  <1>. QED
    BY <1>1, LeaseInvariant, PTL

-----------------------------------------------------------------------------
(* Verdicts are final, and nothing new comes once the pool drains.           *)

\* A Run that knows how its worker ended well, or for good, is on its way out.
VerdictInv ==
    \A r \in Requests :
        worker[r] \in {"ok", "permanent"}
            => phase[r] \in {"started", "pump", "waited", "judge", "leave", "back"}

\* The context is cancelled before the pool is drained.
DrainInv == drain # "idle" \/ draining => cancelled

LEMMA NextVerdictInv ==
    ASSUME LeaseInv, VerdictInv, [PoolNext]_poolVars
    PROVE  /\ VerdictInv'
           /\ \A r \in Requests :
                 worker[r] \in {"ok", "permanent"}
                   /\ phase[r] \notin {"started", "pump"}
                     => worker'[r] = worker[r]
  <1>. USE DEF LeaseInv, PoolTypeOK, VerdictInv, Goto, Becomes, Return
  <1>1. CASE UNCHANGED poolVars
    BY <1>1 DEF poolVars
  <1>2. ASSUME NEW r \in Requests, Acquire(r) \/ RunStep(r)
        PROVE  /\ VerdictInv'
               /\ \A q \in Requests :
                     worker[q] \in {"ok", "permanent"}
                       /\ phase[q] \notin {"started", "pump"}
                         => worker'[q] = worker[q]
    <2>1. \A q \in Requests \ {r} : worker'[q] = worker[q] /\ phase'[q] = phase[q]
      BY <1>2 DEF RunStep, Acquire, Lease, Refuse, CheckDraining, Launch, StartProcess, Track,
                  PumpAndWait, Untrack, Judge, Wake, SleepCancelled, Release
    <2>2. worker[r] \in {"ok", "permanent"} /\ phase[r] \notin {"started", "pump"}
              => worker'[r] = worker[r]
      BY <1>2 DEF RunStep, Acquire, Lease, Refuse, CheckDraining, Launch, StartProcess, Track,
                  PumpAndWait, Untrack, Judge, Wake, SleepCancelled, Release
    <2>3. worker'[r] \in {"ok", "permanent"}
              => phase'[r] \in {"started", "pump", "waited", "judge", "leave",
                                "back"}
      <3>1. CASE Acquire(r) \/ Lease(r) \/ Refuse(r) \/ CheckDraining(r)
        BY <3>1 DEF Acquire, Lease, Refuse, CheckDraining
      <3>2. CASE Launch(r) \/ StartProcess(r) \/ Track(r) \/ PumpAndWait(r)
                 \/ Untrack(r)
        BY <3>2 DEF Launch, StartProcess, Track, PumpAndWait, Untrack
      <3>3. CASE Judge(r)
        BY <3>3 DEF Judge
      <3>4. CASE Wake(r) \/ SleepCancelled(r) \/ Release(r)
        BY <3>4 DEF Wake, SleepCancelled, Release
      <3>. QED
        BY <1>2, <3>1, <3>2, <3>3, <3>4 DEF RunStep
    <2>. QED
      BY <2>1, <2>2, <2>3
  <1>3. ASSUME NEW r \in Requests,
               KillOnCancel(r) \/ WorkerExit(r) \/ KillStraggler(r)
        PROVE  /\ VerdictInv'
               /\ \A q \in Requests :
                     worker[q] \in {"ok", "permanent"} => worker'[q] = worker[q]
    BY <1>3 DEF KillOnCancel, WorkerExit, KillStraggler, WorkerIsSupervised,
                Ended
  <1>4. CASE Cancel \/ MarkDraining \/ CloseDrained \/ EndGrace \/ EndKill \/ Exit
    BY <1>4 DEF Cancel, MarkDraining, CloseDrained, EndGrace, EndKill, Exit
  <1>. QED
    BY <1>1, <1>2, <1>3, <1>4 DEF PoolNext, DaemonStep, DrainStep

LEMMA NextDrainInv ==
    ASSUME LeaseInv, DrainInv, [PoolNext]_poolVars
    PROVE  DrainInv' /\ (draining => Underway' \subseteq Underway)
  <1>. USE DEF LeaseInv, PoolTypeOK, DrainInv, Underway, Goto, Becomes, Return,
               drainVars
  <1>1. CASE UNCHANGED poolVars
    BY <1>1 DEF poolVars
  <1>2. ASSUME NEW r \in Requests, Acquire(r) \/ RunStep(r)
        PROVE  /\ drain' = drain /\ draining' = draining /\ cancelled' = cancelled
               /\ cancelled => Underway' \subseteq Underway
    BY <1>2 DEF RunStep, Acquire, Lease, Refuse, CheckDraining, Launch, StartProcess,
                Track, PumpAndWait, Untrack, Judge, Wake, SleepCancelled, Release
  <1>3. ASSUME NEW r \in Requests,
               KillOnCancel(r) \/ WorkerExit(r) \/ KillStraggler(r)
        PROVE  /\ drain' = drain /\ draining' = draining /\ cancelled' = cancelled
               /\ Underway' \subseteq Underway
    BY <1>3 DEF KillOnCancel, WorkerExit, KillStraggler, Ended
  <1>4. CASE Cancel \/ MarkDraining \/ CloseDrained \/ EndGrace \/ EndKill \/ Exit
    BY <1>4 DEF Cancel, MarkDraining, CloseDrained, EndGrace, EndKill, Exit
  <1>. QED
    BY <1>1, <1>2, <1>3, <1>4 DEF PoolNext, DaemonStep, DrainStep

\* What a worker has finished, or refused for good, is never done again: once
\* Run knows the verdict it launches nothing more (pool.go, the attempt loop).
THEOREM VerdictsFinal == PoolSpec => NoRetryAfterVerdict
  <1>1. PoolInit => VerdictInv
    BY DEF PoolInit, VerdictInv
  <1>2. LeaseInv /\ VerdictInv /\ [PoolNext]_poolVars => VerdictInv'
    BY NextVerdictInv
  <1>3. LeaseInv /\ VerdictInv /\ [PoolNext]_poolVars
            => [\A r \in Requests :
                  worker[r] \in {"ok", "permanent"}
                    /\ phase[r] \notin {"started", "pump"}
                      => worker'[r] = worker[r]]_poolVars
    BY NextVerdictInv
  <1>. QED
    BY <1>1, <1>2, <1>3, LeaseInvariant, PTL DEF PoolSpec, NoRetryAfterVerdict

\* From the moment the pool drains, the workers that are alive or being started
\* only get fewer, though Runs may be anywhere between the draining check and the
\* start: Server.Shutdown cancels the contexts before it drains.
THEOREM NothingNew == PoolSpec => NothingNewInDrain
  <1>1. PoolInit => DrainInv
    BY DEF PoolInit, DrainInv
  <1>2. LeaseInv /\ DrainInv /\ [PoolNext]_poolVars => DrainInv'
    BY NextDrainInv
  <1>3. LeaseInv /\ DrainInv /\ [PoolNext]_poolVars
            => [draining => Underway' \subseteq Underway]_poolVars
    BY NextDrainInv
  <1>. QED
    BY <1>1, <1>2, <1>3, LeaseInvariant, PTL DEF PoolSpec, NothingNewInDrain

\* A launch is begun only for work without a verdict and in a pool that does not
\* drain: nothing the loop remembers from before can make it do so.
THEOREM LaunchesAllowed == PoolSpec => LaunchesHeed
  BY VerdictsFinal, NothingNew DEF LaunchesHeed
-----------------------------------------------------------------------------
(* Results are honest.                                                       *)

\* A Run has its result when it leaves, and goes nowhere but back from there;
\* the pool is closed to it only once the contexts were cancelled.
ResultInv ==
    /\ HonestResult
    /\ \A r \in Requests : result[r] # "none" => phase[r] \in {"leave", "back"}
    /\ draining => cancelled

LEMMA RunStepResult ==
    ASSUME LeaseInv, DrainInv, ResultInv, NEW r \in Requests, Acquire(r) \/ RunStep(r)
    PROVE  ResultInv'
  <1>. USE DEF LeaseInv, PoolTypeOK, Goto, Becomes, Return, drainVars
  <1>1. \A q \in Requests \ {r} :
            /\ worker'[q] = worker[q] /\ phase'[q] = phase[q]
            /\ result'[q] = result[q] /\ attempt'[q] = attempt[q]
    BY DEF RunStep, Acquire, Lease, Refuse, CheckDraining, Launch, StartProcess, Track,
           PumpAndWait, Untrack, Judge, Wake, SleepCancelled, Release
  <1>2. draining' = draining /\ cancelled' = cancelled
    BY DEF RunStep, Acquire, Lease, Refuse, CheckDraining, Launch, StartProcess, Track,
           PumpAndWait, Untrack, Judge, Wake, SleepCancelled, Release
  <1>3. /\ result'[r] # "none" => phase'[r] \in {"leave", "back"}
        /\ result'[r] = "ok" => worker'[r] = "ok"
        /\ result'[r] = "permanent" => worker'[r] = "permanent" \/ attempt'[r] = MaxAttempts
        /\ result'[r] \in {"draining", "cancelled"} => cancelled
    <2>1. CASE Acquire(r) \/ Lease(r) \/ CheckDraining(r) \/ Launch(r)
               \/ StartProcess(r) \/ Track(r) \/ PumpAndWait(r) \/ Untrack(r)
      BY <2>1 DEF Acquire, Lease, CheckDraining, Launch, StartProcess, Track,
                  PumpAndWait, Untrack, ResultInv, HonestResult, LastAttempt
    <2>2. CASE Refuse(r)
      BY <2>2 DEF Refuse, ResultInv, HonestResult, DrainInv
    <2>3. CASE Judge(r)
      BY <2>3 DEF Judge, ResultInv, HonestResult, LastAttempt
    <2>4. CASE Wake(r) \/ SleepCancelled(r) \/ Release(r)
      BY <2>4 DEF Wake, SleepCancelled, Release, ResultInv, HonestResult, LastAttempt
    <2>. QED
      BY <2>1, <2>2, <2>3, <2>4 DEF RunStep
  <1>. QED
    BY <1>1, <1>2, <1>3 DEF ResultInv, HonestResult, LastAttempt

\* What happens to workers, and what a shutdown does, leaves the Runs that have
\* a result alone: their workers have ended.
LEMMA OtherStepResult ==
    ASSUME LeaseInv, DrainInv, ResultInv,
           UNCHANGED <<phase, result, attempt>>,
           cancelled => cancelled', draining' => draining \/ cancelled,
           \A q \in Requests : worker[q] # "live" => worker'[q] = worker[q]
    PROVE  ResultInv'
  <1>1. \A q \in Requests : result[q] # "none" => worker[q] # "live"
    BY DEF ResultInv, LeaseInv, WorkerIsSupervised
  <1>. QED
    BY <1>1 DEF ResultInv, HonestResult, LastAttempt

LEMMA NextResultInv == LeaseInv /\ DrainInv /\ ResultInv /\ [PoolNext]_poolVars => ResultInv'
  <1>. SUFFICES ASSUME LeaseInv, DrainInv, ResultInv, [PoolNext]_poolVars  PROVE ResultInv'
    OBVIOUS
  <1>. USE DEF LeaseInv, PoolTypeOK, Becomes, drainVars
  <1>1. ASSUME NEW r \in Requests, KillOnCancel(r) \/ WorkerExit(r) \/ KillStraggler(r)
        PROVE  ResultInv'
    BY <1>1, OtherStepResult DEF KillOnCancel, WorkerExit, KillStraggler
  <1>2. CASE Cancel \/ MarkDraining \/ CloseDrained \/ EndGrace \/ EndKill \/ Exit
    BY <1>2, OtherStepResult
       DEF Cancel, MarkDraining, CloseDrained, EndGrace, EndKill, Exit
  <1>3. CASE UNCHANGED poolVars
    BY <1>3, OtherStepResult DEF poolVars
  <1>. QED
    BY <1>1, <1>2, <1>3, RunStepResult DEF PoolNext, DaemonStep, DrainStep

\* What Run returns is what happened to its worker, through retries, crashes,
\* read errors, cancellation and drain (pool.go, the returns of Run).
THEOREM ResultsHonest == PoolSpec => []HonestResult
  <1>1. PoolInit => DrainInv /\ ResultInv
    BY DEF PoolInit, DrainInv, ResultInv, HonestResult
  <1>2. LeaseInv /\ DrainInv /\ [PoolNext]_poolVars => DrainInv'
    BY NextDrainInv
  <1>3. ResultInv => HonestResult
    BY DEF ResultInv
  <1>. QED
    BY <1>1, <1>2, <1>3, NextResultInv, LeaseInvariant, PTL DEF PoolSpec

-----------------------------------------------------------------------------
(***************************************************************************)
(* SessionStream, for all clients, all capacities and all lengths.         *)
(* NoChannelPanic and HonestEnd follow from how a subscription and its     *)
(* channel belong together (StreamInv).  StreamContiguous needs what each  *)
(* handler still has to write, the rest of its replay and the content of its*)
(* channel, to lead from where its client is to the last line of the       *)
(* session, or to the lines dropped on it (SeamInv).                       *)
(***************************************************************************)

(* Sequences of items that follow one another.                               *)

\* Whether an item can come where line p is expected.
Fits(p, item) == item.gap \/ item.n = p

\* at says before which line the client is, up to each item of s.
Path(p, s, q, at) ==
    /\ at \in [0 .. Len(s) -> 1 .. q] /\ at[0] = p /\ at[Len(s)] = q
    /\ \A i \in 1 .. Len(s) : Fits(at[i - 1], s[i]) /\ at[i] = After(at[i - 1], s[i])

\* s leads from line p to line q without a hole or a repetition.
Leads(p, s, q) == \E at : Path(p, s, q, at)

\* The function in Position is the path, if there is one.
LEMMA PositionIs ==
    ASSUME NEW T, NEW s \in Seq(T), NEW p \in Nat, NEW q \in Nat, Leads(p, s, q)
    PROVE  Position(p, s) = q
  <1>1. PICK at : Path(p, s, q, at)
    BY DEF Leads
  <1> DEFINE next(a, i) == IF a[i - 1] > 0 /\ Fits(a[i - 1], s[i]) THEN After(a[i - 1], s[i]) ELSE 0
             step(a) == [i \in 0 .. Len(s) |-> IF i = 0 THEN p ELSE next(a, i)]
             f == CHOOSE a : a = step(a)
  <1>2. Len(s) \in Nat
    OBVIOUS
  <1>9. /\ at \in [0 .. Len(s) -> 1 .. q] /\ at[0] = p /\ at[Len(s)] = q
        /\ \A i \in 1 .. Len(s) : Fits(at[i - 1], s[i]) /\ at[i] = After(at[i - 1], s[i])
    BY <1>1 DEF Path
  <1>10. ASSUME NEW i \in 1 .. Len(s)  PROVE at[i - 1] > 0
    <2>1. i - 1 \in 0 .. Len(s)
      BY <1>2
    <2>2. at[i - 1] \in 1 .. q
      BY <1>9, <2>1
    <2>. QED
      BY <2>2
  <1>3. at = step(at)
    <2>1. ASSUME NEW i \in 0 .. Len(s)  PROVE at[i] = IF i = 0 THEN p ELSE next(at, i)
      <3>1. CASE i = 0
        BY <1>9, <3>1
      <3>2. CASE i # 0
        <4>1. i \in 1 .. Len(s)
          BY <1>2, <3>2
        <4>. QED
          BY <1>9, <1>10, <3>2, <4>1
      <3>. QED
        BY <3>1, <3>2
    <2> HIDE DEF next
    <2>. QED
      BY <1>9, <2>1
  <1>4. f = step(f)
    BY <1>3, Zenon
  <1> HIDE DEF f
  <1>5. \A i \in 0 .. Len(s) : f[i] = IF i = 0 THEN p ELSE next(f, i)
    BY <1>4
  <1> DEFINE off == {i \in Nat : i <= Len(s) /\ f[i] # at[i]}
  <1>6. off = {}
    <2> SUFFICES ASSUME off # {}  PROVE FALSE
      OBVIOUS
    <2>1. \E i \in off : \A j \in off : <<j, i>> \notin OpToRel(<, Nat)
      BY WFMin, NatLessThanWellFounded, Zenon
    <2>2. PICK i \in off : \A j \in off : ~ (j < i)
      BY <2>1 DEF OpToRel
    <2>3. i # 0
      BY <1>2, <1>5, <1>9
    <2>4. i \in 1 .. Len(s) /\ i - 1 \in Nat /\ i - 1 \notin off
      BY <1>2, <2>2, <2>3
    <2>5. f[i - 1] = at[i - 1]
      BY <1>2, <2>4
    <2>6. at[i - 1] > 0 /\ Fits(at[i - 1], s[i]) /\ at[i] = After(at[i - 1], s[i])
      BY <1>9, <1>10, <2>4
    <2>7. f[i] = at[i]
      BY <1>2, <1>5, <2>4, <2>5, <2>6
    <2>. QED
      BY <2>7
  <1>7. f[Len(s)] = q
    BY <1>2, <1>6, <1>9
  <1>8. Position(p, s) = f[Len(s)]
    BY DEF Position, f, Fits
  <1>. QED
    BY <1>7, <1>8

LEMMA LeadsNowhere ==
    ASSUME NEW p \in Nat \ {0}, NEW s, s = <<>>
    PROVE  Leads(p, s, p)
  <1> DEFINE at == [i \in 0 .. 0 |-> p]
  <1>1. Len(s) = 0
    OBVIOUS
  <1>2. Path(p, s, p, at)
    BY <1>1 DEF Path
  <1>. QED
    BY <1>2, Zenon DEF Leads

LEMMA LeadsOn ==
    ASSUME NEW T, NEW s \in Seq(T), NEW e \in T, NEW p \in Nat, NEW q \in Nat,
           Leads(p, s, q), Fits(q, e), NEW r \in Nat, r = After(q, e), q <= r
    PROVE  Leads(p, Append(s, e), r)
  <1>1. PICK at : Path(p, s, q, at)
    BY DEF Leads
  <1>2. /\ at \in [0 .. Len(s) -> 1 .. q] /\ at[0] = p /\ at[Len(s)] = q
        /\ \A i \in 1 .. Len(s) : Fits(at[i - 1], s[i]) /\ at[i] = After(at[i - 1], s[i])
    BY <1>1 DEF Path
  <1> DEFINE n == Len(s)
             t == Append(s, e)
             on == [i \in 0 .. n + 1 |-> IF i = n + 1 THEN r ELSE at[i]]
  <1>3. /\ n \in Nat /\ Len(t) = n + 1 /\ t[n + 1] = e
        /\ \A i \in 1 .. n : t[i] = s[i]
    OBVIOUS
  <1> HIDE DEF t, n
  <1>4. at \in [0 .. n -> 1 .. q] /\ at[n] = q
    BY <1>2 DEF n
  <1>5. q \in 1 .. q
    <2>1. n \in 0 .. n
      BY <1>3
    <2>. QED
      BY <1>4, <2>1
  <1>6. on \in [0 .. n + 1 -> 1 .. r]
    <2> SUFFICES ASSUME NEW i \in 0 .. n + 1, i # n + 1  PROVE at[i] \in 1 .. r
      BY <1>5
    <2>1. i \in 0 .. n
      BY <1>3
    <2>2. at[i] \in 1 .. q
      BY <1>4, <2>1
    <2>. QED
      BY <2>2
  <1>7. on[0] = p /\ on[n + 1] = r
    BY <1>2, <1>3
  <1>8. ASSUME NEW i \in 1 .. n + 1
        PROVE  Fits(on[i - 1], t[i]) /\ on[i] = After(on[i - 1], t[i])
    <2>1. on[i - 1] = at[i - 1]
      BY <1>3
    <2>2. CASE i = n + 1
      BY <1>3, <1>4, <2>1, <2>2
    <2>3. CASE i # n + 1
      <3>1. i \in 1 .. Len(s) /\ on[i] = at[i]
        BY <1>3, <2>3 DEF n
      <3>2. t[i] = s[i]
        BY <1>3, <3>1 DEF n
      <3>. QED
        BY <1>2, <2>1, <3>1, <3>2
    <2>. QED
      BY <2>2, <2>3
  <1> HIDE DEF on
  <1>9. Path(p, t, r, on)
    BY <1>3, <1>6, <1>7, <1>8 DEF Path
  <1>. QED
    BY <1>9, Zenon DEF Leads, t

\* Once the first item has been sent the rest leads on from what it leads to.
LEMMA LeadsAfter ==
    ASSUME NEW T, NEW s \in Seq(T), s # <<>>, NEW p \in Nat, NEW q \in Nat, Leads(p, s, q)
    PROVE  /\ Leads(After(p, Head(s)), Tail(s), q)
           /\ After(p, Head(s)) \in 1 .. q
  <1>1. PICK at : Path(p, s, q, at)
    BY DEF Leads
  <1>2. /\ at \in [0 .. Len(s) -> 1 .. q] /\ at[0] = p /\ at[Len(s)] = q
        /\ \A i \in 1 .. Len(s) : Fits(at[i - 1], s[i]) /\ at[i] = After(at[i - 1], s[i])
    BY <1>1 DEF Path
  <1> DEFINE n == Len(s) - 1
             t == Tail(s)
             rest == [i \in 0 .. n |-> at[i + 1]]
  <1>3. /\ n \in Nat /\ Len(s) = n + 1 /\ Len(t) = n /\ Head(s) = s[1]
        /\ \A i \in 1 .. n : t[i] = s[i + 1]
    OBVIOUS
  <1> HIDE DEF t, n
  <1>4. at \in [0 .. n + 1 -> 1 .. q] /\ at[n + 1] = q
    BY <1>2, <1>3
  <1>5. \A i \in 0 .. n : i + 1 \in 0 .. n + 1
    BY <1>3
  <1>6. rest \in [0 .. n -> 1 .. q]
    BY <1>4, <1>5
  <1>7. 1 \in 1 .. Len(s) /\ 0 \in 0 .. n /\ n \in 0 .. n
    BY <1>3
  <1>8. at[1] = After(p, Head(s))
    BY <1>2, <1>3, <1>7
  <1>9. rest[0] = After(p, Head(s)) /\ rest[n] = q
    BY <1>4, <1>7, <1>8
  <1>10. ASSUME NEW i \in 1 .. n
         PROVE  Fits(rest[i - 1], t[i]) /\ rest[i] = After(rest[i - 1], t[i])
    <2>1. rest[i - 1] = at[i] /\ rest[i] = at[i + 1]
      BY <1>3
    <2>2. i + 1 \in 1 .. Len(s) /\ (i + 1) - 1 = i
      BY <1>3
    <2>3. Fits(at[(i + 1) - 1], s[i + 1]) /\ at[i + 1] = After(at[(i + 1) - 1], s[i + 1])
      BY <1>2, <2>2
    <2>. QED
      BY <1>3, <2>1, <2>2, <2>3
  <1>11. After(p, Head(s)) \in 1 .. q
    BY <1>6, <1>7, <1>9
  <1> HIDE DEF rest
  <1>12. Path(After(p, Head(s)), t, q, rest)
    BY <1>3, <1>6, <1>9, <1>10 DEF Path
  <1>. QED
    BY <1>11, <1>12, Zenon DEF Leads, t

\* Lines that follow one another, from the first on.
LEMMA LeadsLines ==
    ASSUME NEW n \in Nat, NEW m \in Nat, NEW s, Len(s) = n,
           \A i \in 1 .. n : s[i] = LineItem(m + i)
    PROVE  Leads(m + 1, s, m + n + 1)
  <1> DEFINE at == [i \in 0 .. n |-> m + i + 1]
  <1>1. at \in [0 .. n -> 1 .. m + n + 1] /\ at[0] = m + 1 /\ at[n] = m + n + 1
    OBVIOUS
  <1>2. ASSUME NEW i \in 1 .. n
        PROVE  Fits(at[i - 1], s[i]) /\ at[i] = After(at[i - 1], s[i])
    <2>1. s[i].n = m + i /\ ~ s[i].gap
      BY DEF LineItem
    <2>2. at[i - 1] = m + i /\ at[i] = m + i + 1
      OBVIOUS
    <2> HIDE DEF at
    <2>. QED
      BY <2>1, <2>2 DEF Fits, After
  <1> HIDE DEF at
  <1>3. Path(m + 1, s, m + n + 1, at)
    BY <1>1, <1>2 DEF Path
  <1>. QED
    BY <1>3, Zenon DEF Leads
Shapes ==
    /\ state \in {"queued", "running", "done", "failed"}
    /\ subs \in SUBSET Clients /\ closing \in SUBSET Clients
    /\ closes \in [Clients -> Nat]
    /\ client \in [Clients -> HandlerPlaces]
    /\ held \in [Clients -> {"unknown", "own", "none", "other"}]
    /\ end \in [Clients -> {"none", "end", "error", "lost"}]

Ownership ==
    /\ \A c \in Clients :
          /\ c \in subs \cup closing => closes[c] = 0
          /\ closes[c] <= 1
          /\ client[c] = "away" => closes[c] = 0 /\ c \notin subs \cup closing
          /\ client[c] \in Attached /\ closes[c] > 0 => Finished
          /\ client[c] \in Attached \cup {"away"} => end[c] = "none"
    /\ Finished => subs = {}
    /\ ~ Finished => closing = {}

StreamInv == Shapes /\ Ownership /\ HonestEnd

LEMMA InitStreamInv == StreamInit => StreamInv
BY DEF StreamInit, StreamInv, Shapes, Ownership, HonestEnd, Finished, HandlerPlaces, Attached

\* A step of a handler, or of a write, that says nothing of the outcome.
LEMMA HandlerMoves ==
    ASSUME StreamInv, NEW c \in Clients, client[c] # "away",
           NEW p \in HandlerPlaces \ {"away"}, p \in Attached => client[c] \in Attached,
           client' = [client EXCEPT ![c] = p],
           UNCHANGED <<state, subs, closing, closes, held, down>>,
           \/ end' = end
           \/ p \notin Attached /\ end' = [end EXCEPT ![c] = "lost"]
    PROVE  StreamInv'
  <1>1. Shapes'
    BY DEF StreamInv, Shapes
  <1>2. Ownership'
    BY DEF StreamInv, Shapes, Ownership, Finished
  <1>3. HonestEnd'
    BY DEF StreamInv, Shapes, HonestEnd, Finished
  <1>. QED
    BY <1>1, <1>2, <1>3 DEF StreamInv

\* The last frame agrees with what the handler knows.
LEMMA HandlerEnds ==
    ASSUME StreamInv, NEW c \in Clients, NEW f \in {"end", "error"}, EndStream(c, f),
           f = "end" => Finished \/ down,
           held[c] = "own" => /\ f = "error" => state = "failed"
                              /\ f = "end" => state # "failed" \/ down
    PROVE  StreamInv'
  <1>1. /\ client' = [client EXCEPT ![c] = "ending"] /\ end' = [end EXCEPT ![c] = f]
        /\ UNCHANGED <<state, subs, closing, closes, held, down>>
    BY DEF EndStream, sessionVars, serverVars
  <1>2. Shapes'
    BY <1>1 DEF StreamInv, Shapes, HandlerPlaces
  <1>3. client[c] # "away" /\ "ending" \notin Attached \cup {"away"}
    BY DEF EndStream, Attached
  <1>4. Ownership'
    BY <1>1, <1>3 DEF StreamInv, Shapes, Ownership, Finished
  <1>5. HonestEnd'
    BY <1>1 DEF StreamInv, Shapes, HonestEnd, Finished
  <1>. QED
    BY <1>2, <1>4, <1>5 DEF StreamInv

LEMMA ServeInv ==
    ASSUME StreamInv, NEW c \in Clients, Serve(c) \/ WriteReturns(c)
    PROVE  StreamInv'
  <1>. USE DEF sessionVars, serverVars
  <1>1. CASE LookUp(c)
    <2>1. PICK h \in {"own", "none", "other"} : held' = [held EXCEPT ![c] = h]
      BY <1>1 DEF LookUp
    <2>2. /\ client' = [client EXCEPT ![c] = "ack"] /\ client[c] = "attached"
          /\ UNCHANGED <<state, subs, closing, closes, end, down>>
      BY <1>1 DEF LookUp
    <2>3. Shapes'
      BY <2>1, <2>2 DEF StreamInv, Shapes, HandlerPlaces, Attached
    <2>4. end[c] = "none"
      BY <2>2 DEF StreamInv, Ownership, Attached
    <2>5. "ack" \in Attached /\ "attached" \in Attached
      BY DEF Attached
    <2>6. Ownership'
      BY <2>2, <2>4, <2>5 DEF StreamInv, Shapes, Ownership, Finished
    <2>7. HonestEnd'
      BY <2>1, <2>2, <2>4 DEF StreamInv, Shapes, HonestEnd, Finished
    <2>. QED
      BY <2>3, <2>6, <2>7 DEF StreamInv
  <1>2. CASE Replay(c) \/ Receive(c)
    <2>1. /\ client' = [client EXCEPT ![c] = "writing"] /\ client[c] = "streaming"
          /\ UNCHANGED <<state, subs, closing, closes, held, end, down>>
      BY <1>2 DEF Replay, Receive, Write
    <2>. QED
      BY <2>1, HandlerMoves DEF HandlerPlaces, Attached
  <1>3. CASE Written(c)
    <2>1. PICK p \in {"streaming", "cancel"} :
             /\ client' = [client EXCEPT ![c] = p]
             /\ p = "streaming" => client[c] \in {"ack", "writing"}
             /\ client[c] # "away"
      BY <1>3 DEF Written
    <2>2. UNCHANGED <<state, subs, closing, closes, held, end, down>>
      BY <1>3 DEF Written
    <2>. QED
      BY <2>1, <2>2, HandlerMoves DEF HandlerPlaces, Attached
  <1>4. CASE WriteFails(c)
    <2>1. UNCHANGED <<state, subs, closing, closes, held, down>>
      BY <1>4 DEF WriteFails
    <2>2. \/ /\ client' = [client EXCEPT ![c] = "streaming"] /\ client[c] = "ack"
             /\ end' = end
          \/ /\ client' = [client EXCEPT ![c] = "cancel"]
             /\ client[c] \in {"writing", "ending"}
             /\ end' = [end EXCEPT ![c] = "lost"]
      BY <1>4 DEF WriteFails
    <2>. QED
      BY <2>1, <2>2, HandlerMoves DEF HandlerPlaces, Attached
  <1>5. CASE SeeClosed(c)
    <2>1. PICK f \in LastFrames(c) : EndStream(c, f)
      BY <1>5 DEF SeeClosed
    <2>2. client[c] \in Attached
      BY <2>1 DEF EndStream, Attached
    <2>3. Finished
      BY <1>5, <2>2 DEF SeeClosed, StreamInv, Ownership
    <2>4. /\ f \in {"end", "error"}
          /\ held[c] = "own" => /\ f = "error" => state = "failed"
                                /\ f = "end" => state # "failed"
      <3>1. held[c] = "own" => f = IF state = "failed" THEN "error" ELSE "end"
        BY DEF LastFrames
      <3>2. held[c] # "own" => f \in {"end", "error"}
        BY DEF LastFrames
      <3>. QED
        BY <3>1, <3>2
    <2>. QED
      BY <2>1, <2>3, <2>4, HandlerEnds
  <1>6. CASE SeeShutdown(c)
    <2>1. down /\ EndStream(c, "end")
      BY <1>6 DEF SeeShutdown
    <2>. QED
      BY <2>1, HandlerEnds
  <1>7. CASE Unsubscribe(c)
    <2>1. Shapes'
      BY <1>7 DEF Unsubscribe, StreamInv, Shapes, HandlerPlaces
    <2>2. "left" \notin Attached \cup {"away"} /\ "cancel" # "away"
      BY DEF Attached
    <2>3. Ownership'
      BY <1>7, <2>2 DEF Unsubscribe, StreamInv, Shapes, Ownership, Finished
    <2>4. HonestEnd'
      BY <1>7 DEF Unsubscribe, StreamInv, HonestEnd, Finished
    <2>. QED
      BY <2>1, <2>3, <2>4 DEF StreamInv
  <1>. QED
    BY <1>1, <1>2, <1>3, <1>4, <1>5, <1>6, <1>7 DEF Serve, WriteReturns

LEMMA NextStreamInv == StreamInv /\ [StreamNext]_streamVars => StreamInv'
  <1>. SUFFICES ASSUME StreamInv, [StreamNext]_streamVars  PROVE StreamInv'
    OBVIOUS
  <1>. USE DEF sessionVars, clientVars, serverVars
  <1>1. CASE UNCHANGED streamVars
    BY <1>1 DEF streamVars, StreamInv, Shapes, Ownership, HonestEnd, Finished
  <1>2. CASE Started
    BY <1>2 DEF Started, StreamInv, Shapes, Ownership, HonestEnd, Finished
  <1>3. CASE Line
    BY <1>3 DEF Line, StreamInv, Shapes, Ownership, HonestEnd, Finished
  <1>4. CASE Finish
    <2>1. Shapes'
      BY <1>4 DEF Finish, StreamInv, Shapes
    <2>2. Ownership'
      BY <1>4 DEF Finish, StreamInv, Shapes, Ownership, Finished
    <2>3. \A c \in Clients : held[c] = "own" /\ ~ down => end[c] \notin {"end", "error"}
      BY <1>4 DEF Finish, StreamInv, Shapes, HonestEnd, Finished
    <2>4. HonestEnd'
      BY <1>4, <2>3 DEF Finish, StreamInv, Shapes, HonestEnd, Finished
    <2>. QED
      BY <2>1, <2>2, <2>4 DEF StreamInv
  <1>5. CASE ServerDown \/ HangUp
    <2>1. UNCHANGED <<sessionVars, closes, clientVars>>
      BY <1>5 DEF ServerDown, HangUp
    <2>4. down => down'
      BY <1>5, Zenon DEF ServerDown, HangUp
    <2>2. Shapes' /\ Ownership'
      BY <2>1 DEF StreamInv, Shapes, Ownership, Finished
    <2>3. HonestEnd'
      BY <2>1, <2>4 DEF StreamInv, HonestEnd, Finished
    <2>. QED
      BY <2>2, <2>3 DEF StreamInv
  <1>6. ASSUME NEW c \in Clients, CloseOne(c)  PROVE StreamInv'
    <2>1. Finished
      BY <1>6 DEF CloseOne, StreamInv, Ownership
    <2>2. Shapes'
      BY <1>6 DEF CloseOne, StreamInv, Shapes
    <2>3. Ownership'
      BY <1>6, <2>1 DEF CloseOne, StreamInv, Shapes, Ownership, Finished
    <2>4. HonestEnd'
      BY <1>6 DEF CloseOne, StreamInv, HonestEnd, Finished
    <2>. QED
      BY <2>2, <2>3, <2>4 DEF StreamInv
  <1>7. ASSUME NEW c \in Clients, Subscribe(c)  PROVE StreamInv'
    <2>1. PICK p \in {"streaming", "attached"} : client' = [client EXCEPT ![c] = p]
      BY <1>7 DEF Subscribe
    <2>2. /\ client[c] = "away"
          /\ held' = held \/ held' = [held EXCEPT ![c] = "own"]
          /\ IF Finished THEN closes' = [closes EXCEPT ![c] = 1] /\ subs' = subs
                         ELSE subs' = subs \cup {c} /\ closes' = closes
          /\ UNCHANGED <<state, closing, end, down>>
      BY <1>7 DEF Subscribe
    <2>3. p \in Attached /\ p # "away" /\ end[c] = "none"
      BY <2>2 DEF StreamInv, Ownership, Attached
    <2>4. Shapes'
      BY <2>1, <2>2 DEF StreamInv, Shapes, HandlerPlaces, Attached
    <2>5. Ownership'
      BY <2>1, <2>2, <2>3 DEF StreamInv, Shapes, Ownership, Finished
    <2>6. HonestEnd'
      BY <2>2, <2>3 DEF StreamInv, Shapes, HonestEnd, Finished
    <2>. QED
      BY <2>4, <2>5, <2>6 DEF StreamInv
  <1>. QED
    BY <1>1, <1>2, <1>3, <1>4, <1>5, <1>6, <1>7, ServeInv DEF StreamNext

LEMMA StreamInvariant == StreamSpec => []StreamInv
BY InitStreamInv, NextStreamInv, PTL DEF StreamSpec

\* session.go, Line, finish and cancel: no channel is closed twice, and none
\* that Line may send on is closed.
THEOREM NoPanic == StreamSpec => []NoChannelPanic
  <1>1. StreamInv => NoChannelPanic
    BY DEF StreamInv, Ownership, NoChannelPanic
  <1>. QED
    BY <1>1, StreamInvariant, PTL

\* server.go, streamToClient and finishStream: no stream ends cleanly while its
\* session goes on and the server is up, and a handler that has the session
\* reports an error for a failed one only, and for each unless the server is down.
THEOREM EndsHonest == StreamSpec => []HonestEnd
  <1>1. StreamInv => HonestEnd
    BY DEF StreamInv
  <1>. QED
    BY <1>1, StreamInvariant, PTL

-----------------------------------------------------------------------------
(* What waits for a client.                                                  *)

LineItems(h) == [i \in 1 .. Len(h) |-> LineItem(h[i])]

LEMMA ItemsAre ==
    /\ \A n \in 1 .. MaxLines : LineItem(n) \in Items /\ GapItem(n) \in Items
    /\ \A n : /\ LineItem(n).n = n /\ ~ LineItem(n).gap
              /\ GapItem(n).n = n /\ GapItem(n).gap
BY DEF LineItem, GapItem, Items

LEMMA LineItemsAre ==
    ASSUME NEW h \in Seq(1 .. MaxLines)
    PROVE  /\ LineItems(h) \in Seq(Items) /\ Len(LineItems(h)) = Len(h)
           /\ \A i \in 1 .. Len(h) : LineItems(h)[i] = LineItem(h[i])
  <1> DEFINE g == LineItems(h)
             n == Len(h)
  <1>1. n \in Nat /\ \A i \in 1 .. n : h[i] \in 1 .. MaxLines
    BY LenProperties, ElementOfSeq
  <1>2. \A i \in 1 .. n : LineItem(h[i]) \in Items
    BY <1>1, ItemsAre
  <1>3. g = [i \in 1 .. n |-> LineItem(h[i])]
    BY DEF LineItems
  <1>4. g \in [1 .. n -> Items]
    BY <1>2, <1>3
  <1>5. \A i \in 1 .. n : g[i] = LineItem(h[i])
    BY <1>3
  <1> HIDE DEF g
  <1>6. g \in Seq(Items) /\ Len(g) = n
    <2> HIDE DEF n
    <2>. QED
      BY <1>1, <1>4
  <1>. QED
    BY <1>5, <1>6 DEF g

LEMMA JoinIs ==
    ASSUME NEW T, NEW a \in Seq(T), NEW b \in Seq(T), NEW n \in Nat, Len(a) = n
    PROVE  /\ a \o b \in Seq(T) /\ Len(a \o b) = n + Len(b) /\ Len(b) \in Nat
           /\ \A i \in 1 .. n : (a \o b)[i] = a[i]
           /\ \A i \in 1 .. Len(b) : (a \o b)[n + i] = b[i]
OBVIOUS

\* The history goes before what is in the channel, line by line.
LEMMA ReplayedIs ==
    ASSUME NEW h \in Seq(1 .. MaxLines), h # <<>>, NEW s \in Seq(Items)
    PROVE  LET all == LineItems(h) \o s IN
           /\ all \in Seq(Items) /\ all # <<>>
           /\ Head(all) = LineItem(Head(h))
           /\ Tail(all) = LineItems(Tail(h)) \o s
  <1> DEFINE g == LineItems(h)
             t == LineItems(Tail(h))
             all == g \o s
             rest == t \o s
             k == Len(h) - 1
  <1>1. /\ k \in Nat /\ Len(h) = k + 1 /\ Tail(h) \in Seq(1 .. MaxLines)
        /\ Len(Tail(h)) = k /\ Head(h) = h[1]
        /\ \A i \in 1 .. k : Tail(h)[i] = h[i + 1]
    OBVIOUS
  <1>2. /\ g \in Seq(Items) /\ Len(g) = Len(h)
        /\ \A i \in 1 .. Len(h) : g[i] = LineItem(h[i])
    BY LineItemsAre
  <1>3. /\ t \in Seq(Items) /\ Len(t) = k
        /\ \A i \in 1 .. k : t[i] = LineItem(h[i + 1])
    <2> DEFINE u == Tail(h)
    <2>1. u \in Seq(1 .. MaxLines) /\ Len(u) = k /\ \A i \in 1 .. k : u[i] = h[i + 1]
      BY <1>1
    <2> HIDE DEF u, k
    <2>2. /\ LineItems(u) \in Seq(Items) /\ Len(LineItems(u)) = k
          /\ \A i \in 1 .. k : LineItems(u)[i] = LineItem(u[i])
      BY <2>1, LineItemsAre
    <2>. QED
      BY <2>1, <2>2 DEF u
  <1> HIDE DEF g, t, k
  <1>4. /\ all \in Seq(Items) /\ Len(all) = k + 1 + Len(s) /\ Len(s) \in Nat
        /\ \A i \in 1 .. k + 1 : all[i] = g[i]
        /\ \A i \in 1 .. Len(s) : all[k + 1 + i] = s[i]
    <2>1. k + 1 \in Nat /\ Len(g) = k + 1
      BY <1>1, <1>2
    <2>. QED
      BY <1>2, <2>1, JoinIs
  <1>5. /\ rest \in Seq(Items) /\ Len(rest) = k + Len(s)
        /\ \A i \in 1 .. k : rest[i] = t[i]
        /\ \A i \in 1 .. Len(s) : rest[k + i] = s[i]
    BY <1>1, <1>3, JoinIs
  <1> HIDE DEF all, rest
  <1>6. all # <<>> /\ Head(all) = LineItem(Head(h))
    <2>1. Len(all) # 0 /\ 1 \in 1 .. Len(all) /\ 1 \in 1 .. Len(h) /\ 1 \in 1 .. k + 1
      BY <1>1, <1>4
    <2>2. all[1] = LineItem(h[1])
      BY <1>2, <1>4, <2>1
    <2>. QED
      BY <1>1, <1>4, <2>1, <2>2
  <1>7. /\ Tail(all) \in Seq(Items) /\ Len(Tail(all)) = Len(rest)
        /\ \A i \in 1 .. Len(rest) : Tail(all)[i] = all[i + 1]
    BY <1>1, <1>4, <1>5, <1>6
  <1>8. ASSUME NEW i \in 1 .. Len(rest)  PROVE all[i + 1] = rest[i]
    <2>1. i \in Nat /\ 1 <= i /\ i <= k + Len(s)
      BY <1>5
    <2>2. CASE i <= k
      <3>1. i + 1 \in 1 .. k + 1 /\ i \in 1 .. k
        BY <1>1, <2>1, <2>2
      <3>2. all[i + 1] = g[i + 1] /\ rest[i] = t[i]
        BY <1>4, <1>5, <3>1
      <3>. QED
        BY <1>1, <1>2, <1>3, <3>1, <3>2
    <2>3. CASE ~ (i <= k)
      <3> DEFINE l == i - k
      <3>1. l \in 1 .. Len(s) /\ i = k + l /\ i + 1 = k + 1 + l
        BY <1>1, <1>4, <2>1, <2>3
      <3> HIDE DEF l
      <3>2. all[k + 1 + l] = s[l] /\ rest[k + l] = s[l]
        BY <1>4, <1>5, <3>1
      <3>. QED
        BY <3>1, <3>2, Zenon
    <2>. QED
      BY <2>2, <2>3
  <1>9. Tail(all) = rest
    BY <1>5, <1>7, <1>8, SeqEqual
  <1>. QED
    BY <1>4, <1>6, <1>9 DEF all, g, rest, t

LEMMA NoHistory ==
    ASSUME NEW h, h = <<>>, NEW s \in Seq(Items)
    PROVE  LineItems(h) \o s = s
  <1>1. LineItems(h) = <<>>
    BY DEF LineItems
  <1>. QED
    BY <1>1, ConcatEmptySeq

LEMMA AppendedIs ==
    ASSUME NEW h \in Seq(1 .. MaxLines), NEW s \in Seq(Items), NEW e \in Items
    PROVE  /\ LineItems(h) \o s \in Seq(Items)
           /\ LineItems(h) \o Append(s, e) = Append(LineItems(h) \o s, e)
  <1> DEFINE g == LineItems(h)
  <1>1. g \in Seq(Items)
    BY LineItemsAre
  <1> HIDE DEF g
  <1>2. g \o s \in Seq(Items)
    BY <1>1
  <1>3. g \o Append(s, e) = Append(g \o s, e)
    <2> DEFINE a == g \o Append(s, e)
               b == Append(g \o s, e)
    <2>1. a \in Seq(Items) /\ b \in Seq(Items) /\ Len(a) = Len(b)
      BY <1>1
    <2>2. \A i \in 1 .. Len(a) : a[i] = b[i]
      BY <1>1
    <2> HIDE DEF a, b
    <2>3. a = b
      BY <2>1, <2>2, SeqEqual
    <2>. QED
      BY <2>3 DEF a, b
  <1>. QED
    BY <1>2, <1>3 DEF g

\* A line offered to a subscriber that is owed d lines: what its channel holds
\* then, and how many lines it is owed.
LEMMA DeliverCases ==
    ASSUME NEW s, NEW d \in Nat, NEW n
    PROVE  \/ /\ ~ HasRoom(s)
              /\ Deliver(s, d, n).q = s /\ Deliver(s, d, n).d = d + 1
           \/ /\ HasRoom(s) /\ d = 0
              /\ Deliver(s, d, n).q = Append(s, LineItem(n)) /\ Deliver(s, d, n).d = 0
           \/ /\ HasRoom(s) /\ d > 0 /\ HasRoom(Append(s, GapItem(d)))
              /\ Deliver(s, d, n).q = Append(Append(s, GapItem(d)), LineItem(n))
              /\ Deliver(s, d, n).d = 0
           \/ /\ HasRoom(s) /\ d > 0 /\ ~ HasRoom(Append(s, GapItem(d)))
              /\ Deliver(s, d, n).q = Append(s, GapItem(d)) /\ Deliver(s, d, n).d = 1
  <1>1. CASE ~ HasRoom(s)
    BY <1>1 DEF Deliver
  <1>2. CASE HasRoom(s) /\ d = 0
    <2>1. Deliver(s, d, n) = [q |-> Append(s, LineItem(n)), d |-> 0]
      BY <1>2 DEF Deliver
    <2>. QED
      BY <1>2, <2>1
  <1>3. CASE HasRoom(s) /\ d > 0 /\ HasRoom(Append(s, GapItem(d)))
    <2>1. Deliver(s, d, n) = [q |-> Append(Append(s, GapItem(d)), LineItem(n)), d |-> 0]
      BY <1>3 DEF Deliver
    <2>. QED
      BY <1>3, <2>1
  <1>4. CASE HasRoom(s) /\ d > 0 /\ ~ HasRoom(Append(s, GapItem(d)))
    <2>1. Deliver(s, d, n) = [q |-> Append(s, GapItem(d)), d |-> 1]
      BY <1>4 DEF Deliver
    <2>. QED
      BY <1>4, <2>1
  <1>. QED
    BY <1>1, <1>2, <1>3, <1>4

LEMMA DeliverTypes ==
    ASSUME NEW s \in Seq(Items), Len(s) <= ChanCap, NEW n \in 1 .. MaxLines,
           NEW d \in Nat, d < n
    PROVE  /\ Deliver(s, d, n).q \in Seq(Items) /\ Len(Deliver(s, d, n).q) <= ChanCap
           /\ Deliver(s, d, n).d \in Nat /\ Deliver(s, d, n).d <= n
  <1>1. ChanCap \in Nat /\ MaxLines \in Nat
    BY ChanAssumption, LinesAssumption
  <1>2. LineItem(n) \in Items /\ (d > 0 => GapItem(d) \in Items)
    BY <1>1, ItemsAre
  <1> DEFINE e == LineItem(n)
             g == GapItem(d)
  <1> HIDE DEF e, g
  <1>3. e \in Items /\ (d > 0 => g \in Items)
    BY <1>2 DEF e, g
  <1>4. CASE ~ HasRoom(s) /\ Deliver(s, d, n).q = s /\ Deliver(s, d, n).d = d + 1
    BY <1>4
  <1>5. CASE HasRoom(s) /\ Deliver(s, d, n).q = Append(s, e) /\ Deliver(s, d, n).d = 0
    BY <1>1, <1>3, <1>5 DEF HasRoom
  <1>6. CASE /\ HasRoom(s) /\ d > 0 /\ HasRoom(Append(s, g))
             /\ Deliver(s, d, n).q = Append(Append(s, g), e) /\ Deliver(s, d, n).d = 0
    <2>1. Append(s, g) \in Seq(Items) /\ Len(Append(s, g)) < ChanCap
      BY <1>3, <1>6 DEF HasRoom
    <2>2. Append(Append(s, g), e) \in Seq(Items) /\ Len(Append(Append(s, g), e)) <= ChanCap
      BY <1>1, <1>3, <2>1
    <2>. QED
      BY <1>6, <2>2
  <1>7. CASE /\ HasRoom(s) /\ d > 0
             /\ Deliver(s, d, n).q = Append(s, g) /\ Deliver(s, d, n).d = 1
    BY <1>1, <1>3, <1>7 DEF HasRoom
  <1>8. \/ /\ ~ HasRoom(s)
           /\ Deliver(s, d, n).q = s /\ Deliver(s, d, n).d = d + 1
        \/ /\ HasRoom(s) /\ d = 0
           /\ Deliver(s, d, n).q = Append(s, e) /\ Deliver(s, d, n).d = 0
        \/ /\ HasRoom(s) /\ d > 0 /\ HasRoom(Append(s, g))
           /\ Deliver(s, d, n).q = Append(Append(s, g), e)
           /\ Deliver(s, d, n).d = 0
        \/ /\ HasRoom(s) /\ d > 0 /\ ~ HasRoom(Append(s, g))
           /\ Deliver(s, d, n).q = Append(s, g) /\ Deliver(s, d, n).d = 1
    BY DeliverCases DEF e, g
  <1>. QED
    BY <1>4, <1>5, <1>6, <1>7, <1>8, Zenon

\* A client that has p next, h and what is in the channel still before it and
\* is owed some lines, has all up to line n.
AllUpTo(n, p, h, to) ==
    \E r \in 1 .. n + 1 : Leads(p, LineItems(h) \o to.q, r) /\ r + to.d = n + 1

\* Before: the client has p next, its items lead to q, and it is owed all that
\* came since.  After: the same, one line later.
LEMMA DeliverWhole ==
    ASSUME NEW h \in Seq(1 .. MaxLines), NEW s \in Seq(Items), Len(s) <= ChanCap,
           NEW n \in 1 .. MaxLines, NEW d \in Nat, NEW p \in Nat, NEW q \in 1 .. n,
           Leads(p, LineItems(h) \o s, q)
    PROVE  q + d = n => AllUpTo(n, p, h, Deliver(s, d, n))
  <1> DEFINE all == LineItems(h) \o s
             line == LineItem(n)
             gap == GapItem(d)
             after == Deliver(s, d, n)
  <1>7. \/ after.q = s /\ after.d = d + 1
        \/ d = 0 /\ after.q = Append(s, line) /\ after.d = 0
        \/ d > 0 /\ after.q = Append(Append(s, gap), line) /\ after.d = 0
        \/ d > 0 /\ after.q = Append(s, gap) /\ after.d = 1
    <2>1. \/ /\ ~ HasRoom(s)
             /\ Deliver(s, d, n).q = s /\ Deliver(s, d, n).d = d + 1
          \/ /\ HasRoom(s) /\ d = 0
             /\ Deliver(s, d, n).q = Append(s, line) /\ Deliver(s, d, n).d = 0
          \/ /\ HasRoom(s) /\ d > 0 /\ HasRoom(Append(s, gap))
             /\ Deliver(s, d, n).q = Append(Append(s, gap), line)
             /\ Deliver(s, d, n).d = 0
          \/ /\ HasRoom(s) /\ d > 0 /\ ~ HasRoom(Append(s, gap))
             /\ Deliver(s, d, n).q = Append(s, gap) /\ Deliver(s, d, n).d = 1
      BY DeliverCases DEF line, gap
    <2>. QED
      BY <2>1, Zenon DEF after
  <1> SUFFICES ASSUME q + d = n
               PROVE  \E r \in 1 .. n + 1 : /\ Leads(p, LineItems(h) \o after.q, r)
                                            /\ r + after.d = n + 1
    BY DEF AllUpTo
  <1>1. MaxLines \in Nat /\ n \in Nat /\ q \in Nat /\ d < n
    BY LinesAssumption
  <1>2. line \in Items /\ (d > 0 => gap \in Items)
    BY <1>1, ItemsAre
  <1>3. all \in Seq(Items) /\ Leads(p, all, q)
    BY LineItemsAre
  <1>4. Fits(n, line) /\ After(n, line) = n + 1
    BY <1>1, ItemsAre DEF Fits, After
  <1>5. Fits(q, gap) /\ After(q, gap) = n
    BY <1>1, ItemsAre DEF Fits, After
  <1>6. \A t \in Seq(Items), e \in Items :
           LineItems(h) \o Append(t, e) = Append(LineItems(h) \o t, e)
    BY AppendedIs
  <1> HIDE DEF line, gap, after
  <1>8. LineItems(h) \o Append(s, line) = Append(all, line)
    BY <1>2, <1>6
  <1>9. d > 0 => LineItems(h) \o Append(s, gap) = Append(all, gap)
    BY <1>2, <1>6
  <1>10. d > 0 => LineItems(h) \o Append(Append(s, gap), line) = Append(Append(all, gap), line)
    <2>1. d > 0 => Append(s, gap) \in Seq(Items)
      BY <1>2
    <2>. QED
      BY <1>2, <1>6, <1>9, <2>1, Zenon
  <1> HIDE DEF all
  <1>11. CASE after.q = s /\ after.d = d + 1
    <2>1. Leads(p, LineItems(h) \o after.q, q)
      BY <1>3, <1>11, Zenon DEF all
    <2>. QED
      BY <1>1, <1>11, <2>1
  <1>12. CASE d = 0 /\ after.q = Append(s, line) /\ after.d = 0
    <2>1. q = n
      BY <1>1, <1>12
    <2>2. Leads(p, Append(all, line), n + 1)
      BY <1>1, <1>2, <1>3, <1>4, <2>1, LeadsOn
    <2>3. Leads(p, LineItems(h) \o after.q, n + 1)
      BY <1>8, <1>12, <2>2, Zenon
    <2>. QED
      BY <1>1, <1>12, <2>3
  <1>13. d > 0 => Leads(p, Append(all, gap), n) /\ Append(all, gap) \in Seq(Items)
    BY <1>1, <1>2, <1>3, <1>5, LeadsOn
  <1>14. CASE d > 0 /\ after.q = Append(Append(s, gap), line) /\ after.d = 0
    <2> DEFINE some == Append(all, gap)
    <2>1. Leads(p, some, n) /\ some \in Seq(Items)
      BY <1>13, <1>14
    <2> HIDE DEF some
    <2>2. Leads(p, Append(some, line), n + 1)
      BY <1>1, <1>2, <1>4, <2>1, LeadsOn
    <2>3. Leads(p, LineItems(h) \o after.q, n + 1)
      BY <1>10, <1>14, <2>2, Zenon DEF some
    <2>. QED
      BY <1>1, <1>14, <2>3
  <1>15. CASE d > 0 /\ after.q = Append(s, gap) /\ after.d = 1
    <2>1. Leads(p, LineItems(h) \o after.q, n)
      BY <1>9, <1>13, <1>15, Zenon
    <2>. QED
      BY <1>1, <1>15, <2>1
  <1>. QED
    BY <1>7, <1>11, <1>12, <1>14, <1>15

-----------------------------------------------------------------------------
(* The seam between history and live lines.                                  *)

StreamData ==
    /\ lines \in 0 .. MaxLines
    /\ buffer \in Seq(1 .. MaxLines) /\ Len(buffer) <= MaxBuffer
    /\ chan \in [Clients -> Seq(Items)]
    /\ \A c \in Clients : Len(chan[c]) <= ChanCap
    /\ dropped \in [Clients -> 0 .. MaxLines]
    /\ history \in [Clients -> Seq(1 .. MaxLines)]
    /\ pos \in [Clients -> 1 .. MaxLines + 1]
    /\ down \in BOOLEAN /\ hungUp \in BOOLEAN

\* The ring holds the last lines; a client that has not come has been sent
\* nothing and is owed nothing; no one is owed more than there were lines.
Recent ==
    /\ Len(buffer) <= lines
    /\ \A i \in 1 .. Len(buffer) : buffer[i] = lines - Len(buffer) + i
Untouched == \A c \in Clients : client[c] = "away" => chan[c] = <<>> /\ dropped[c] = 0
Owed == \A c \in Clients : dropped[c] <= lines

\* What waits for a client leads from the line it expects to some line, and
\* short of the next by what it is owed while lines still come.
WholeFor(c, q) ==
    /\ Leads(pos[c], LineItems(history[c]) \o chan[c], q)
    /\ c \in subs => q + dropped[c] = lines + 1
Whole ==
    \A c \in Clients : client[c] \in Attached => \E q \in 1 .. lines + 1 : WholeFor(c, q)

SeamInv == StreamData /\ Recent /\ Untouched /\ Owed /\ Whole

LEMMA InitSeamInv == StreamInit => SeamInv
  <1> SUFFICES ASSUME StreamInit  PROVE SeamInv
    OBVIOUS
  <1>1. /\ lines = 0 /\ buffer = <<>> /\ down = FALSE /\ hungUp = FALSE
        /\ chan = [c \in Clients |-> <<>>] /\ dropped = [c \in Clients |-> 0]
        /\ client = [c \in Clients |-> "away"] /\ history = [c \in Clients |-> <<>>]
        /\ pos = [c \in Clients |-> 1]
    BY Zenon DEF StreamInit
  <1>2. MaxLines \in Nat /\ MaxBuffer \in Nat /\ ChanCap \in Nat
    BY LinesAssumption, BufferAssumption, ChanAssumption
  <1>3. down \in BOOLEAN /\ hungUp \in BOOLEAN
    BY <1>1, Zenon
  <1>4. lines \in 0 .. MaxLines /\ dropped \in [Clients -> 0 .. MaxLines]
    BY <1>1, <1>2
  <1>5. buffer \in Seq(1 .. MaxLines) /\ Len(buffer) = 0
    BY <1>1
  <1>6. chan \in [Clients -> Seq(Items)] /\ \A c \in Clients : chan[c] = <<>> /\ Len(chan[c]) = 0
    BY <1>1
  <1>7. history \in [Clients -> Seq(1 .. MaxLines)]
    BY <1>1
  <1>8. pos \in [Clients -> 1 .. MaxLines + 1]
    BY <1>1, <1>2
  <1>9. StreamData
    BY <1>2, <1>3, <1>4, <1>5, <1>6, <1>7, <1>8 DEF StreamData
  <1>10. Recent
    BY <1>1, <1>5 DEF Recent
  <1>11. Untouched /\ Owed /\ Whole
    BY <1>1 DEF Untouched, Owed, Whole, Attached
  <1>. QED
    BY <1>9, <1>10, <1>11 DEF SeamInv

\* The steps that move no line and start no stream.
LEMMA SeamStays ==
    ASSUME SeamInv, UNCHANGED <<lines, buffer, chan, dropped, history, pos>>,
           down' \in BOOLEAN, hungUp' \in BOOLEAN, subs' \subseteq subs,
           \A c \in Clients : /\ client'[c] = "away" => client[c] = "away"
                              /\ client'[c] \in Attached => client[c] \in Attached
    PROVE  SeamInv'
  <1>1. StreamData'
    BY DEF SeamInv, StreamData
  <1>2. Recent' /\ Owed'
    BY DEF SeamInv, Recent, Owed
  <1>3. Untouched'
    BY DEF SeamInv, Untouched
  <1>4. Whole'
    <2> SUFFICES ASSUME NEW c \in Clients, client'[c] \in Attached
                 PROVE  \E q \in 1 .. lines' + 1 : WholeFor(c, q)'
      BY DEF Whole
    <2>1. client[c] \in Attached
      OBVIOUS
    <2>2. PICK q \in 1 .. lines + 1 : WholeFor(c, q)
      BY <2>1 DEF SeamInv, Whole
    <2>3. WholeFor(c, q)'
      BY <2>2, Zenon DEF WholeFor
    <2>. QED
      BY <2>2, <2>3
  <1>. QED
    BY <1>1, <1>2, <1>3, <1>4 DEF SeamInv

\* A step of the handler of c that writes the first of what waits for it.
LEMMA SeamSent ==
    ASSUME SeamInv, NEW c \in Clients, client[c] \in Attached,
           UNCHANGED <<lines, buffer, dropped, down, hungUp, subs>>,
           \A d \in Clients : d # c => /\ chan'[d] = chan[d] /\ history'[d] = history[d]
                                       /\ pos'[d] = pos[d] /\ client'[d] = client[d],
           chan' \in [Clients -> Seq(Items)], history' \in [Clients -> Seq(1 .. MaxLines)],
           Len(chan'[c]) <= ChanCap, client'[c] # "away",
           LineItems(history[c]) \o chan[c] \in Seq(Items),
           LineItems(history[c]) \o chan[c] # <<>>,
           LineItems(history'[c]) \o chan'[c] = Tail(LineItems(history[c]) \o chan[c]),
           pos' = [pos EXCEPT ![c] = After(@, Head(LineItems(history[c]) \o chan[c]))]
    PROVE  SeamInv'
  <1> DEFINE all == LineItems(history[c]) \o chan[c]
             rest == LineItems(history'[c]) \o chan'[c]
  <1>1. /\ all \in Seq(Items) /\ all # <<>> /\ rest = Tail(all)
        /\ pos \in [Clients -> 1 .. MaxLines + 1] /\ lines \in 0 .. MaxLines
    BY DEF SeamInv, StreamData
  <1>2. PICK q \in 1 .. lines + 1 : WholeFor(c, q)
    BY DEF SeamInv, Whole
  <1>3. Leads(pos[c], all, q) /\ (c \in subs => q + dropped[c] = lines + 1)
    BY <1>2 DEF WholeFor
  <1>4. MaxLines \in Nat /\ lines \in Nat /\ q \in Nat /\ q <= MaxLines + 1 /\ pos[c] \in Nat
    BY <1>1, LinesAssumption
  <1> HIDE DEF all, rest
  <1>5. Leads(After(pos[c], Head(all)), rest, q) /\ After(pos[c], Head(all)) \in 1 .. q
    BY <1>1, <1>3, <1>4, LeadsAfter
  <1>6. pos' = [pos EXCEPT ![c] = After(pos[c], Head(all))]
    BY DEF all
  <1>7. pos' \in [Clients -> 1 .. MaxLines + 1]
    <2>1. After(pos[c], Head(all)) \in 1 .. MaxLines + 1
      BY <1>4, <1>5
    <2>. QED
      BY <1>1, <1>6, <2>1
  <1>8. StreamData'
    <2>1. \A d \in Clients : Len(chan'[d]) <= ChanCap
      BY DEF SeamInv, StreamData
    <2>2. /\ lines' \in 0 .. MaxLines /\ down' \in BOOLEAN /\ hungUp' \in BOOLEAN
          /\ buffer' \in Seq(1 .. MaxLines) /\ Len(buffer') <= MaxBuffer
          /\ dropped' \in [Clients -> 0 .. MaxLines]
      BY DEF SeamInv, StreamData
    <2>. QED
      BY <1>7, <2>1, <2>2 DEF StreamData
  <1>9. Recent' /\ Owed'
    BY DEF SeamInv, Recent, Owed
  <1>10. Untouched'
    BY DEF SeamInv, Untouched
  <1>11. Whole'
    <2> SUFFICES ASSUME NEW d \in Clients, client'[d] \in Attached
                 PROVE  \E r \in 1 .. lines' + 1 : WholeFor(d, r)'
      BY DEF Whole
    <2>1. CASE d # c
      <3>1. PICK r \in 1 .. lines + 1 : WholeFor(d, r)
        BY <2>1 DEF SeamInv, Whole
      <3>2. /\ chan'[d] = chan[d] /\ history'[d] = history[d] /\ pos'[d] = pos[d]
            /\ subs' = subs /\ dropped' = dropped /\ lines' = lines
        BY <2>1
      <3>3. WholeFor(d, r)'
        BY <3>1, <3>2, Zenon DEF WholeFor
      <3>. QED
        BY <3>1, <3>3
    <2>2. CASE d = c
      <3>1. pos'[c] = After(pos[c], Head(all))
        BY <1>1, <1>6, <2>2
      <3>2. Leads(pos'[c], rest, q)
        BY <1>5, <3>1
      <3>3. c \in subs' => q + dropped'[c] = lines' + 1
        BY <1>3
      <3>4. WholeFor(c, q)'
        BY <3>2, <3>3, Zenon DEF WholeFor, rest
      <3>. QED
        BY <1>2, <2>2, <3>4
    <2>. QED
      BY <2>1, <2>2
  <1>. QED
    BY <1>8, <1>9, <1>10, <1>11 DEF SeamInv

LEMMA LineSeam == ASSUME StreamInv, SeamInv, Line  PROVE SeamInv'
  <1> DEFINE n == lines + 1
             to(c) == Deliver(chan[c], dropped[c], n)
  <1>1. /\ lines < MaxLines /\ lines' = n /\ buffer' = Ring(Append(buffer, n))
        /\ chan' = [c \in Clients |-> IF c \in subs THEN to(c).q ELSE chan[c]]
        /\ dropped' = [c \in Clients |-> IF c \in subs THEN to(c).d ELSE dropped[c]]
        /\ UNCHANGED <<subs, client, history, pos, down, hungUp>>
    BY Zenon DEF Line, clientVars, serverVars
  <1>2. /\ lines \in 0 .. MaxLines
        /\ buffer \in Seq(1 .. MaxLines) /\ Len(buffer) <= MaxBuffer
        /\ chan \in [Clients -> Seq(Items)]
        /\ \A c \in Clients : Len(chan[c]) <= ChanCap
        /\ dropped \in [Clients -> 0 .. MaxLines]
        /\ history \in [Clients -> Seq(1 .. MaxLines)]
        /\ pos \in [Clients -> 1 .. MaxLines + 1]
        /\ down \in BOOLEAN /\ hungUp \in BOOLEAN
        /\ Len(buffer) <= lines
        /\ \A i \in 1 .. Len(buffer) : buffer[i] = lines - Len(buffer) + i
        /\ \A c \in Clients : dropped[c] <= lines
    BY DEF SeamInv, StreamData, Recent, Owed
  <1>3. /\ n \in 1 .. MaxLines /\ lines \in Nat /\ n \in Nat /\ MaxLines \in Nat
        /\ MaxBuffer \in Nat \ {0} /\ Len(buffer) \in Nat
    BY <1>1, <1>2, LinesAssumption, BufferAssumption
  <1>4. ASSUME NEW c \in Clients
        PROVE  /\ to(c).q \in Seq(Items) /\ Len(to(c).q) <= ChanCap
               /\ to(c).d \in Nat /\ to(c).d <= n
    <2> DEFINE s == chan[c]
               d == dropped[c]
    <2>1. s \in Seq(Items) /\ Len(s) <= ChanCap /\ d \in Nat /\ d < n
      BY <1>2, <1>3
    <2> HIDE DEF s, d, n
    <2>2. /\ Deliver(s, d, n).q \in Seq(Items) /\ Len(Deliver(s, d, n).q) <= ChanCap
          /\ Deliver(s, d, n).d \in Nat /\ Deliver(s, d, n).d <= n
      BY <1>3, <2>1, DeliverTypes
    <2>. QED
      BY <2>2 DEF s, d
  <1> HIDE DEF n, to
  <1>5. /\ chan' \in [Clients -> Seq(Items)]
        /\ \A c \in Clients : Len(chan'[c]) <= ChanCap
    BY <1>1, <1>2, <1>4
  <1>6. /\ dropped' \in [Clients -> 0 .. MaxLines]
        /\ \A c \in Clients : dropped'[c] <= n
    <2>1. n = lines + 1
      BY DEF n
    <2>2. \A c \in Clients : /\ to(c).d \in 0 .. MaxLines /\ to(c).d <= n
                             /\ dropped[c] \in 0 .. MaxLines /\ dropped[c] <= n
      <3> SUFFICES ASSUME NEW c \in Clients
                   PROVE  /\ to(c).d \in 0 .. MaxLines /\ to(c).d <= n
                          /\ dropped[c] \in 0 .. MaxLines /\ dropped[c] <= n
        OBVIOUS
      <3>1. to(c).d \in Nat /\ to(c).d <= n
        BY <1>4
      <3>2. dropped[c] \in 0 .. MaxLines /\ dropped[c] <= lines
        BY <1>2
      <3>. QED
        BY <1>3, <2>1, <3>1, <3>2
    <2>. QED
      BY <1>1, <2>2
  <1>7. /\ buffer' \in Seq(1 .. MaxLines) /\ Len(buffer') <= MaxBuffer
        /\ Len(buffer') <= n
        /\ \A i \in 1 .. Len(buffer') : buffer'[i] = n - Len(buffer') + i
    <2> DEFINE b == Append(buffer, n)
               k == Len(buffer)
    <2>1. /\ b \in Seq(1 .. MaxLines) /\ Len(b) = k + 1 /\ b[k + 1] = n
          /\ \A i \in 1 .. k : b[i] = buffer[i]
      BY <1>2, <1>3
    <2>2. k \in Nat /\ k <= MaxBuffer /\ k <= lines /\ n = lines + 1
      BY <1>2, <1>3 DEF n
    <2>3. \A i \in 1 .. k + 1 : b[i] = n - (k + 1) + i
      <3> SUFFICES ASSUME NEW i \in 1 .. k + 1  PROVE b[i] = n - (k + 1) + i
        OBVIOUS
      <3>1. CASE i = k + 1
        BY <1>3, <2>1, <2>2, <3>1
      <3>2. CASE i # k + 1
        <4>1. i \in 1 .. k /\ i \in 1 .. Len(buffer)
          BY <2>2, <3>2
        <4>2. b[i] = lines - k + i
          BY <1>2, <2>1, <4>1
        <4>. QED
          BY <1>3, <2>2, <4>2
      <3>. QED
        BY <3>1, <3>2
    <2> HIDE DEF b, k
    <2>4. CASE k + 1 > MaxBuffer
      <3>1. buffer' = Tail(b) /\ k = MaxBuffer
        BY <1>1, <1>3, <2>1, <2>2, <2>4 DEF Ring, b
      <3>2. /\ Tail(b) \in Seq(1 .. MaxLines) /\ Len(Tail(b)) = k
            /\ \A i \in 1 .. k : Tail(b)[i] = b[i + 1]
        BY <2>1, <2>2
      <3>3. \A i \in 1 .. k : b[i + 1] = n - k + i
        <4> SUFFICES ASSUME NEW i \in 1 .. k  PROVE b[i + 1] = n - k + i
          OBVIOUS
        <4>1. i + 1 \in 1 .. k + 1
          BY <2>2
        <4>2. b[i + 1] = n - (k + 1) + (i + 1)
          BY <2>3, <4>1
        <4>. QED
          BY <1>3, <2>2, <4>2
      <3>4. Len(buffer') = k /\ buffer' \in Seq(1 .. MaxLines)
        BY <3>1, <3>2
      <3>5. \A i \in 1 .. k : buffer'[i] = n - k + i
        BY <3>1, <3>2, <3>3, Zenon
      <3>6. k <= MaxBuffer /\ k <= n
        BY <1>3, <2>2
      <3>. QED
        BY <3>4, <3>5, <3>6, Zenon
    <2>5. CASE ~ (k + 1 > MaxBuffer)
      <3>1. buffer' = b
        BY <1>1, <2>1, <2>5 DEF Ring, b
      <3>2. Len(buffer') = k + 1 /\ buffer' \in Seq(1 .. MaxLines)
        BY <2>1, <3>1
      <3>3. \A i \in 1 .. k + 1 : buffer'[i] = n - (k + 1) + i
        BY <2>3, <3>1, Zenon
      <3>4. k + 1 <= MaxBuffer /\ k + 1 <= n
        BY <1>3, <2>2, <2>5
      <3>. QED
        BY <3>2, <3>3, <3>4, Zenon
    <2>. QED
      BY <2>4, <2>5
  <1>8. StreamData'
    <2>1. /\ lines' \in 0 .. MaxLines
          /\ history' \in [Clients -> Seq(1 .. MaxLines)]
          /\ pos' \in [Clients -> 1 .. MaxLines + 1]
          /\ down' \in BOOLEAN /\ hungUp' \in BOOLEAN
      BY <1>1, <1>2, <1>3
    <2>. QED
      BY <1>5, <1>6, <1>7, <2>1 DEF StreamData
  <1>9. Recent' /\ Owed'
    BY <1>1, <1>6, <1>7 DEF Recent, Owed
  <1>10. Untouched'
    <2> SUFFICES ASSUME NEW c \in Clients, client'[c] = "away"
                 PROVE  chan'[c] = <<>> /\ dropped'[c] = 0
      BY DEF Untouched
    <2>1. client[c] = "away" /\ c \notin subs
      BY <1>1 DEF StreamInv, Ownership
    <2>. QED
      BY <1>1, <2>1 DEF SeamInv, Untouched
  <1>11. Whole'
    <2> SUFFICES ASSUME NEW c \in Clients, client'[c] \in Attached
                 PROVE  \E q \in 1 .. lines' + 1 : WholeFor(c, q)'
      BY DEF Whole
    <2>1. PICK q \in 1 .. lines + 1 : WholeFor(c, q)
      BY <1>1 DEF SeamInv, Whole
    <2>2. /\ Leads(pos[c], LineItems(history[c]) \o chan[c], q)
          /\ c \in subs => q + dropped[c] = lines + 1
      BY <2>1 DEF WholeFor
    <2>3. q \in 1 .. n /\ q \in Nat /\ n = lines + 1
      BY <1>3 DEF n
    <2>4. /\ history' = history /\ pos' = pos /\ subs' = subs /\ lines' = n
          /\ chan'[c] = IF c \in subs THEN to(c).q ELSE chan[c]
          /\ dropped'[c] = IF c \in subs THEN to(c).d ELSE dropped[c]
      BY <1>1
    <2>5. CASE c \notin subs
      <3>1. WholeFor(c, q)'
        BY <2>2, <2>4, <2>5, Zenon DEF WholeFor
      <3>2. q \in 1 .. lines' + 1
        BY <1>3, <2>3, <2>4
      <3>. QED
        BY <3>1, <3>2
    <2>6. CASE c \in subs
      <3> DEFINE s == chan[c]
                 d == dropped[c]
                 h == history[c]
                 p == pos[c]
      <3>1. /\ h \in Seq(1 .. MaxLines) /\ s \in Seq(Items) /\ Len(s) <= ChanCap
            /\ d \in Nat /\ p \in Nat
        BY <1>2, <1>3
      <3>2. Leads(p, LineItems(h) \o s, q) /\ q + d = n
        BY <2>2, <2>3, <2>6
      <3>3. to(c) = Deliver(s, d, n)
        BY DEF to
      <3> HIDE DEF s, d, h, p
      <3>4. AllUpTo(n, p, h, Deliver(s, d, n))
        <4>1. Leads(p, LineItems(h) \o s, q)
          BY <3>2
        <4>2. q + d = n => AllUpTo(n, p, h, Deliver(s, d, n))
          BY <1>3, <2>3, <3>1, <4>1, DeliverWhole
        <4>. QED
          BY <3>2, <4>2
      <3>5. PICK r \in 1 .. n + 1 : /\ Leads(p, LineItems(h) \o to(c).q, r)
                                    /\ r + to(c).d = n + 1
        BY <3>3, <3>4, Zenon DEF AllUpTo
      <3>6. chan'[c] = to(c).q /\ dropped'[c] = to(c).d
        BY <2>4, <2>6
      <3>7. Leads(pos'[c], LineItems(history'[c]) \o chan'[c], r)
        BY <2>4, <3>5, <3>6, Zenon DEF h, p
      <3>8. WholeFor(c, r)'
        BY <2>4, <3>5, <3>6, <3>7, Zenon DEF WholeFor
      <3>. QED
        BY <2>4, <3>5, <3>8
    <2>. QED
      BY <2>5, <2>6
  <1>. QED
    BY <1>8, <1>9, <1>10, <1>11 DEF SeamInv

LEMMA SubscribeSeam == ASSUME StreamInv, SeamInv, NEW c \in Clients, Subscribe(c)  PROVE SeamInv'
  <1>1. /\ client[c] = "away"
        /\ \E p \in {"streaming", "attached"} : client' = [client EXCEPT ![c] = p]
        /\ history' = [history EXCEPT ![c] = buffer]
        /\ pos' = [pos EXCEPT ![c] = lines - Len(buffer) + 1]
        /\ subs' \subseteq subs \cup {c}
        /\ UNCHANGED <<lines, buffer, dropped, chan, down, hungUp>>
    BY DEF Subscribe, serverVars
  <1>2. /\ lines \in 0 .. MaxLines /\ buffer \in Seq(1 .. MaxLines)
        /\ history \in [Clients -> Seq(1 .. MaxLines)]
        /\ pos \in [Clients -> 1 .. MaxLines + 1]
        /\ Len(buffer) <= lines /\ chan[c] = <<>> /\ dropped[c] = 0
        /\ client \in [Clients -> HandlerPlaces]
        /\ \A i \in 1 .. Len(buffer) : buffer[i] = lines - Len(buffer) + i
    BY <1>1 DEF SeamInv, StreamData, Recent, Untouched, StreamInv, Shapes
  <1> DEFINE m == lines - Len(buffer)
             n == Len(buffer)
  <1>3. /\ MaxLines \in Nat /\ lines \in Nat /\ lines <= MaxLines
        /\ n \in Nat /\ m \in Nat /\ m + n = lines
    BY <1>2, LinesAssumption
  <1>4. StreamData'
    <2>1. m + 1 \in 1 .. MaxLines + 1
      BY <1>3
    <2>2. pos' \in [Clients -> 1 .. MaxLines + 1]
      BY <1>1, <1>2, <2>1
    <2>3. history' \in [Clients -> Seq(1 .. MaxLines)]
      BY <1>1, <1>2
    <2>. QED
      BY <1>1, <2>2, <2>3 DEF SeamInv, StreamData
  <1>5. Recent' /\ Owed'
    BY <1>1 DEF SeamInv, Recent, Owed
  <1>6. Untouched'
    BY <1>1, <1>2 DEF SeamInv, Untouched
  <1>7. Whole'
    <2> SUFFICES ASSUME NEW d \in Clients, client'[d] \in Attached
                 PROVE  \E q \in 1 .. lines' + 1 : WholeFor(d, q)'
      BY DEF Whole
    <2>1. CASE d # c
      <3>1. /\ client[d] \in Attached /\ history'[d] = history[d] /\ pos'[d] = pos[d]
            /\ chan' = chan /\ dropped' = dropped /\ lines' = lines
            /\ d \in subs' => d \in subs
        BY <1>1, <1>2, <2>1
      <3>2. PICK q \in 1 .. lines + 1 : WholeFor(d, q)
        BY <3>1 DEF SeamInv, Whole
      <3>3. WholeFor(d, q)'
        BY <3>1, <3>2, Zenon DEF WholeFor
      <3>. QED
        BY <3>1, <3>2, <3>3
    <2>2. CASE d = c
      <3> DEFINE s == LineItems(buffer)
      <3>1. /\ s \in Seq(Items) /\ Len(s) = n
            /\ \A i \in 1 .. n : s[i] = LineItem(buffer[i])
        BY <1>2, LineItemsAre
      <3>2. \A i \in 1 .. n : s[i] = LineItem(m + i)
        BY <1>2, <3>1
      <3> HIDE DEF s, m, n
      <3>3. Leads(m + 1, s, m + n + 1)
        BY <1>3, <3>1, <3>2, LeadsLines
      <3>4. s \o <<>> = s
        BY <3>1, ConcatEmptySeq
      <3>5. /\ history'[c] = buffer /\ pos'[c] = m + 1 /\ chan'[c] = <<>>
            /\ dropped'[c] = 0 /\ lines' = lines
        BY <1>1, <1>2 DEF m
      <3>6. LineItems(history'[c]) \o chan'[c] = s
        BY <3>4, <3>5, Zenon DEF s
      <3>7. PICK q \in 1 .. lines + 1 : q = m + n + 1 /\ q = lines + 1
        BY <1>3
      <3>8. Leads(pos'[c], LineItems(history'[c]) \o chan'[c], q)
        BY <3>3, <3>5, <3>6, <3>7, Zenon
      <3>9. q + dropped'[c] = lines' + 1
        BY <1>3, <3>5, <3>7
      <3>10. WholeFor(c, q)'
        BY <3>5, <3>8, <3>9, Zenon DEF WholeFor
      <3>. QED
        BY <2>2, <3>5, <3>7, <3>10
    <2>. QED
      BY <2>1, <2>2
  <1>. QED
    BY <1>4, <1>5, <1>6, <1>7 DEF SeamInv

LEMMA TailIs == ASSUME NEW T, NEW s \in Seq(T), s # <<>>  PROVE Tail(s) \in Seq(T)
OBVIOUS

LEMMA SentSeam ==
    ASSUME StreamInv, SeamInv, NEW c \in Clients, Replay(c) \/ Receive(c)
    PROVE  SeamInv'
  <1>1. /\ client[c] = "streaming" /\ client[c] \in Attached
        /\ UNCHANGED <<lines, buffer, dropped, down, hungUp, subs>>
        /\ client \in [Clients -> HandlerPlaces]
        /\ chan \in [Clients -> Seq(Items)] /\ history \in [Clients -> Seq(1 .. MaxLines)]
        /\ pos \in [Clients -> 1 .. MaxLines + 1] /\ \A d \in Clients : Len(chan[d]) <= ChanCap
        /\ ChanCap \in Nat
    BY ChanAssumption
       DEF Replay, Receive, Write, sessionVars, serverVars, Attached, StreamInv, Shapes,
           SeamInv, StreamData
  <1> DEFINE h == history[c]
             s == chan[c]
             all == LineItems(h) \o s
  <1>2. h \in Seq(1 .. MaxLines) /\ s \in Seq(Items) /\ Len(s) <= ChanCap
    BY <1>1
  <1>3. ASSUME NEW item, Write(c, item)
        PROVE  /\ pos' = [pos EXCEPT ![c] = After(@, item)] /\ client'[c] # "away"
               /\ \A d \in Clients : d # c => pos'[d] = pos[d] /\ client'[d] = client[d]
    BY <1>1, <1>3 DEF Write
  <1>4. CASE Replay(c)
    <2>1. /\ h # <<>> /\ Write(c, LineItem(Head(h)))
          /\ history' = [history EXCEPT ![c] = Tail(h)] /\ chan' = chan
      BY <1>4 DEF Replay
    <2>2. /\ all \in Seq(Items) /\ all # <<>> /\ Head(all) = LineItem(Head(h))
          /\ Tail(all) = LineItems(Tail(h)) \o s
      BY <1>2, <2>1, ReplayedIs
    <2>3. Tail(h) \in Seq(1 .. MaxLines)
      BY <1>2, <2>1, TailIs
    <2>4. /\ history' \in [Clients -> Seq(1 .. MaxLines)] /\ history'[c] = Tail(h)
          /\ \A d \in Clients : d # c => history'[d] = history[d]
      BY <1>1, <2>1, <2>3
    <2>5. LineItems(history'[c]) \o chan'[c] = Tail(all)
      BY <2>1, <2>2, <2>4, Zenon
    <2>6. /\ pos' = [pos EXCEPT ![c] = After(@, Head(all))] /\ client'[c] # "away"
          /\ \A d \in Clients : d # c => pos'[d] = pos[d] /\ client'[d] = client[d]
      BY <1>3, <2>1, <2>2, Zenon
    <2>. QED
      BY <1>1, <1>2, <2>1, <2>2, <2>4, <2>5, <2>6, SeamSent
  <1>5. CASE Receive(c)
    <2>1. /\ h = <<>> /\ s # <<>> /\ Write(c, Head(s))
          /\ chan' = [chan EXCEPT ![c] = Tail(s)] /\ history' = history
      BY <1>5 DEF Receive
    <2>2. Tail(s) \in Seq(Items) /\ Len(Tail(s)) <= ChanCap
      BY <1>1, <1>2, <2>1
    <2>3. all = s /\ LineItems(h) \o Tail(s) = Tail(s)
      BY <1>2, <2>1, <2>2, NoHistory
    <2>4. /\ chan' \in [Clients -> Seq(Items)] /\ chan'[c] = Tail(s)
          /\ \A d \in Clients : d # c => chan'[d] = chan[d]
      BY <1>1, <2>1, <2>2
    <2>5. LineItems(history'[c]) \o chan'[c] = Tail(all)
      BY <2>1, <2>3, <2>4, Zenon
    <2>6. /\ pos' = [pos EXCEPT ![c] = After(@, Head(all))] /\ client'[c] # "away"
          /\ \A d \in Clients : d # c => pos'[d] = pos[d] /\ client'[d] = client[d]
      BY <1>3, <2>1, <2>3, Zenon
    <2>7. all \in Seq(Items) /\ all # <<>> /\ Len(chan'[c]) <= ChanCap
      BY <1>2, <2>1, <2>2, <2>3, <2>4, Zenon
    <2>. QED
      BY <1>1, <2>1, <2>4, <2>5, <2>6, <2>7, SeamSent
  <1>. QED
    BY <1>4, <1>5

LEMMA NextSeamInv == StreamInv /\ SeamInv /\ [StreamNext]_streamVars => SeamInv'
  <1> SUFFICES ASSUME StreamInv, SeamInv, [StreamNext]_streamVars  PROVE SeamInv'
    OBVIOUS
  <1> USE DEF sessionVars, clientVars, serverVars
  <1>0. down \in BOOLEAN /\ hungUp \in BOOLEAN /\ client \in [Clients -> HandlerPlaces]
    BY DEF SeamInv, StreamData, StreamInv, Shapes
  <1>1. CASE UNCHANGED streamVars
    BY <1>0, <1>1, SeamStays DEF streamVars
  <1>2. CASE Started \/ Finish
    BY <1>0, <1>2, SeamStays DEF Started, Finish
  <1>3. CASE ServerDown \/ HangUp
    <2>1. down' \in BOOLEAN /\ hungUp' \in BOOLEAN
      BY <1>0, <1>3, Zenon DEF ServerDown, HangUp
    <2>. QED
      BY <1>3, <2>1, SeamStays DEF ServerDown, HangUp
  <1>4. ASSUME NEW c \in Clients, CloseOne(c)  PROVE SeamInv'
    BY <1>0, <1>4, SeamStays DEF CloseOne
  <1>5. ASSUME NEW c \in Clients,
               LookUp(c) \/ SeeClosed(c) \/ SeeShutdown(c) \/ Unsubscribe(c) \/ WriteReturns(c)
        PROVE  SeamInv'
    <2>1. /\ UNCHANGED <<lines, buffer, chan, dropped, history, pos, down, hungUp>>
          /\ subs' \subseteq subs
      BY <1>5 DEF LookUp, SeeClosed, SeeShutdown, EndStream, Unsubscribe, WriteReturns,
                  Written, WriteFails
    <2>2. \/ /\ client[c] \in {"attached", "ack", "writing"}
             /\ \E p \in {"ack", "streaming"} : client' = [client EXCEPT ![c] = p]
          \/ \E p \in {"ending", "cancel", "left"} : client' = [client EXCEPT ![c] = p]
      BY <1>5 DEF LookUp, SeeClosed, SeeShutdown, EndStream, Unsubscribe, WriteReturns,
                  Written, WriteFails
    <2>3. \A d \in Clients : /\ client'[d] = "away" => client[d] = "away"
                             /\ client'[d] \in Attached => client[d] \in Attached
      BY <1>0, <2>2 DEF Attached
    <2>. QED
      BY <1>0, <2>1, <2>3, SeamStays
  <1>. QED
    BY <1>1, <1>2, <1>3, <1>4, <1>5, LineSeam, SubscribeSeam, SentSeam, Zenon
       DEF StreamNext, Serve

LEMMA SeamInvariant == StreamSpec => []SeamInv
BY InitSeamInv, NextSeamInv, StreamInvariant, PTL DEF StreamSpec

\* session.go: the types of a session's stream, with the bounds of the ring and
\* of the channels.
THEOREM StreamTypes == StreamSpec => []StreamTypeOK
  <1>1. StreamInv /\ SeamInv => StreamTypeOK
    BY Zenon DEF StreamInv, Shapes, SeamInv, StreamData, StreamTypeOK
  <1>. QED
    BY <1>1, StreamInvariant, SeamInvariant, PTL

\* session.go, Line and Subscribe, and server.go, streamToClient: what a client
\* has been sent, what waits for it and what it is still owed a notice of are
\* all the lines since its first, in order and once each.
THEOREM NothingMissing == StreamSpec => []StreamContiguous
  <1>1. ASSUME SeamInv  PROVE StreamContiguous
    <2> SUFFICES ASSUME NEW c \in Clients, client[c] \in Attached
                 PROVE  /\ Position(pos[c], Pending(c)) > 0
                        /\ c \in subs => Position(pos[c], Pending(c)) + dropped[c] = lines + 1
      BY DEF StreamContiguous
    <2>1. PICK q \in 1 .. lines + 1 : WholeFor(c, q)
      BY <1>1 DEF SeamInv, Whole
    <2>2. Pending(c) = LineItems(history[c]) \o chan[c]
      BY Zenon DEF Pending, LineItems
    <2>3. /\ history[c] \in Seq(1 .. MaxLines) /\ chan[c] \in Seq(Items)
          /\ pos[c] \in Nat /\ lines \in Nat
      BY <1>1, LinesAssumption DEF SeamInv, StreamData
    <2>4. Pending(c) \in Seq(Items)
      BY <2>2, <2>3, LineItemsAre
    <2>5. Leads(pos[c], Pending(c), q) /\ (c \in subs => q + dropped[c] = lines + 1)
      BY <2>1, <2>2, Zenon DEF WholeFor
    <2>6. q \in Nat /\ q > 0
      BY <2>3
    <2>7. Position(pos[c], Pending(c)) = q
      BY <2>3, <2>4, <2>5, <2>6, PositionIs
    <2>. QED
      BY <2>5, <2>6, <2>7
  <1>. QED
    BY <1>1, SeamInvariant, PTL

-----------------------------------------------------------------------------
(***************************************************************************)
(* SessionRegistry, for all ids, handlers, runs and caps.                  *)
(* order lists the registered sessions once each, in the order of their    *)
(* starts, before, during and after a prune (RegistryInv), and what a prune*)
(* has passed by was running when its start took the lock (PassedBy): so the*)
(* finished session it comes to is the oldest that could go.               *)
(***************************************************************************)

\* An order without its i-th element.
LEMMA RemovedIs ==
    ASSUME NEW T, NEW s \in Seq(T), NEW i \in DOMAIN s
    PROVE  /\ RemoveAt(s, i) \in Seq(T)
           /\ Len(RemoveAt(s, i)) = Len(s) - 1
           /\ \A j \in 1 .. Len(s) - 1 :
                 RemoveAt(s, i)[j] = IF j < i THEN s[j] ELSE s[j + 1]
  <1> DEFINE a == SubSeq(s, 1, i - 1)
             b == SubSeq(s, i + 1, Len(s))
  <1>1. Len(s) \in Nat /\ i \in 1 .. Len(s)
    OBVIOUS
  <1>2. a \in Seq(T) /\ Len(a) = i - 1 /\ \A j \in 1 .. i - 1 : a[j] = s[j]
    BY <1>1
  <1>3. /\ b \in Seq(T) /\ Len(b) = Len(s) - i
        /\ \A j \in 1 .. Len(s) - i : b[j] = s[i + j]
    BY <1>1
  <1>4. RemoveAt(s, i) = a \o b
    BY DEF RemoveAt
  <1> HIDE DEF a, b
  <1>5. a \o b \in Seq(T) /\ Len(a \o b) = Len(s) - 1
    BY <1>1, <1>2, <1>3
  <1>6. ASSUME NEW j \in 1 .. Len(s) - 1
        PROVE  (a \o b)[j] = IF j < i THEN s[j] ELSE s[j + 1]
    <2>1. (a \o b)[j] = IF j <= Len(a) THEN a[j] ELSE b[j - Len(a)]
      BY <1>1, <1>2, <1>3
    <2>2. CASE j < i
      BY <1>1, <1>2, <2>1, <2>2
    <2>3. CASE ~ (j < i)
      <3>1. j - (i - 1) \in 1 .. Len(s) - i /\ i + (j - (i - 1)) = j + 1
        BY <1>1, <2>3
      <3>2. b[j - (i - 1)] = s[j + 1]
        BY <1>3, <3>1
      <3>3. ~ (j <= Len(a)) /\ Len(a) = i - 1
        BY <1>1, <1>2, <2>3
      <3>. QED
        BY <2>1, <2>3, <3>2, <3>3
    <2>. QED
      BY <2>2, <2>3
  <1>. QED
    BY <1>4, <1>5, <1>6

\* It keeps the other elements, once each and as they came.
LEMMA RemovalKeeps ==
    ASSUME NEW T, NEW s \in Seq(T), IsInjective(s), NEW i \in DOMAIN s
    PROVE  /\ RemoveAt(s, i) \in Seq(T) /\ Len(RemoveAt(s, i)) = Len(s) - 1
           /\ IsInjective(RemoveAt(s, i))
           /\ ToSet(RemoveAt(s, i)) = ToSet(s) \ {s[i]}
           /\ \A j \in 1 .. i - 1 : RemoveAt(s, i)[j] = s[j]
           /\ \A a, b \in DOMAIN RemoveAt(s, i) :
                 a < b => \E j, k \in DOMAIN s : /\ j < k
                                                /\ RemoveAt(s, i)[a] = s[j]
                                                /\ RemoveAt(s, i)[b] = s[k]
  <1> DEFINE r == RemoveAt(s, i)
             from(j) == IF j < i THEN j ELSE j + 1
  <1>1. Len(s) \in Nat /\ DOMAIN s = 1 .. Len(s) /\ i \in 1 .. Len(s)
    OBVIOUS
  <1>2. /\ r \in Seq(T) /\ Len(r) = Len(s) - 1
        /\ \A j \in 1 .. Len(s) - 1 : r[j] = IF j < i THEN s[j] ELSE s[j + 1]
    BY RemovedIs
  <1> HIDE DEF r
  <1>3. DOMAIN r = 1 .. Len(s) - 1
    BY <1>2
  <1>4. \A j \in 1 .. Len(s) - 1 :
           from(j) \in 1 .. Len(s) /\ from(j) # i /\ r[j] = s[from(j)]
    BY <1>1, <1>2
  <1>5. \A j, k \in 1 .. Len(s) - 1 : (j < k => from(j) < from(k)) /\ (from(j) = from(k) => j = k)
    BY <1>1
  <1>6. ASSUME NEW k \in 1 .. Len(s), k # i  PROVE \E j \in 1 .. Len(s) - 1 : from(j) = k
    <2>1. CASE k < i
      <3>1. k \in 1 .. Len(s) - 1 /\ from(k) = k
        BY <1>1, <2>1
      <3>. QED
        BY <3>1
    <2>2. CASE ~ (k < i)
      <3>1. k - 1 \in 1 .. Len(s) - 1 /\ from(k - 1) = k
        BY <1>1, <1>6, <2>2
      <3>. QED
        BY <3>1
    <2>. QED
      BY <2>1, <2>2
  <1> HIDE DEF from
  <1>7. IsInjective(r)
    BY <1>1, <1>3, <1>4, <1>5 DEF IsInjective
  <1>8. ToSet(r) = ToSet(s) \ {s[i]}
    <2>1. ASSUME NEW x \in ToSet(r)  PROVE x \in ToSet(s) \ {s[i]}
      BY <1>1, <1>3, <1>4 DEF ToSet, IsInjective
    <2>2. ASSUME NEW x \in ToSet(s) \ {s[i]}  PROVE x \in ToSet(r)
      <3>1. PICK k \in 1 .. Len(s) : x = s[k] /\ k # i
        BY <1>1 DEF ToSet
      <3>2. PICK j \in 1 .. Len(s) - 1 : from(j) = k
        BY <1>6, <3>1
      <3>. QED
        BY <1>3, <1>4, <3>1, <3>2 DEF ToSet
    <2>. QED
      BY <2>1, <2>2
  <1>9. \A j \in 1 .. i - 1 : r[j] = s[j]
    <2>1. \A j \in 1 .. i - 1 : j \in 1 .. Len(s) - 1 /\ j < i
      BY <1>1
    <2>. QED
      BY <1>2, <2>1
  <1>10. ASSUME NEW a \in DOMAIN r, NEW b \in DOMAIN r, a < b
         PROVE  \E j, k \in DOMAIN s : j < k /\ r[a] = s[j] /\ r[b] = s[k]
    BY <1>1, <1>3, <1>4, <1>5, <1>10
  <1>. QED
    BY <1>2, <1>7, <1>8, <1>9, <1>10 DEF r

-----------------------------------------------------------------------------
(* The registry.                                                             *)

\* A registered session has the id it is found under; a handler that waits on a
\* session has one; the order is the order in which the sessions were started.
NamedRight == \A id \in Ids : sessions[id] # 0 => started[sessions[id]].id = id
SubscribedTo == \A c \in Connections : handler[c] \in {"starting", "asked", "streaming"} => sub[c] # 0
OldestFirst == \A i, j \in DOMAIN order : i < j => sessions[order[i]] < sessions[order[j]]

\* What had finished when a start began has finished; what its prune has passed
\* by was running then.
EndedFinished == \A n \in ended : HasFinished(n)
PassedBy ==
    ~ ManagerFree => \A i \in DOMAIN order : i < looking => sessions[order[i]] \notin ended

RegistryInv ==
    /\ RegistryTypeOK /\ RunningRegistered /\ NamedRight /\ SubscribedTo
    /\ OldestFirst /\ EndedFinished /\ PassedBy

LEMMA InitRegistryInv == RegistryInit => RegistryInv
  <1> SUFFICES ASSUME RegistryInit  PROVE RegistryInv
    OBVIOUS
  <1>1. /\ sessions = [id \in Ids |-> 0] /\ order = <<>> /\ started = <<>>
        /\ looking = 0 /\ ended = {}
        /\ handler = [c \in Connections |-> "away"] /\ sub = [c \in Connections |-> 0]
        /\ found = [c \in Connections |-> 0] /\ frame = [c \in Connections |-> "none"]
    BY Zenon DEF RegistryInit
  <1>2. Len(started) = 0 /\ DOMAIN started = {} /\ DOMAIN order = {}
    BY <1>1
  <1>3. RegistryTypeOK
    <2>1. sessions \in [Ids -> 0 .. Len(started)] /\ started \in Seq([id : Ids, state : {"running", "done", "failed"}])
      BY <1>1, <1>2
    <2>2. order \in Seq(Ids) /\ IsInjective(order)
      BY <1>1, <1>2 DEF IsInjective
    <2>3. ToSet(order) = Registered
      BY <1>1, <1>2 DEF ToSet, Registered
    <2>4. handler \in [Connections -> {"away", "starting", "asked", "streaming", "gone"}]
      BY <1>1
    <2>5. sub \in [Connections -> 0 .. Len(started)] /\ found \in [Connections -> 0 .. Len(started)]
      BY <1>1, <1>2
    <2>6. frame \in [Connections -> {"none", "end", "error", "refused"}]
      BY <1>1
    <2>7. looking \in 0 .. Len(order) + 1 /\ ended \in SUBSET DOMAIN started
      BY <1>1
    <2>. QED
      BY <2>1, <2>2, <2>3, <2>4, <2>5, <2>6, <2>7 DEF RegistryTypeOK
  <1>4. RunningRegistered /\ OldestFirst
    BY <1>2 DEF RunningRegistered, OldestFirst
  <1>5. NamedRight /\ SubscribedTo
    BY <1>1 DEF NamedRight, SubscribedTo
  <1>6. EndedFinished /\ PassedBy
    BY <1>1 DEF EndedFinished, PassedBy, ManagerFree
  <1>. QED
    BY <1>3, <1>4, <1>5, <1>6 DEF RegistryInv

\* What stays when a step leaves the registry's map and order alone, forgets the
\* outcome of no session and starts none.
LEMMA SteadyInv ==
    ASSUME RegistryInv, UNCHANGED <<sessions, order, ended>>,
           looking' \in 0 .. Len(order) + 1, PassedBy',
           started' \in Seq([id : Ids, state : {"running", "done", "failed"}]),
           Len(started') = Len(started),
           \A n \in DOMAIN started : /\ started'[n].id = started[n].id
                                     /\ HasFinished(n) => HasFinished(n)',
           handler' \in [Connections -> {"away", "starting", "asked", "streaming", "gone"}],
           sub' \in [Connections -> 0 .. Len(started)],
           found' \in [Connections -> 0 .. Len(started)],
           frame' \in [Connections -> {"none", "end", "error", "refused"}],
           SubscribedTo'
    PROVE  RegistryInv'
  <1>1. /\ sessions \in [Ids -> 0 .. Len(started)] /\ Len(started) \in Nat
        /\ order \in Seq(Ids) /\ IsInjective(order) /\ ToSet(order) = Registered
        /\ DOMAIN started = 1 .. Len(started)
    BY DEF RegistryInv, RegistryTypeOK
  <1>2. Registered' = Registered /\ DOMAIN started' = DOMAIN started
    <2>1. DOMAIN started' = 1 .. Len(started')
      OBVIOUS
    <2>. QED
      BY <1>1, <2>1 DEF Registered
  <1>3. RegistryTypeOK'
    <2>1. looking' \in 0 .. Len(order') + 1 /\ ended' \in SUBSET DOMAIN started'
      BY <1>2 DEF RegistryInv, RegistryTypeOK
    <2>. QED
      BY <1>1, <1>2, <2>1, Zenon DEF RegistryTypeOK
  <1>4. RunningRegistered'
    <2>1. \A n \in DOMAIN started : ~ HasFinished(n) => sessions[started[n].id] = n
      BY DEF RegistryInv, RunningRegistered
    <2>2. \A n \in DOMAIN started' : ~ HasFinished(n)' => sessions'[started'[n].id] = n
      BY <1>2, <2>1, Zenon
    <2>. QED
      BY <2>2 DEF RunningRegistered, HasFinished
  <1>5. NamedRight'
    <2> SUFFICES ASSUME NEW id \in Ids, sessions'[id] # 0
                 PROVE  started'[sessions'[id]].id = id
      BY DEF NamedRight
    <2>1. sessions' = sessions /\ sessions[id] \in DOMAIN started
      BY <1>1
    <2>. QED
      BY <2>1 DEF RegistryInv, NamedRight
  <1>6. OldestFirst'
    BY DEF RegistryInv, OldestFirst
  <1>7. EndedFinished'
    <2>1. \A n \in ended : HasFinished(n) /\ n \in DOMAIN started
      BY DEF RegistryInv, EndedFinished, RegistryTypeOK
    <2>2. \A n \in ended : HasFinished(n)'
      BY <2>1
    <2>. QED
      BY <2>2, Zenon DEF EndedFinished
  <1>. QED
    BY <1>3, <1>4, <1>5, <1>6, <1>7 DEF RegistryInv

\* Start, up to the prune.
LEMMA RegisterInv ==
    ASSUME RegistryInv, NEW id \in Ids, sessions[id] = 0, Register(id)
    PROVE  /\ sessions' \in [Ids -> 0 .. Len(started')]
           /\ order' \in Seq(Ids) /\ IsInjective(order') /\ ToSet(order') = Registered'
           /\ started' \in Seq([id : Ids, state : {"running", "done", "failed"}])
           /\ Len(started') = Len(started) + 1
           /\ looking' \in 0 .. Len(order') + 1 /\ ended' \in SUBSET DOMAIN started'
           /\ RunningRegistered' /\ NamedRight' /\ OldestFirst'
           /\ EndedFinished' /\ PassedBy'
  <1> DEFINE R == [id : Ids, state : {"running", "done", "failed"}]
             n == Len(started) + 1
             last == Len(order) + 1
             e == [id |-> id, state |-> "running"]
  <1>1. /\ sessions' = [sessions EXCEPT ![id] = n] /\ order' = Append(order, id)
        /\ started' = Append(started, e) /\ looking' = 1
        /\ ended' = {m \in DOMAIN started : HasFinished(m)}
    BY DEF Register
  <1>2. /\ order \in Seq(Ids) /\ IsInjective(order) /\ ToSet(order) = Registered
        /\ sessions \in [Ids -> 0 .. Len(started)] /\ Len(started) \in Nat
        /\ started \in Seq(R) /\ DOMAIN started = 1 .. Len(started)
        /\ Len(order) \in Nat /\ DOMAIN order = 1 .. Len(order)
    BY DEF RegistryInv, RegistryTypeOK
  <1>3. e \in R /\ e.id = id /\ e.state = "running"
    OBVIOUS
  <1> HIDE DEF e, R
  <1>4. /\ started' \in Seq(R) /\ Len(started') = n /\ DOMAIN started' = 1 .. n
        /\ started'[n] = e /\ \A m \in 1 .. Len(started) : started'[m] = started[m]
    BY <1>1, <1>2, <1>3
  <1>5. /\ order' \in Seq(Ids) /\ Len(order') = last /\ DOMAIN order' = 1 .. last
        /\ order'[last] = id /\ \A i \in 1 .. Len(order) : order'[i] = order[i]
    BY <1>1, <1>2
  <1>6. \A i \in 1 .. Len(order) : order[i] \in Ids /\ sessions[order[i]] # 0 /\ order[i] # id
    BY <1>2 DEF ToSet, Registered
  <1>7. /\ n \in Nat /\ n # 0 /\ sessions'[id] = n
        /\ \A i \in Ids : i # id => sessions'[i] = sessions[i] /\ sessions'[i] < n
    BY <1>1, <1>2
  <1>8. /\ \A i \in 1 .. last : i = last \/ i \in 1 .. Len(order)
        /\ last \in 1 .. last /\ 1 .. Len(order) \subseteq 1 .. last
        /\ \A m \in 1 .. n : m = n \/ m \in 1 .. Len(started)
        /\ 1 .. Len(started) \subseteq 1 .. n /\ 0 .. Len(started) \subseteq 0 .. n /\ n \in 0 .. n
        /\ 1 \in 0 .. last + 1
    BY <1>2
  <1>9. sessions' \in [Ids -> 0 .. n]
    BY <1>1, <1>2, <1>8
  <1> HIDE DEF n, last
  <1>10. IsInjective(order')
    <2> SUFFICES ASSUME NEW i \in 1 .. last, NEW j \in 1 .. last, order'[i] = order'[j]
                 PROVE  i = j
      BY <1>5 DEF IsInjective
    <2>1. CASE i = last \/ j = last
      BY <1>5, <1>6, <1>8, <2>1
    <2>2. CASE i # last /\ j # last
      <3>1. i \in 1 .. Len(order) /\ j \in 1 .. Len(order)
        BY <1>8, <2>2
      <3>2. order[i] = order[j]
        BY <1>5, <3>1
      <3>. QED
        BY <1>2, <3>1, <3>2 DEF IsInjective
    <2>. QED
      BY <2>1, <2>2
  <1>11. ToSet(order') = Registered'
    <2>1. ASSUME NEW x \in ToSet(order')  PROVE x \in Registered'
      BY <1>5, <1>6, <1>7, <1>8 DEF ToSet, Registered
    <2>2. ASSUME NEW x \in Registered'  PROVE x \in ToSet(order')
      <3>1. CASE x = id
        BY <1>5, <1>8, <3>1 DEF ToSet
      <3>2. CASE x # id
        <4>1. x \in ToSet(order)
          BY <1>2, <1>7, <2>2, <3>2 DEF Registered
        <4>2. PICK i \in 1 .. Len(order) : x = order[i]
          BY <1>2, <4>1 DEF ToSet
        <4>. QED
          BY <1>5, <1>8, <4>2 DEF ToSet
      <3>. QED
        BY <3>1, <3>2
    <2>. QED
      BY <2>1, <2>2
  <1>12. OldestFirst'
    <2> SUFFICES ASSUME NEW i \in 1 .. last, NEW j \in 1 .. last, i < j
                 PROVE  sessions'[order'[i]] < sessions'[order'[j]]
      BY <1>5 DEF OldestFirst
    <2>1. i \in 1 .. Len(order)
      BY <1>2 DEF last
    <2>2. CASE j = last
      BY <1>5, <1>6, <1>7, <2>1, <2>2
    <2>3. CASE j # last
      <3>1. j \in 1 .. Len(order)
        BY <1>8, <2>3
      <3>2. sessions[order[i]] < sessions[order[j]]
        BY <1>2, <2>1, <3>1 DEF RegistryInv, OldestFirst
      <3>. QED
        BY <1>5, <1>6, <1>7, <2>1, <3>1, <3>2
    <2>. QED
      BY <2>2, <2>3
  <1>13. RunningRegistered'
    <2> SUFFICES ASSUME NEW m \in 1 .. n, started'[m].state = "running"
                 PROVE  sessions'[started'[m].id] = m
      BY <1>4 DEF RunningRegistered, HasFinished
    <2>1. CASE m = n
      BY <1>3, <1>4, <1>7, <2>1
    <2>2. CASE m # n
      <3>1. m \in 1 .. Len(started) /\ started'[m] = started[m]
        BY <1>4, <1>8, <2>2
      <3>2. started[m] \in R
        BY <1>2, <3>1, ElementOfSeq
      <3>3. started[m].id \in Ids /\ m # 0 /\ ~ HasFinished(m)
        BY <3>1, <3>2 DEF R, HasFinished
      <3>4. sessions[started[m].id] = m
        BY <1>2, <3>1, <3>3 DEF RegistryInv, RunningRegistered
      <3>. QED
        BY <1>7, <3>1, <3>3, <3>4
    <2>. QED
      BY <2>1, <2>2
  <1>14. NamedRight'
    <2> SUFFICES ASSUME NEW i \in Ids, sessions'[i] # 0
                 PROVE  started'[sessions'[i]].id = i
      BY DEF NamedRight
    <2>1. CASE i = id
      BY <1>3, <1>4, <1>7, <2>1
    <2>2. CASE i # id
      <3>1. sessions'[i] = sessions[i] /\ sessions[i] \in 1 .. Len(started)
        BY <1>2, <1>7, <2>2
      <3>2. started[sessions[i]].id = i
        BY <3>1 DEF RegistryInv, NamedRight
      <3>. QED
        BY <1>4, <3>1, <3>2
    <2>. QED
      BY <2>1, <2>2
  <1>15. EndedFinished' /\ ended' \in SUBSET DOMAIN started'
    <2>1. \A m \in ended' : m \in 1 .. Len(started) /\ started[m].state # "running"
      BY <1>1, <1>2 DEF HasFinished
    <2>2. \A m \in ended' : started'[m].state # "running" /\ m \in 1 .. n
      BY <1>4, <1>8, <2>1
    <2>. QED
      BY <1>4, <2>2 DEF EndedFinished, HasFinished
  <1>16. PassedBy'
    BY <1>1, <1>5 DEF PassedBy, last
  <1>17. looking' \in 0 .. Len(order') + 1
    BY <1>1, <1>5, <1>8
  <1>18. Len(started') = Len(started) + 1
    BY <1>4 DEF n
  <1>. QED
    BY <1>4, <1>5, <1>9, <1>10, <1>11, <1>12, <1>13, <1>14, <1>15, <1>16, <1>17, <1>18 DEF R

\* A session that has finished leaves the registry.
LEMMA EvictInv ==
    ASSUME RegistryInv, UNCHANGED <<started, ended, handlerVars>>, looking \in DOMAIN order,
           HasFinished(sessions[order[looking]]), Evict(looking)
    PROVE  RegistryInv'
  <1> DEFINE old == order[looking]
  <1>1. /\ sessions' = [sessions EXCEPT ![old] = 0]
        /\ order' = RemoveAt(order, looking) /\ looking' = looking
    BY DEF Evict
  <1>2. /\ order \in Seq(Ids) /\ IsInjective(order) /\ ToSet(order) = Registered
        /\ sessions \in [Ids -> 0 .. Len(started)] /\ Len(started) \in Nat
        /\ Len(order) \in Nat /\ DOMAIN order = 1 .. Len(order)
        /\ started \in Seq([id : Ids, state : {"running", "done", "failed"}])
    BY DEF RegistryInv, RegistryTypeOK
  <1>3. old \in Ids /\ HasFinished(sessions[old])
    BY <1>2
  <1> DEFINE r == RemoveAt(order, looking)
  <1>4. /\ r \in Seq(Ids) /\ Len(r) = Len(order) - 1
        /\ IsInjective(r) /\ ToSet(r) = ToSet(order) \ {old}
        /\ \A j \in 1 .. looking - 1 : r[j] = order[j]
        /\ \A a, b \in DOMAIN r :
              a < b => \E j, k \in DOMAIN order : j < k /\ r[a] = order[j] /\ r[b] = order[k]
    <2>1. order \in Seq(Ids) /\ IsInjective(order) /\ looking \in DOMAIN order
      BY <1>2
    <2>2. RemoveAt(order, looking) \in Seq(Ids) /\ Len(RemoveAt(order, looking)) = Len(order) - 1
      BY <2>1, RemovalKeeps
    <2>3. /\ IsInjective(RemoveAt(order, looking))
          /\ ToSet(RemoveAt(order, looking)) = ToSet(order) \ {order[looking]}
      BY <2>1, RemovalKeeps
    <2>4. \A j \in 1 .. looking - 1 : RemoveAt(order, looking)[j] = order[j]
      BY <2>1, RemovalKeeps
    <2>5. ASSUME NEW a \in DOMAIN RemoveAt(order, looking),
                 NEW b \in DOMAIN RemoveAt(order, looking), a < b
          PROVE  \E j, k \in DOMAIN order : /\ j < k
                                             /\ RemoveAt(order, looking)[a] = order[j]
                                             /\ RemoveAt(order, looking)[b] = order[k]
      BY <2>1, <2>5, RemovalKeeps
    <2>. QED
      BY <2>2, <2>3, <2>4, <2>5
  <1>5. order' = r
    BY <1>1
  <1> HIDE DEF r, old
  <1>6. sessions'[old] = 0 /\ \A i \in Ids : i # old => sessions'[i] = sessions[i]
    BY <1>1, <1>2, <1>3
  <1>7. \A i \in DOMAIN r : r[i] \in Ids /\ r[i] # old
    <2>1. \A i \in DOMAIN r : r[i] \in ToSet(r)
      BY DEF ToSet
    <2>2. \A i \in DOMAIN r : r[i] \in Registered /\ r[i] # old
      BY <1>2, <1>4, <2>1
    <2>. QED
      BY <2>2 DEF Registered
  <1>8. RegistryTypeOK'
    <2>1. sessions' \in [Ids -> 0 .. Len(started)]
      <3>1. 0 \in 0 .. Len(started)
        BY <1>2
      <3>. QED
        BY <1>1, <1>2, <1>3, <3>1
    <2>2. ToSet(order') = Registered'
      BY <1>2, <1>3, <1>4, <1>5, <1>6 DEF Registered
    <2>3. looking' \in 0 .. Len(order') + 1
      <3>1. looking \in 1 .. Len(order) /\ Len(r) = Len(order) - 1 /\ looking' = looking
        BY <1>1, <1>2, <1>4
      <3>. QED
        BY <1>2, <1>5, <3>1
    <2>4. UNCHANGED <<started, ended, handler, sub, found, frame>>
      BY DEF handlerVars
    <2>. QED
      BY <1>4, <1>5, <2>1, <2>2, <2>3, <2>4, Zenon DEF RegistryInv, RegistryTypeOK
  <1>9. RunningRegistered'
    <2> SUFFICES ASSUME NEW m \in DOMAIN started, ~ HasFinished(m)
                 PROVE  sessions'[started[m].id] = m
      BY DEF RunningRegistered, HasFinished
    <2>1. started[m] \in [id : Ids, state : {"running", "done", "failed"}]
      <3>1. m \in 1 .. Len(started)
        OBVIOUS
      <3>. QED
        BY <1>2, <3>1, ElementOfSeq
    <2>2. sessions[started[m].id] = m /\ started[m].id \in Ids
      BY <2>1 DEF RegistryInv, RunningRegistered
    <2>3. started[m].id # old
      BY <1>3, <2>2
    <2>. QED
      BY <1>6, <2>2, <2>3
  <1>10. NamedRight'
    BY <1>6, Zenon DEF RegistryInv, NamedRight
  <1>11. OldestFirst'
    <2> SUFFICES ASSUME NEW a \in DOMAIN r, NEW b \in DOMAIN r, a < b
                 PROVE  sessions'[r[a]] < sessions'[r[b]]
      BY <1>5 DEF OldestFirst
    <2>1. PICK j \in DOMAIN order, k \in DOMAIN order : j < k /\ r[a] = order[j] /\ r[b] = order[k]
      BY <1>4
    <2>2. sessions[r[a]] < sessions[r[b]]
      BY <2>1 DEF RegistryInv, OldestFirst
    <2>. QED
      BY <1>6, <1>7, <2>2
  <1>12. PassedBy'
    <2> SUFFICES ASSUME ~ ManagerFree, NEW i \in DOMAIN r, i < looking
                 PROVE  sessions'[r[i]] \notin ended
      BY <1>1, <1>5 DEF PassedBy, ManagerFree
    <2>1. i \in 1 .. looking - 1 /\ i \in DOMAIN order
      BY <1>2, <1>4
    <2>2. r[i] = order[i] /\ sessions'[r[i]] = sessions[r[i]]
      BY <1>4, <1>6, <1>7, <2>1
    <2>. QED
      BY <2>1, <2>2 DEF RegistryInv, PassedBy
  <1>13. SubscribedTo' /\ EndedFinished'
    BY Zenon DEF RegistryInv, SubscribedTo, EndedFinished, HasFinished, handlerVars
  <1>. QED
    BY <1>8, <1>9, <1>10, <1>11, <1>12, <1>13 DEF RegistryInv

LEMMA NextRegistryInv == RegistryInv /\ [RegistryNext]_registryVars => RegistryInv'
  <1> SUFFICES ASSUME RegistryInv, [RegistryNext]_registryVars  PROVE RegistryInv'
    OBVIOUS
  <1> USE DEF handlerVars, pruneVars
  <1> DEFINE R == [id : Ids, state : {"running", "done", "failed"}]
  <1>0. /\ sessions \in [Ids -> 0 .. Len(started)] /\ Len(started) \in Nat
        /\ started \in Seq(R) /\ DOMAIN started = 1 .. Len(started)
        /\ handler \in [Connections -> {"away", "starting", "asked", "streaming", "gone"}]
        /\ sub \in [Connections -> 0 .. Len(started)]
        /\ found \in [Connections -> 0 .. Len(started)]
        /\ frame \in [Connections -> {"none", "end", "error", "refused"}]
        /\ \A c \in Connections : handler[c] \in {"starting", "asked", "streaming"} => sub[c] # 0
        /\ looking \in 0 .. Len(order) + 1 /\ Len(order) \in Nat
        /\ DOMAIN order = 1 .. Len(order)
    BY DEF RegistryInv, RegistryTypeOK, SubscribedTo
  <1>00. looking' = looking /\ UNCHANGED <<sessions, order, ended>> => PassedBy'
    BY Zenon DEF RegistryInv, PassedBy, ManagerFree
  <1>1. CASE UNCHANGED <<sessions, order, looking, started, ended, handler, sub, found, frame>>
    <2>1. SubscribedTo'
      BY <1>0, <1>1, Zenon DEF SubscribedTo
    <2>. QED
      BY <1>0, <1>1, <2>1, <1>00, SteadyInv DEF HasFinished
  <1>2. ASSUME NEW n \in DOMAIN started, FinishRun(n)  PROVE RegistryInv'
    <2>1. PICK outcome \in {"done", "failed"} : started' = [started EXCEPT ![n].state = outcome]
      BY <1>2 DEF FinishRun
    <2>2. UNCHANGED <<sessions, order, looking, ended, handler, sub, found, frame>>
      BY <1>2 DEF FinishRun
    <2>3. started[n] \in R
      BY <1>0, ElementOfSeq
    <2> DEFINE e == [started[n] EXCEPT !.state = outcome]
    <2>4. e \in R /\ e.id = started[n].id /\ e.state = outcome
      BY <2>3
    <2>5. started' = [started EXCEPT ![n] = e]
      BY <2>1
    <2> HIDE DEF e, R
    <2>6. /\ started' \in Seq(R) /\ Len(started') = Len(started)
          /\ \A m \in DOMAIN started : started'[m] = IF m = n THEN e ELSE started[m]
      BY <1>0, <2>4, <2>5
    <2>7. \A m \in DOMAIN started : started'[m].id = started[m].id
      BY <2>4, <2>6
    <2>8. \A m \in DOMAIN started : HasFinished(m) => HasFinished(m)'
      BY <2>4, <2>6 DEF HasFinished
    <2>9. SubscribedTo'
      BY <1>0, <2>2, Zenon DEF SubscribedTo
    <2>. QED
      BY <1>0, <2>2, <2>6, <2>7, <2>8, <2>9, <1>00, SteadyInv DEF R
  <1>3. ASSUME NEW c \in Connections, NEW id \in Ids, HandleRun(c, id)  PROVE RegistryInv'
    <2>1. CASE sessions[id] # 0
      <3>1. /\ UNCHANGED <<sessions, order, looking, ended, started, sub, found>>
            /\ handler' = [handler EXCEPT ![c] = "gone"]
            /\ frame' = [frame EXCEPT ![c] = "refused"]
        BY <1>3, <2>1 DEF HandleRun, RefuseClient
      <3>2. SubscribedTo'
        BY <1>0, <3>1 DEF SubscribedTo
      <3>3. /\ handler' \in [Connections -> {"away", "starting", "asked", "streaming", "gone"}]
            /\ frame' \in [Connections -> {"none", "end", "error", "refused"}]
        BY <1>0, <3>1
      <3>. QED
        BY <1>0, <3>1, <3>2, <3>3, <1>00, SteadyInv DEF HasFinished
    <2>2. CASE sessions[id] = 0
      <3>1. /\ Register(id)
            /\ handler' = [handler EXCEPT ![c] = "starting"]
            /\ sub' = [sub EXCEPT ![c] = Len(started')]
            /\ found' = [found EXCEPT ![c] = Len(started')]
            /\ frame' = frame
        BY <1>3, <2>2 DEF HandleRun
      <3>2. /\ sessions' \in [Ids -> 0 .. Len(started')]
            /\ order' \in Seq(Ids) /\ IsInjective(order') /\ ToSet(order') = Registered'
            /\ started' \in Seq(R) /\ Len(started') = Len(started) + 1
            /\ looking' \in 0 .. Len(order') + 1 /\ ended' \in SUBSET DOMAIN started'
            /\ RunningRegistered' /\ NamedRight' /\ OldestFirst'
            /\ EndedFinished' /\ PassedBy'
        BY <2>2, <3>1, RegisterInv
      <3>3. handler' \in [Connections -> {"away", "starting", "asked", "streaming", "gone"}]
        BY <1>0, <3>1
      <3>4. /\ sub' \in [Connections -> 0 .. Len(started')]
            /\ found' \in [Connections -> 0 .. Len(started')]
        <4> DEFINE n == Len(started')
        <4>1. /\ n = Len(started) + 1 /\ sub' = [sub EXCEPT ![c] = n]
              /\ found' = [found EXCEPT ![c] = n]
          BY <3>1, <3>2
        <4> HIDE DEF n
        <4>2. n \in 0 .. n /\ 0 .. Len(started) \subseteq 0 .. n
          BY <1>0, <4>1
        <4>3. sub' \in [Connections -> 0 .. n]
          BY <1>0, <4>1, <4>2
        <4>4. found' \in [Connections -> 0 .. n]
          BY <1>0, <4>1, <4>2
        <4>. QED
          BY <4>3, <4>4 DEF n
      <3>5. frame' \in [Connections -> {"none", "end", "error", "refused"}]
        BY <1>0, <3>1
      <3>6. SubscribedTo'
        <4>1. Len(started') # 0
          BY <1>0, <3>2
        <4>2. \A d \in Connections : sub'[d] = IF d = c THEN Len(started') ELSE sub[d]
          BY <1>0, <3>1
        <4>3. \A d \in Connections : d # c => handler'[d] = handler[d]
          BY <1>0, <3>1
        <4>. QED
          BY <1>0, <4>1, <4>2, <4>3 DEF SubscribedTo
      <3>7. RegistryTypeOK'
        BY <3>2, <3>3, <3>4, <3>5, Zenon DEF RegistryTypeOK
      <3>. QED
        BY <3>2, <3>6, <3>7 DEF RegistryInv
    <2>. QED
      BY <2>1, <2>2
  <1>4. ASSUME NEW c \in Connections, NEW id \in Ids, HandleAttach(c, id)  PROVE RegistryInv'
    <2>1. UNCHANGED <<sessions, order, looking, ended, started, found>>
      BY <1>4 DEF HandleAttach, RefuseClient
    <2>2. handler' \in [Connections -> {"away", "starting", "asked", "streaming", "gone"}]
      BY <1>0, <1>4 DEF HandleAttach, RefuseClient
    <2>3. sub' \in [Connections -> 0 .. Len(started)]
      <3>1. sessions[id] \in 0 .. Len(started)
        BY <1>0
      <3>2. sub' = sub \/ sub' = [sub EXCEPT ![c] = sessions[id]]
        BY <1>4 DEF HandleAttach, RefuseClient
      <3>. QED
        BY <1>0, <3>1, <3>2
    <2>4. frame' \in [Connections -> {"none", "end", "error", "refused"}]
      BY <1>0, <1>4 DEF HandleAttach, RefuseClient
    <2>5. SubscribedTo'
      BY <1>0, <1>4 DEF HandleAttach, RefuseClient, SubscribedTo
    <2>. QED
      BY <1>0, <2>1, <2>2, <2>3, <2>4, <2>5, <1>00, SteadyInv DEF HasFinished
  <1>5. ASSUME NEW c \in Connections, LookUpAgain(c)  PROVE RegistryInv'
    <2>1. /\ UNCHANGED <<sessions, order, looking, ended, started, sub, frame>>
          /\ handler' = [handler EXCEPT ![c] = "streaming"]
          /\ found' = [found EXCEPT ![c] = sessions[started[sub[c]].id]]
          /\ handler[c] = "asked"
      BY <1>5 DEF LookUpAgain
    <2>2. sub[c] \in 1 .. Len(started)
      BY <1>0, <2>1
    <2>3. started[sub[c]] \in R
      BY <1>0, <2>2, ElementOfSeq
    <2>4. started[sub[c]].id \in Ids
      BY <2>3
    <2>5. found' \in [Connections -> 0 .. Len(started)]
      BY <1>0, <2>1, <2>4
    <2>6. handler' \in [Connections -> {"away", "starting", "asked", "streaming", "gone"}]
      BY <1>0, <2>1
    <2>7. SubscribedTo'
      BY <1>0, <2>1 DEF SubscribedTo
    <2>. QED
      BY <1>0, <2>1, <2>5, <2>6, <2>7, <1>00, SteadyInv DEF HasFinished
  <1>6. ASSUME NEW c \in Connections, FinishStream(c) \/ Disconnect(c)  PROVE RegistryInv'
    <2>1. UNCHANGED <<sessions, order, looking, ended, started, sub, found>>
      BY <1>6 DEF FinishStream, Disconnect
    <2>2. handler' = [handler EXCEPT ![c] = "gone"]
      BY <1>6 DEF FinishStream, Disconnect
    <2>3. handler' \in [Connections -> {"away", "starting", "asked", "streaming", "gone"}]
      BY <1>0, <2>2
    <2>4. frame' \in [Connections -> {"none", "end", "error", "refused"}]
      BY <1>0, <1>6 DEF FinishStream, Disconnect
    <2>5. SubscribedTo'
      BY <1>0, <2>1, <2>2 DEF SubscribedTo
    <2>. QED
      BY <1>0, <2>1, <2>3, <2>4, <2>5, <1>00, SteadyInv DEF HasFinished
  <1>9. ASSUME NEW c \in Connections, Prune(c)  PROVE RegistryInv'
    <2>1. UNCHANGED <<started, ended, handler, sub, found, frame>> /\ looking \in DOMAIN order
      BY <1>9 DEF Prune
    <2>2. CASE HasFinished(sessions[order[looking]]) /\ Evict(looking)
      BY <2>1, <2>2, EvictInv
    <2>3. CASE /\ ~ HasFinished(sessions[order[looking]])
               /\ looking' = looking + 1 /\ UNCHANGED <<sessions, order>>
      <3>1. sessions[order[looking]] \notin ended
        BY <2>3 DEF RegistryInv, EndedFinished
      <3>2. looking' \in 0 .. Len(order) + 1 /\ \A i \in DOMAIN order : i < looking + 1 => i = looking \/ i < looking
        BY <1>0, <2>1, <2>3
      <3>3. ~ ManagerFree
        BY <1>0, <2>1 DEF ManagerFree
      <3>4. PassedBy'
        BY <2>1, <2>3, <3>1, <3>2, <3>3, Zenon DEF RegistryInv, PassedBy
      <3>5. SubscribedTo'
        BY <1>0, <2>1, Zenon DEF SubscribedTo
      <3>. QED
        BY <1>0, <2>1, <2>3, <3>2, <3>4, <3>5, SteadyInv DEF HasFinished
    <2>. QED
      BY <1>9, <2>2, <2>3 DEF Prune
  <1>10. ASSUME NEW c \in Connections, StartReturns(c)  PROVE RegistryInv'
    <2>1. /\ UNCHANGED <<sessions, order, started, ended, sub, found, frame>>
          /\ handler[c] = "starting" /\ handler' = [handler EXCEPT ![c] = "streaming"]
          /\ looking' = 0
      BY <1>10 DEF StartReturns
    <2>2. handler' \in [Connections -> {"away", "starting", "asked", "streaming", "gone"}]
      BY <1>0, <2>1
    <2>3. PassedBy' /\ looking' \in 0 .. Len(order) + 1
      BY <1>0, <2>1 DEF PassedBy, ManagerFree
    <2>4. SubscribedTo'
      BY <1>0, <2>1 DEF SubscribedTo
    <2>. QED
      BY <1>0, <2>1, <2>2, <2>3, <2>4, SteadyInv DEF HasFinished
  <1>7. CASE UNCHANGED registryVars
    BY <1>1, <1>7 DEF registryVars
  <1>8. CASE RegistryNext
    BY <1>2, <1>3, <1>4, <1>5, <1>6, <1>8, <1>9, <1>10, Zenon DEF RegistryNext
  <1>. QED
    BY <1>7, <1>8

\* An id runs once, a session that runs is found under its id, and the order
\* holds what is registered, oldest first.
THEOREM RegistryInvariant == RegistrySpec => []RegistryInv
BY InitRegistryInv, NextRegistryInv, PTL DEF RegistrySpec

\* session.go: the types of the registry, and that m.order and m.sessions hold
\* the same ids.
THEOREM RegistryTypes == RegistrySpec => []RegistryTypeOK
  <1>1. RegistryInv => RegistryTypeOK
    BY DEF RegistryInv
  <1>. QED
    BY <1>1, RegistryInvariant, PTL


\* session.go, Start and pruneLocked: a session that runs stays registered under
\* its id; a start evicts sessions that have finished, the oldest that could go,
\* down to the cap, however sessions finish while it asks them.
THEOREM Retained == RegistrySpec => SessionsRetained
  <1> DEFINE A == /\ \A n \in DOMAIN started :
                       sessions[started[n].id] = n /\ sessions'[started[n].id] # n =>
                          /\ HasFinished(n) /\ TooMany
                          /\ \A id \in Registered : sessions[id] < n => sessions[id] \notin ended
                  /\ ~ ManagerFree /\ ManagerFree' =>
                       \/ ~ TooMany
                       \/ \A id \in Registered : sessions[id] \notin ended
  <1>1. RegistryInv => RunningRegistered
    BY DEF RegistryInv
  <1>2. ASSUME RegistryInv, [RegistryNext]_registryVars  PROVE [A]_registryVars
    <2>0. /\ order \in Seq(Ids) /\ ToSet(order) = Registered /\ looking \in 0 .. Len(order) + 1
          /\ sessions \in [Ids -> 0 .. Len(started)] /\ Len(started) \in Nat
          /\ DOMAIN started = 1 .. Len(started) /\ Len(order) \in Nat
          /\ DOMAIN order = 1 .. Len(order)
          /\ started \in Seq([id : Ids, state : {"running", "done", "failed"}])
      BY <1>2 DEF RegistryInv, RegistryTypeOK
    <2>1. ASSUME NEW id \in Registered  PROVE \E i \in DOMAIN order : order[i] = id
      BY <2>0 DEF ToSet
    <2>2. ASSUME sessions' = sessions, looking' = looking  PROVE A
      BY <2>2, Zenon DEF ManagerFree
    <2>3. ASSUME NEW n \in DOMAIN started, FinishRun(n)  PROVE A
      BY <2>2, <2>3, Zenon DEF FinishRun, pruneVars
    <2>4. ASSUME NEW c \in Connections, NEW id \in Ids, HandleRun(c, id)  PROVE A
      <3>1. CASE sessions[id] # 0
        BY <2>2, <2>4, <3>1 DEF HandleRun, pruneVars
      <3>2. CASE sessions[id] = 0
        <4>1. sessions' = [sessions EXCEPT ![id] = Len(started) + 1] /\ looking' = 1
          BY <2>4, <3>2 DEF HandleRun, Register
        <4>2. \A n \in DOMAIN started : started[n] \in [id : Ids, state : {"running", "done", "failed"}]
          BY <2>0, ElementOfSeq
        <4>3. \A n \in DOMAIN started : n # 0 /\ started[n].id \in Ids
          BY <2>0, <4>2
        <4>4. \A n \in DOMAIN started : sessions[started[n].id] = n => sessions'[started[n].id] = n
          BY <2>0, <3>2, <4>1, <4>3
        <4>. QED
          BY <4>1, <4>4 DEF ManagerFree
      <3>. QED
        BY <3>1, <3>2
    <2>5. ASSUME NEW c \in Connections, NEW id \in Ids, HandleAttach(c, id)  PROVE A
      BY <2>2, <2>5, Zenon DEF HandleAttach, pruneVars
    <2>6. ASSUME NEW c \in Connections, LookUpAgain(c) \/ FinishStream(c) \/ Disconnect(c)
          PROVE  A
      BY <2>2, <2>6, Zenon DEF LookUpAgain, FinishStream, Disconnect, pruneVars
    <2>7. ASSUME NEW c \in Connections, Prune(c)  PROVE A
      <3>1. TooMany /\ looking \in DOMAIN order
        BY <2>7 DEF Prune
      <3>2. ~ ManagerFree /\ (looking' = looking \/ looking' = looking + 1)
        BY <2>0, <2>7, <3>1 DEF Prune, Evict, ManagerFree
      <3>3. ~ ManagerFree'
        BY <2>0, <3>1, <3>2 DEF ManagerFree
      <3>4. ASSUME NEW n \in DOMAIN started, sessions[started[n].id] = n,
                   sessions'[started[n].id] # n
            PROVE  /\ HasFinished(n)
                   /\ \A id \in Registered : sessions[id] < n => sessions[id] \notin ended
        <4>1. sessions' # sessions
          BY <3>4
        <4>2. HasFinished(sessions[order[looking]]) /\ Evict(looking)
          BY <2>7, <4>1 DEF Prune
        <4>3. order[looking] \in Ids
          BY <2>0, <3>1
        <4>4. started[n] \in [id : Ids, state : {"running", "done", "failed"}]
          BY <2>0, ElementOfSeq
        <4>5. started[n].id = order[looking]
          <5>1. started[n].id \in Ids /\ sessions' = [sessions EXCEPT ![order[looking]] = 0]
            BY <4>2, <4>4 DEF Evict
          <5>. QED
            BY <2>0, <3>4, <4>3, <5>1
        <4>6. ASSUME NEW id \in Registered, sessions[id] < n  PROVE sessions[id] \notin ended
          <5>1. PICK i \in DOMAIN order : order[i] = id
            BY <2>1
          <5>2. ~ (looking < i) /\ i # looking
            <6>1. looking < i => sessions[order[looking]] < sessions[order[i]]
              BY <1>2, <3>1, <5>1 DEF RegistryInv, OldestFirst
            <6>2. sessions[order[looking]] = n /\ sessions[order[i]] < n
              BY <3>4, <4>5, <4>6, <5>1
            <6>3. n \in Nat /\ sessions[order[i]] \in Nat
              BY <2>0, <4>6, <5>1 DEF Registered
            <6>. QED
              BY <6>1, <6>2, <6>3
          <5>3. i < looking
            BY <2>0, <5>1, <5>2
          <5>. QED
            BY <1>2, <3>2, <5>1, <5>3 DEF RegistryInv, PassedBy
        <4>. QED
          BY <3>4, <4>2, <4>5, <4>6
      <3>. QED
        BY <3>1, <3>3, <3>4
    <2>8. ASSUME NEW c \in Connections, StartReturns(c)  PROVE A
      <3>1. sessions' = sessions /\ (~ TooMany \/ looking \notin DOMAIN order)
        BY <2>8 DEF StartReturns
      <3>2. ASSUME ~ ManagerFree, TooMany, NEW id \in Registered  PROVE sessions[id] \notin ended
        <4>1. PICK i \in DOMAIN order : order[i] = id
          BY <2>1
        <4>2. i < looking
          BY <2>0, <3>1, <3>2, <4>1 DEF ManagerFree
        <4>. QED
          BY <1>2, <3>2, <4>1, <4>2 DEF RegistryInv, PassedBy
      <3>. QED
        BY <3>1, <3>2, Zenon
    <2>9. CASE UNCHANGED registryVars
      BY <2>9
    <2> HIDE DEF A
    <2>10. CASE RegistryNext
      BY <2>3, <2>4, <2>5, <2>6, <2>7, <2>8, <2>10, Zenon DEF RegistryNext
    <2>. QED
      BY <1>2, <2>9, <2>10
  <1>3. RegistrySpec => []RunningRegistered
    BY <1>1, RegistryInvariant, PTL
  <1>4. RegistrySpec => EvictionInTurn
    BY <1>2, RegistryInvariant, PTL DEF RegistrySpec, EvictionInTurn
  <1>. QED
    BY <1>3, <1>4, PTL DEF SessionsRetained
=============================================================================
