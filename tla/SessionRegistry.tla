---------------------------- MODULE SessionRegistry ----------------------------
(***************************************************************************)
(* internal/daemon: the registry of sessions (session.go SessionManager)   *)
(* and the handlers that run and attach (server.go).  The registry keeps   *)
(* what is running and a bounded number of sessions that have finished,    *)
(* so an id can be forgotten, and run again, while a client still streams  *)
(* the earlier session of that id.                                         *)
(*                                                                         *)
(* A session is numbered by its start.  A start registers its session and  *)
(* prunes within one critical section of SessionManager.mu, but pruneLocked*)
(* asks each session by itself whether it has finished (Session.mu), and   *)
(* sessions finish without the manager's lock: each question is a step.    *)
(* What else takes the manager's lock waits until the start has returned.  *)
(***************************************************************************)
EXTENDS Integers, Sequences, FiniteSets, SequencesExt

CONSTANTS
    Ids,           \* session ids clients ask for
    Connections,   \* clients' connections
    MaxSessions,   \* SessionManager.maxSessions
    MaxStarts      \* bound: sessions started

ASSUME MaxSessionsAssumption == MaxSessions \in Nat \ {0}

VARIABLES
    sessions,   \* sessions[id]: the registered session of that id; 0 if there is none
    order,      \* SessionManager.order
    started,    \* started[n]: id and state of the n-th session
    looking,    \* the place in order pruneLocked has come to; 0 while
                \* SessionManager.mu is free
    ended,      \* history: the sessions that had finished when the last start
                \* took SessionManager.mu
    handler,    \* handler[c]: where the handler of c is
    sub,        \* sub[c]: the session c is subscribed to
    found,      \* found[c]: the session streamToClient is given; 0 for nil
    frame       \* frame[c]: how c's stream ended

handlerVars == <<handler, sub, found, frame>>
pruneVars == <<sessions, order, looking>>
registryVars == <<pruneVars, started, ended, handlerVars>>

Registered == {id \in Ids : sessions[id] # 0}
HasFinished(n) == started[n].state # "running"

RegistryTypeOK ==
    /\ sessions \in [Ids -> 0 .. Len(started)]
    /\ order \in Seq(Ids) /\ IsInjective(order) /\ ToSet(order) = Registered
    /\ started \in Seq([id : Ids, state : {"running", "done", "failed"}])
    /\ looking \in 0 .. Len(order) + 1 /\ ended \in SUBSET DOMAIN started
    /\ handler \in [Connections -> {"away", "starting", "asked", "streaming", "gone"}]
    /\ sub \in [Connections -> 0 .. Len(started)]
    /\ found \in [Connections -> 0 .. Len(started)]
    /\ frame \in [Connections -> {"none", "end", "error", "refused"}]

RegistryInit ==
    /\ sessions = [id \in Ids |-> 0]
    /\ order = <<>> /\ started = <<>> /\ looking = 0 /\ ended = {}
    /\ handler = [c \in Connections |-> "away"]
    /\ sub = [c \in Connections |-> 0]
    /\ found = [c \in Connections |-> 0]
    /\ frame = [c \in Connections |-> "none"]

-----------------------------------------------------------------------------
(* The registry.                                                             *)

ManagerFree == looking = 0
TooMany == Cardinality(Registered) > MaxSessions

\* Start registers the session, the last of the order, and begins to prune.
Register(id) ==
    /\ sessions' = [sessions EXCEPT ![id] = Len(started) + 1]
    /\ order' = Append(order, id)
    /\ started' = Append(started, [id |-> id, state |-> "running"])
    /\ looking' = 1
    /\ ended' = {n \in DOMAIN started : HasFinished(n)}

Evict(i) ==
    /\ sessions' = [sessions EXCEPT ![order[i]] = 0]
    /\ order' = RemoveAt(order, i)
    /\ UNCHANGED looking

\* Mutant: the sessions are asked in the order the map gives them.
PruneAnyOrder(c) ==
    /\ handler[c] = "starting" /\ TooMany /\ looking \in DOMAIN order
    /\ \E i \in DOMAIN order :
          \/ HasFinished(sessions[order[i]]) /\ Evict(i)
          \/ ~ HasFinished(sessions[order[i]]) /\ looking' = looking + 1
             /\ UNCHANGED <<sessions, order>>
    /\ UNCHANGED <<started, ended, handlerVars>>

\* pruneLocked comes to the next session of the order: one too many that has
\* finished goes, any other is kept.
Prune(c) ==
    /\ handler[c] = "starting" /\ TooMany /\ looking \in DOMAIN order
    /\ \/ HasFinished(sessions[order[looking]]) /\ Evict(looking)
       \/ ~ HasFinished(sessions[order[looking]]) /\ looking' = looking + 1
          /\ UNCHANGED <<sessions, order>>
    /\ UNCHANGED <<started, ended, handlerVars>>

\* Nothing is left to prune: Start gives SessionManager.mu back and returns, and
\* the run goes on by itself.
StartReturns(c) ==
    /\ handler[c] = "starting" /\ (~ TooMany \/ looking \notin DOMAIN order)
    /\ looking' = 0
    /\ handler' = [handler EXCEPT ![c] = "streaming"]
    /\ UNCHANGED <<sessions, order, started, ended, sub, found, frame>>

\* The goroutine of Start, once Start has returned: Run has returned, finish
\* stores the outcome and closes the channels of those who stream.
FinishRun(n) ==
    /\ ~ HasFinished(n) /\ (n = Len(started) => ManagerFree)
    /\ \E outcome \in {"done", "failed"} : started' = [started EXCEPT ![n].state = outcome]
    /\ UNCHANGED <<pruneVars, ended, handlerVars>>

-----------------------------------------------------------------------------
(* Handlers.                                                                 *)

RefuseClient(c) ==
    /\ handler' = [handler EXCEPT ![c] = "gone"]
    /\ frame' = [frame EXCEPT ![c] = "refused"]
    /\ UNCHANGED <<sub, found>>

\* handleRun streams the session it starts.
HandleRun(c, id) ==
    /\ handler[c] = "away" /\ ManagerFree /\ Len(started) < MaxStarts
    /\ IF sessions[id] # 0
       THEN RefuseClient(c) /\ UNCHANGED <<pruneVars, started, ended>>
       ELSE /\ Register(id)
            /\ handler' = [handler EXCEPT ![c] = "starting"]
            /\ sub' = [sub EXCEPT ![c] = Len(started')]
            /\ found' = [found EXCEPT ![c] = Len(started')]
            /\ UNCHANGED frame

\* handleAttach: Attach looks the id up and subscribes to what it finds.
HandleAttach(c, id) ==
    /\ handler[c] = "away" /\ ManagerFree
    /\ IF sessions[id] = 0
       THEN RefuseClient(c)
       ELSE /\ sub' = [sub EXCEPT ![c] = sessions[id]]
            /\ handler' = [handler EXCEPT ![c] = "asked"]
            /\ UNCHANGED <<found, frame>>
    /\ UNCHANGED <<pruneVars, started, ended>>

\* handleAttach: the session is looked up again for streamToClient.
LookUpAgain(c) ==
    /\ handler[c] = "asked" /\ ManagerFree
    /\ found' = [found EXCEPT ![c] = sessions[started[sub[c]].id]]
    /\ handler' = [handler EXCEPT ![c] = "streaming"]
    /\ UNCHANGED <<pruneVars, started, ended, sub, frame>>

\* finishStream, once the channel of the subscription is closed.
FinishStream(c) ==
    /\ handler[c] = "streaming" /\ HasFinished(sub[c])
    /\ frame' = [frame EXCEPT ![c] =
           IF found[c] # 0 /\ started[found[c]].state = "failed" THEN "error" ELSE "end"]
    /\ handler' = [handler EXCEPT ![c] = "gone"]
    /\ UNCHANGED <<pruneVars, started, ended, sub, found>>

Disconnect(c) ==
    /\ handler[c] \in {"asked", "streaming"}
    /\ handler' = [handler EXCEPT ![c] = "gone"]
    /\ UNCHANGED <<pruneVars, started, ended, sub, found, frame>>

RegistryNext ==
    \/ \E n \in DOMAIN started : FinishRun(n)
    \/ \E c \in Connections :
          \/ \E id \in Ids : HandleRun(c, id) \/ HandleAttach(c, id)
          \/ Prune(c) \/ StartReturns(c)
          \/ LookUpAgain(c) \/ FinishStream(c) \/ Disconnect(c)

RegistrySpec == RegistryInit /\ [][RegistryNext]_registryVars

-----------------------------------------------------------------------------
(* Properties.                                                               *)

\* A session that runs can be found: it is never evicted (pruneLocked), and no
\* second one is started under its id, to share its directory and its log.
RunningRegistered ==
    \A n \in DOMAIN started : ~ HasFinished(n) => sessions[started[n].id] = n

\* What a start evicts has finished, goes only while there are too many, and is
\* the oldest that can go: every older session that is still registered was
\* running when the start took the lock (it may have finished since it was
\* asked).  When the start returns, the cap is kept or all that is registered was
\* running then.
EvictionInTurn ==
    [][/\ \A n \in DOMAIN started :
             sessions[started[n].id] = n /\ sessions'[started[n].id] # n =>
                /\ HasFinished(n) /\ TooMany
                /\ \A id \in Registered : sessions[id] < n => sessions[id] \notin ended
       /\ ~ ManagerFree /\ ManagerFree' =>
             \/ ~ TooMany
             \/ \A id \in Registered : sessions[id] \notin ended]_registryVars

\* session.go's comment of SessionManager: finished sessions are retained up to
\* the cap, past which the oldest finished ones are evicted; running ones never.
SessionsRetained == []RunningRegistered /\ EvictionInTurn

\* streamToClient's comment, of every stream: it finishes "with CtrlEnd (or
\* CtrlError if the session failed)".
EveryoneToldOutcome ==
    \A c \in Connections :
        frame[c] \in {"end", "error"} => (frame[c] = "error" <=> started[sub[c]].state = "failed")
=============================================================================
