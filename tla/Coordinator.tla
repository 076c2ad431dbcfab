----------------------------- MODULE Coordinator -----------------------------
(***************************************************************************)
(* internal/swarm/coordinator.go: the in-memory task registry shared by an *)
(* orchestrator, its scheduled jobs and the goroutines that watch members. *)
(* Every method takes the registry's mutex once, so every method is one    *)
(* action.  An error return changes nothing, and the callers in            *)
(* lifecycle.go ignore it, so a call is "Try...": its effect when the      *)
(* registry accepts it, a stutter of the registry when it refuses.         *)
(*                                                                         *)
(* Descriptions, results, colours and timestamps are left out; a task is   *)
(* its status, its owning agent and its team.                              *)
(***************************************************************************)
EXTENDS Naturals

CONSTANTS
    MaxIds,   \* bound on the ids nextID mints (idSeq is unbounded)
    Teams,    \* team names
    NoTeam,   \* the team of a task that is not registered
    Callers   \* goroutines that call the swarm's methods

ASSUME MaxIdsAssumption == MaxIds \in Nat
ASSUME NoTeamAssumption == NoTeam \notin Teams

VARIABLES
    status,   \* status[t]: of a task, "none" while it is not registered
    owner,    \* owner[t]: Task.AgentID, 0 while it is not registered
    team,     \* team[t]: Task.Team, NoTeam while it is not registered
    sleepers  \* callers of WaitSettled asleep on the current change channel

coordVars == <<status, owner, team, sleepers>>

Ids == 1 .. MaxIds

Terminal == {"done", "failed", "handed-off"}
Status   == {"pending", "running"} \cup Terminal

Registered(t) == status[t] # "none"
Settled(t)    == status[t] \in Terminal

CoordTypeOK ==
    /\ status \in [Ids -> Status \cup {"none"}]
    /\ owner \in [Ids -> 0 .. MaxIds]
    /\ team \in [Ids -> Teams \cup {NoTeam}]
    /\ sleepers \subseteq Callers

CoordInit ==
    /\ status = [t \in Ids |-> "none"]
    /\ owner = [t \in Ids |-> 0]
    /\ team = [t \in Ids |-> NoTeam]
    /\ sleepers = {}

\* Closing the change channel wakes every caller asleep on it; the channel
\* installed in its place has no sleeper yet.
NotifyChange == sleepers' = {}

Register(t, agent, tm) ==
    /\ ~ Registered(t)
    /\ status' = [status EXCEPT ![t] = "pending"]
    /\ owner' = [owner EXCEPT ![t] = agent]
    /\ team' = [team EXCEPT ![t] = tm]
    /\ NotifyChange

\* A terminal task may only be set to the status it already has.
SetStatusAllowed(t, s) == Registered(t) /\ (Settled(t) => status[t] = s)

TrySetStatus(t, s) ==
    \/ /\ SetStatusAllowed(t, s)
       /\ status' = [status EXCEPT ![t] = s]
       /\ NotifyChange
       /\ UNCHANGED <<owner, team>>
    \/ /\ ~ SetStatusAllowed(t, s)
       /\ UNCHANGED coordVars

FinishAllowed(t) == Registered(t) /\ ~ Settled(t)

\* Mutant: the change channel is not closed.
FinishQuietly(t, s) ==
    \/ /\ FinishAllowed(t)
       /\ status' = [status EXCEPT ![t] = s]
       /\ UNCHANGED <<owner, team, sleepers>>
    \/ /\ ~ FinishAllowed(t)
       /\ UNCHANGED coordVars

\* Complete, CompleteWithSession, Fail and FailWithSession.
TryFinish(t, s) ==
    \/ /\ FinishAllowed(t)
       /\ status' = [status EXCEPT ![t] = s]
       /\ NotifyChange
       /\ UNCHANGED <<owner, team>>
    \/ /\ ~ FinishAllowed(t)
       /\ UNCHANGED coordVars

\* Mutant: a task that settled since it was listed is reassigned too.
ReassignAny(t, agent) ==
    /\ Registered(t)
    /\ status' = [status EXCEPT ![t] = "pending"]
    /\ owner' = [owner EXCEPT ![t] = agent]
    /\ NotifyChange
    /\ UNCHANGED team

Reassign(t, agent) ==
    /\ Registered(t) /\ ~ Settled(t)
    /\ status' = [status EXCEPT ![t] = "pending"]
    /\ owner' = [owner EXCEPT ![t] = agent]
    /\ NotifyChange
    /\ UNCHANGED team

\* The decision WaitSettled takes, with its snapshot, in one locked pass.
ScopeSettled(tm) == \A t \in Ids : Registered(t) /\ team[t] = tm => Settled(t)

\* One pass of the loop that finds an open task: the caller goes to sleep on
\* the channel it read in the same locked pass.
FallAsleep(c, tm) ==
    /\ ~ ScopeSettled(tm)
    /\ sleepers' = sleepers \cup {c}
    /\ UNCHANGED <<status, owner, team>>

\* The context of a sleeping caller is done: it stops waiting.
StopWaiting(c) ==
    /\ sleepers' = sleepers \ {c}
    /\ UNCHANGED <<status, owner, team>>
=============================================================================
