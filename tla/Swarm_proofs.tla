---------------------------- MODULE Swarm_proofs ----------------------------
(***************************************************************************)
(* Proofs about Swarm, for every number of ids, teams, callers, slots and  *)
(* relaunches: types, exact slot accounting and what follows from it, and  *)
(* a bound on the live member processes of a team.                         *)
(***************************************************************************)
EXTENDS Swarm, FiniteSetTheorems, TLAPS

-----------------------------------------------------------------------------
(* The registry's calls.                                                     *)

LEMMA TryFinishKeeps ==
    ASSUME CoordTypeOK, NEW t, NEW s \in Terminal, TryFinish(t, s)
    PROVE  /\ CoordTypeOK'
           /\ team' = team /\ owner' = owner
           /\ \A u \in Ids : Registered(u)' <=> Registered(u)
BY DEF CoordTypeOK, TryFinish, FinishAllowed, NotifyChange, coordVars,
       Registered, Status, Terminal

LEMMA TrySetStatusKeeps ==
    ASSUME CoordTypeOK, NEW t, NEW s \in Status, TrySetStatus(t, s)
    PROVE  /\ CoordTypeOK'
           /\ team' = team /\ owner' = owner
           /\ \A u \in Ids : Registered(u)' <=> Registered(u)
BY DEF CoordTypeOK, TrySetStatus, SetStatusAllowed, NotifyChange, coordVars,
       Registered, Status, Terminal

LEMMA RegisterType ==
    ASSUME CoordTypeOK, NEW t \in Ids, NEW tm \in Teams, Register(t, t, tm)
    PROVE  CoordTypeOK'
BY MaxIdsAssumption DEF CoordTypeOK, Register, NotifyChange, Ids, Status

LEMMA ReassignType ==
    ASSUME CoordTypeOK, NEW t \in Ids, NEW a \in Ids, Reassign(t, a)
    PROVE  /\ CoordTypeOK'
           /\ team' = team
           /\ \A u \in Ids : Registered(u)' <=> Registered(u)
BY MaxIdsAssumption
   DEF CoordTypeOK, Reassign, NotifyChange, Ids, Status, Registered

-----------------------------------------------------------------------------
(* Counting holders.                                                         *)

LEMMA HoldersFinite == \A tm : /\ IsFiniteSet(Holders(tm))
                               /\ Cardinality(Holders(tm)) \in Nat
  <1>1. IsFiniteSet(Ids)
    BY MaxIdsAssumption, FS_Interval DEF Ids
  <1>. TAKE tm
  <1>2. Holders(tm) \in SUBSET Ids
    BY DEF Holders
  <1>. QED
    BY <1>1, <1>2, FS_Subset, FS_CardinalityType

\* Every step whose phases, registrations and calls change only in ways the
\* slot invariant does not see.
LEMMA QuietStep ==
    ASSUME SlotInv, TypeOK',
           team' = team, serves' = serves, queue' = queue, running' = running,
           call' = call, idSeq' = idSeq,
           \A t \in Ids : Registered(t)' <=> Registered(t),
           \A a \in Ids : \/ phase'[a] = phase[a]
                          \/ phase[a] \in Holding /\ phase'[a] \in Holding
    PROVE  SlotInv'
  <1>. USE DEF SlotInv
  <1>0. "none" \notin Holding /\ "queued" \notin Holding
    BY DEF Holding, Launching, Leaving
  <1>1. AgentsServe'
    BY <1>0 DEF AgentsServe
  <1>2. TeamsFixed'
    BY DEF TeamsFixed
  <1>3. CallsFresh' /\ CallsDistinct'
    <2>1. \A c \in Callers : call[c].op \in Undispatched
                => call[c].agent \in Ids
      BY MaxIdsAssumption
         DEF CallsFresh, TypeOK, SwarmTypeOK, AgentIds0, Ids
    <2>. QED
      BY <1>0, <2>1 DEF CallsFresh, CallsDistinct, Undispatched
  <1>4. QueuesWait'
    BY <1>0 DEF QueuesWait, TeamOf, TypeOK, SwarmTypeOK
  <1>5. \A tm \in Teams : Holders(tm)' = Holders(tm)
    BY DEF Holders, TeamOf
  <1>6. SlotAccounting' /\ SlotsBounded' /\ WorkConserving'
    BY <1>5 DEF SlotAccounting, SlotsBounded, WorkConserving
  <1>. QED
    BY <1>1, <1>2, <1>3, <1>4, <1>6

\* A step of a call that neither publishes nor dispatches a spec.
LEMMA QuietCall ==
    ASSUME SlotInv, TypeOK', NEW c \in Callers,
           UNCHANGED <<team, serves, phase, queue, running>>,
           \A t \in Ids : Registered(t)' <=> Registered(t),
           idSeq' \in {idSeq, idSeq + 1},
           \A d \in Callers : d # c => call'[d] = call[d],
           \/ call'[c].op \notin Undispatched
           \/ /\ call[c].op = "retire" /\ call'[c].op = "admit"
              /\ call'[c].agent = call[c].agent
           \/ /\ call'[c].op = "handoff" /\ call'[c].agent = idSeq + 1
              /\ idSeq' = idSeq + 1 /\ call'[c].tm \in Teams
    PROVE  SlotInv'
  <1>. USE DEF SlotInv
  <1>0. idSeq \in Nat /\ idSeq' \in Nat /\ idSeq <= idSeq' /\ idSeq' <= MaxIds
    BY MaxIdsAssumption DEF TypeOK, SwarmTypeOK, AgentIds0
  <1>1. AgentsServe'
    BY <1>0, MaxIdsAssumption DEF AgentsServe, Ids
  <1>2. TeamsFixed'
    BY DEF TeamsFixed
  <1>3. \A d \in Callers : call[d].op \in Undispatched
             => call[d].agent \in 1 .. idSeq /\ call[d].agent \in Ids
    BY <1>0, MaxIdsAssumption DEF CallsFresh, Ids
  <1>4. idSeq' = idSeq + 1 => phase[idSeq + 1] = "none"
    BY <1>0, MaxIdsAssumption DEF AgentsServe, Ids
  <1>5. CallsFresh'
    <2>. SUFFICES ASSUME NEW d \in Callers
                  PROVE  CallsFresh!(d)'
      BY DEF CallsFresh
    <2>. QED
      BY <1>0, <1>3, <1>4 DEF CallsFresh, Undispatched
  <1>6. CallsDistinct'
    BY <1>0, <1>3 DEF CallsDistinct, Undispatched
  <1>7. QueuesWait'
    BY DEF QueuesWait, TeamOf
  <1>8. \A tm \in Teams : Holders(tm)' = Holders(tm)
    BY DEF Holders, TeamOf
  <1>9. SlotAccounting' /\ SlotsBounded' /\ WorkConserving'
    BY <1>8 DEF SlotAccounting, SlotsBounded, WorkConserving
  <1>. QED
    BY <1>1, <1>2, <1>5, <1>6, <1>7, <1>9

-----------------------------------------------------------------------------
(* One lemma per kind of step.                                               *)

LEMMA AgentQuietSteps ==
    ASSUME SlotInv, NEW a \in Ids,
           \/ LaunchOk(a) \/ LaunchErr(a) \/ FailLaunch(a) \/ AddMember(a)
           \/ MarkRunning(a) \/ Relaunch(a) \/ CompleteTask(a) \/ FailTask(a)
           \/ RemoveMember(a) \/ MemberExit(a)
    PROVE  SlotInv'
  <1>. TypeOK
    BY DEF SlotInv
  <1>. USE DEF TypeOK, SwarmTypeOK, Holding, Launching, Leaving, Phases, Procs,
               Outcomes
  <1>1. CASE LaunchOk(a) \/ LaunchErr(a) \/ AddMember(a) \/ RemoveMember(a)
    <2>1. TypeOK'
      BY <1>1 DEF LaunchOk, LaunchErr, AddMember, RemoveMember, coordVars,
                  CoordTypeOK
    <2>. QED
      BY <1>1, <2>1, QuietStep
         DEF LaunchOk, LaunchErr, AddMember, RemoveMember, coordVars, Registered
  <1>2. CASE FailLaunch(a)
    <2>1. /\ CoordTypeOK' /\ team' = team
          /\ \A u \in Ids : Registered(u)' <=> Registered(u)
      BY <1>2, TryFinishKeeps DEF FailLaunch, Terminal
    <2>2. TypeOK'
      BY <1>2, <2>1 DEF FailLaunch
    <2>. QED
      BY <1>2, <2>1, <2>2, QuietStep DEF FailLaunch
  <1>3. CASE MarkRunning(a)
    <2>1. /\ CoordTypeOK' /\ team' = team
          /\ \A u \in Ids : Registered(u)' <=> Registered(u)
      BY <1>3, TrySetStatusKeeps DEF MarkRunning, Status
    <2>2. TypeOK'
      BY <1>3, <2>1 DEF MarkRunning
    <2>. QED
      BY <1>3, <2>1, <2>2, QuietStep DEF MarkRunning
  <1>4. CASE CompleteTask(a) \/ FailTask(a)
    <2>1. /\ CoordTypeOK' /\ team' = team
          /\ \A u \in Ids : Registered(u)' <=> Registered(u)
      BY <1>4, TryFinishKeeps DEF CompleteTask, FailTask, Terminal
    <2>2. TypeOK'
      BY <1>4, <2>1 DEF CompleteTask, FailTask
    <2>. QED
      BY <1>4, <2>1, <2>2, QuietStep DEF CompleteTask, FailTask
  <1>5. CASE Relaunch(a) \/ MemberExit(a)
    <2>1. proc' \in [Ids -> Procs]
      BY <1>5 DEF Relaunch, MemberExit
    <2>2. restarts' \in [Ids -> 0 .. MaxRestarts]
      <3>1. restarts[a] < MaxRestarts => restarts[a] + 1 \in 0 .. MaxRestarts
        BY RestartsAssumption
      <3>. QED
        BY <1>5, <3>1 DEF Relaunch, MayRelaunch, MemberExit
    <2>3. TypeOK'
      BY <1>5, <2>1, <2>2 DEF Relaunch, MemberExit, coordVars, CoordTypeOK
    <2>. QED
      BY <1>5, <2>3, QuietStep DEF Relaunch, MemberExit, coordVars, Registered
  <1>. QED
    BY <1>1, <1>2, <1>3, <1>4, <1>5

LEMMA IdleType == /\ Idle \in Call
                  /\ Idle.op \notin Undispatched
  BY MaxIdsAssumption DEF Idle, Call, Ops, AgentIds0, Undispatched

LEMMA CallQuietSteps ==
    ASSUME SlotInv, NEW c \in Callers,
           \/ HandoffNoteFails(c) \/ HandoffRetire(c)
           \/ AdoptList(c) \/ AdoptSkip(c)
           \/ CollectReturn(c) \/ CollectTimeout(c)
           \/ \E tm \in Teams : \/ AdoptStart(c, tm) \/ CollectStart(c, tm)
                               \/ \E t \in Ids : HandoffCheck(c, t, tm)
    PROVE  SlotInv'
  <1>. TypeOK
    BY DEF SlotInv
  <1>. USE DEF TypeOK, SwarmTypeOK
  <1>0. /\ idSeq \in Nat /\ idSeq <= MaxIds
        /\ idSeq < MaxIds => idSeq + 1 \in AgentIds0 /\ idSeq + 1 \in Ids
    BY MaxIdsAssumption DEF AgentIds0, Ids
  <1>1. CASE HandoffNoteFails(c) \/ CollectReturn(c)
    <2>1. TypeOK'
      BY <1>1, IdleType
         DEF HandoffNoteFails, CollectReturn, coordVars, CoordTypeOK
    <2>. QED
      BY <1>1, <2>1, IdleType, QuietCall
         DEF HandoffNoteFails, CollectReturn, coordVars, Registered
  <1>2. CASE CollectTimeout(c)
    <2>1. TypeOK'
      BY <1>2, IdleType DEF CollectTimeout, StopWaiting, CoordTypeOK
    <2>. QED
      BY <1>2, <2>1, IdleType, QuietCall
         DEF CollectTimeout, StopWaiting, Registered
  <1>3. CASE HandoffRetire(c)
    <2>1. /\ CoordTypeOK' /\ team' = team
          /\ \A u \in Ids : Registered(u)' <=> Registered(u)
      BY <1>3, TrySetStatusKeeps DEF HandoffRetire, Status, Terminal
    <2>2. /\ call' \in [Callers -> Call]
          /\ call'[c].op = "admit" /\ call'[c].agent = call[c].agent
      BY <1>3, IdleType DEF HandoffRetire, Call, Ops, Idle
    <2>3. TypeOK'
      BY <1>3, <2>1, <2>2 DEF HandoffRetire
    <2>. QED
      BY <1>3, <2>1, <2>2, <2>3, QuietCall DEF HandoffRetire
  <1>4. CASE AdoptList(c)
    <2>1. /\ call' \in [Callers -> Call]
          /\ call'[c].op \notin Undispatched
      <3>. DEFINE ids == {t \in Ids : /\ Registered(t) /\ ~ Settled(t)
                                      /\ team[t] = call[c].tm
                                      /\ owner[t] \notin call[c].ids}
      <3>1. ids \in SUBSET Ids
        OBVIOUS
      <3>2. call' = [call EXCEPT ![c] = IF ids = {} THEN Idle
                        ELSE [call[c] EXCEPT !.op = "adopt", !.ids = ids]]
        BY <1>4 DEF AdoptList
      <3>. HIDE DEF ids
      <3>3. [call[c] EXCEPT !.op = "adopt", !.ids = ids] \in Call
        BY <3>1 DEF Call, Ops
      <3>. QED
        BY <3>2, <3>3, IdleType DEF Call, Undispatched
    <2>2. TypeOK'
      BY <1>4, <2>1 DEF AdoptList, coordVars, CoordTypeOK
    <2>. QED
      BY <1>4, <2>1, <2>2, QuietCall DEF AdoptList, coordVars, Registered
  <1>5. CASE AdoptSkip(c)
    <2>1. /\ call' \in [Callers -> Call]
          /\ call'[c].op \notin Undispatched
      <3>1. PICK t \in call[c].ids :
               call' = [call EXCEPT ![c] =
                          IF call[c].ids = {t} THEN Idle
                          ELSE [call[c] EXCEPT !.ids = call[c].ids \ {t}]]
        BY <1>5 DEF AdoptSkip
      <3>2. /\ [call[c] EXCEPT !.ids = call[c].ids \ {t}] \in Call
            /\ call[c].op = "adopt"
        BY <1>5 DEF AdoptSkip, Call
      <3>. QED
        BY <3>1, <3>2, IdleType DEF Call, Undispatched
    <2>2. TypeOK'
      BY <1>0, <1>5, <2>1 DEF AdoptSkip, MayMint, coordVars, CoordTypeOK
    <2>. QED
      BY <1>5, <2>1, <2>2, QuietCall DEF AdoptSkip, coordVars, Registered
  <1>6. ASSUME NEW tm \in Teams, AdoptStart(c, tm) \/ CollectStart(c, tm)
        PROVE  SlotInv'
    <2>1. LiveAgents(tm) \in SUBSET Ids
      BY DEF LiveAgents, Members
    <2>2. /\ call' \in [Callers -> Call]
          /\ call'[c].op \notin Undispatched
      <3>1. \A ids \in SUBSET Ids :
               [Idle EXCEPT !.op = "adopt-list", !.tm = tm, !.ids = ids] \in Call
        BY IdleType DEF Call, Ops, Idle
      <3>2. [Idle EXCEPT !.op = "collect", !.tm = tm] \in Call
        BY IdleType DEF Call, Ops, Idle
      <3>3. CASE AdoptStart(c, tm)
        BY <2>1, <3>1, <3>3 DEF AdoptStart, Undispatched, Idle
      <3>4. CASE CollectStart(c, tm)
        BY <3>2, <3>4 DEF CollectStart, Undispatched, Idle
      <3>. QED
        BY <1>6, <3>3, <3>4
    <2>3. TypeOK'
      BY <1>6, <2>2 DEF AdoptStart, CollectStart, coordVars, CoordTypeOK
    <2>. QED
      BY <1>6, <2>2, <2>3, QuietCall
         DEF AdoptStart, CollectStart, coordVars, Registered
  <1>7. ASSUME NEW tm \in Teams, NEW t \in Ids, HandoffCheck(c, t, tm)
        PROVE  SlotInv'
    <2>1. /\ call' \in [Callers -> Call] /\ call'[c].op = "handoff"
          /\ call'[c].agent = idSeq + 1 /\ call'[c].tm \in Teams
      BY <1>0, <1>7 DEF HandoffCheck, MayMint, Call, Ops, AgentIds0, Ids
    <2>2. TypeOK'
      BY <1>0, <1>7, <2>1 DEF HandoffCheck, MayMint, coordVars, CoordTypeOK
    <2>. QED
      BY <1>7, <2>1, <2>2, QuietCall DEF HandoffCheck, coordVars, Registered
  <1>. QED
    BY <1>1, <1>2, <1>3, <1>4, <1>5, <1>6, <1>7

\* A step that gives task t, new or reassigned, to a fresh agent disturbs no
\* agent that is on its way.
LEMMA PublishStep ==
    ASSUME SlotInv, TypeOK', NEW c \in Callers, NEW id \in Ids, NEW t \in Ids,
           serves' = [serves EXCEPT ![id] = t],
           UNCHANGED <<phase, queue, running>>,
           phase[id] = "none",
           \A u \in Ids : Registered(u)' <=> (Registered(u) \/ u = t),
           \A u \in Ids : Registered(u) => team'[u] = team[u],
           team'[t] \in Teams,
           \A d \in Callers \ {c} : call[d].op \in Undispatched
                                      => call[d].agent # id,
           \A d \in Callers : d # c => call'[d] = call[d],
           call'[c].op \in {"admit", "retire"}, call'[c].agent = id,
           t \in 1 .. idSeq',
           \/ idSeq' = idSeq /\ id <= idSeq
           \/ idSeq' = idSeq + 1 /\ id = idSeq + 1
    PROVE  SlotInv'
  <1>. USE DEF SlotInv
  <1>0. /\ idSeq \in Nat /\ idSeq' \in Nat /\ idSeq <= idSeq'
        /\ id \in 1 .. idSeq'
    BY MaxIdsAssumption DEF TypeOK, SwarmTypeOK, AgentIds0, Ids
  <1>1. \A u \in Ids : Registered(u)' <=> (Registered(u) \/ u = t)
    OBVIOUS
  <1>2. /\ \A a \in Ids : a # id => serves'[a] = serves[a]
        /\ serves'[id] = t
    BY DEF TypeOK, SwarmTypeOK
  <1>3. \A a \in Ids : phase[a] # "none" =>
            /\ a # id /\ serves[a] \in Ids
            /\ TeamOf(a)' = TeamOf(a)
    <2>. SUFFICES ASSUME NEW a \in Ids, phase[a] # "none"
                  PROVE  /\ a # id /\ serves[a] \in Ids
                         /\ TeamOf(a)' = TeamOf(a)
      OBVIOUS
    <2>1. a # id
      OBVIOUS
    <2>2. serves[a] \in Ids /\ Registered(serves[a])
      BY DEF AgentsServe
    <2>3. serves'[a] = serves[a]
      BY <1>2, <2>1
    <2>4. team'[serves[a]] = team[serves[a]]
      BY <2>2
    <2>. QED
      BY <2>1, <2>2, <2>3, <2>4 DEF TeamOf
  <1>4. AgentsServe'
    BY <1>0, <1>1, <1>2, <1>3, MaxIdsAssumption DEF AgentsServe, Ids
  <1>5. TeamsFixed'
    BY DEF TeamsFixed
  <1>6. \A d \in Callers : call[d].op \in Undispatched
            => call[d].agent \in 1 .. idSeq /\ call[d].agent \in Ids
    BY <1>0, MaxIdsAssumption
       DEF CallsFresh, Ids, TypeOK, SwarmTypeOK, AgentIds0
  <1>7. CallsFresh'
    <2>. SUFFICES ASSUME NEW d \in Callers
                  PROVE  CallsFresh!(d)'
      BY DEF CallsFresh
    <2>1. CASE d = c
      BY <1>0, <1>1, <1>2, <2>1 DEF Undispatched
    <2>2. CASE d # c
      <3>1. call'[d] = call[d]
        BY <2>2
      <3>2. CallsFresh!(d)
        BY DEF CallsFresh
      <3>3. call[d].op \in Undispatched =>
              /\ call[d].agent \in Ids /\ call[d].agent \in 1 .. idSeq'
              /\ serves'[call[d].agent] = serves[call[d].agent]
        BY <1>0, <1>2, <1>6, <2>2
      <3>4. \A u \in Ids : Registered(u) => Registered(u)'
        BY <1>1
      <3>. QED
        BY <3>1, <3>2, <3>3, <3>4 DEF Undispatched
    <2>. QED
      BY <2>1, <2>2
  <1>8. CallsDistinct'
    BY DEF CallsDistinct, Undispatched
  <1>9. QueuesWait'
    <2>1. \A q \in Teams : queue[q] \in Seq(Ids)
      BY DEF TypeOK, SwarmTypeOK
    <2>2. \A q \in Teams, i \in Nat :
              i \in 1 .. Len(queue[q]) => queue[q][i] \in Ids
      BY <2>1
    <2>. QED
      BY <1>3, <2>2 DEF QueuesWait
  <1>10. \A q \in Teams : Holders(q)' = Holders(q)
    <2>1. "none" \notin Holding
      BY DEF Holding, Launching, Leaving
    <2>2. ASSUME NEW q \in Teams, NEW a \in Ids
          PROVE  (phase[a] \in Holding /\ TeamOf(a) = q)' <=> (phase[a] \in Holding /\ TeamOf(a) = q)
      BY <1>3, <2>1
    <2>. QED
      BY <2>2 DEF Holders
  <1>11. SlotAccounting' /\ SlotsBounded' /\ WorkConserving'
    BY <1>10 DEF SlotAccounting, SlotsBounded, WorkConserving
  <1>. QED
    BY <1>4, <1>5, <1>7, <1>8, <1>9, <1>11

LEMMA RegisterFacts ==
    ASSUME SlotInv, NEW id \in Ids, NEW tm \in Teams, Register(id, id, tm)
    PROVE  /\ CoordTypeOK'
           /\ \A u \in Ids : Registered(u)' <=> (Registered(u) \/ u = id)
           /\ \A u \in Ids : Registered(u) => team'[u] = team[u]
           /\ team'[id] \in Teams
  <1>1. CoordTypeOK
    BY DEF SlotInv, TypeOK
  <1>2. CoordTypeOK'
    BY <1>1, RegisterType
  <1>. QED
    BY <1>1, <1>2 DEF CoordTypeOK, Register, Registered

LEMMA SpawnStep ==
    ASSUME SlotInv, NEW c \in Callers, NEW tm \in Teams, Spawn(c, tm)
    PROVE  SlotInv'
  <1>. DEFINE id == idSeq + 1
  <1>1. idSeq \in Nat /\ id \in Ids /\ id \in AgentIds0
    BY MaxIdsAssumption
       DEF SlotInv, TypeOK, SwarmTypeOK, AgentIds0, Ids, Spawn, MayMint
  <1>2. Register(id, id, tm)
    BY DEF Spawn
  <1>3. /\ call' = [call EXCEPT ![c] = [Idle EXCEPT !.op = "admit",
                                                   !.agent = id]]
        /\ idSeq' = id /\ serves' = [serves EXCEPT ![id] = id]
        /\ last' = [j \in Jobs |-> IF j = c THEN id ELSE last[j]]
        /\ UNCHANGED <<phase, proc, restarts, host, queue, running, closed>>
    BY DEF Spawn
  <1>4. phase[id] = "none"
    BY <1>1 DEF SlotInv, AgentsServe
  <1>5. \A d \in Callers : call[d].op \in Undispatched => call[d].agent # id
    BY <1>1 DEF SlotInv, CallsFresh
  <1>6. [Idle EXCEPT !.op = "admit", !.agent = id] \in Call
    BY <1>1, IdleType DEF Call, Ops, Idle
  <1>7. /\ call' \in [Callers -> Call]
        /\ call'[c].op = "admit" /\ call'[c].agent = id
        /\ \A d \in Callers : d # c => call'[d] = call[d]
    BY <1>3, <1>6 DEF SlotInv, TypeOK, SwarmTypeOK, Idle
  <1>8. TypeOK'
    BY <1>1, <1>2, <1>3, <1>7, RegisterFacts DEF SlotInv, TypeOK, SwarmTypeOK
  <1>9. /\ \A u \in Ids : Registered(u)' <=> (Registered(u) \/ u = id)
        /\ \A u \in Ids : Registered(u) => team'[u] = team[u]
        /\ team'[id] \in Teams
    BY <1>1, <1>2, RegisterFacts
  <1>10. id \in 1 .. idSeq' /\ idSeq' = idSeq + 1 /\ id = idSeq + 1
    BY <1>1, <1>3
  <1>. HIDE DEF id
  <1>11. UNCHANGED <<phase, queue, running>>
    BY <1>3
  <1>12. serves' = [serves EXCEPT ![id] = id]
    BY <1>3
  <1>. QED
    BY <1>1, <1>4, <1>5, <1>7, <1>8, <1>9, <1>10, <1>11, <1>12, PublishStep

LEMMA HandoffRegisterStep ==
    ASSUME SlotInv, NEW c \in Callers, HandoffRegister(c)
    PROVE  SlotInv'
  <1>. DEFINE id == call[c].agent
  <1>1. /\ id \in 1 .. idSeq /\ id \in Ids /\ id \in AgentIds0
        /\ phase[id] = "none" /\ call[c].tm \in Teams /\ idSeq \in Nat
    BY MaxIdsAssumption
       DEF SlotInv, TypeOK, SwarmTypeOK, AgentIds0, Ids, HandoffRegister,
           CallsFresh, Undispatched
  <1>2. Register(id, id, call[c].tm)
    BY DEF HandoffRegister
  <1>3. /\ call' = [call EXCEPT ![c] = [call[c] EXCEPT !.op = "retire"]]
        /\ serves' = [serves EXCEPT ![id] = id]
        /\ UNCHANGED <<idSeq, phase, proc, restarts, host, queue, running, last,
                       closed>>
    BY DEF HandoffRegister
  <1>4. \A d \in Callers \ {c} : call[d].op \in Undispatched
                                   => call[d].agent # id
    BY DEF SlotInv, CallsDistinct, Undispatched, HandoffRegister
  <1>5. [call[c] EXCEPT !.op = "retire"] \in Call
    BY DEF SlotInv, TypeOK, SwarmTypeOK, Call, Ops
  <1>6. /\ call' \in [Callers -> Call]
        /\ call'[c].op = "retire" /\ call'[c].agent = id
        /\ \A d \in Callers : d # c => call'[d] = call[d]
    BY <1>3, <1>5 DEF SlotInv, TypeOK, SwarmTypeOK, Call
  <1>7. TypeOK'
    BY <1>1, <1>2, <1>3, <1>6, RegisterFacts DEF SlotInv, TypeOK, SwarmTypeOK
  <1>8. /\ \A u \in Ids : Registered(u)' <=> (Registered(u) \/ u = id)
        /\ \A u \in Ids : Registered(u) => team'[u] = team[u]
        /\ team'[id] \in Teams
    BY <1>1, <1>2, RegisterFacts
  <1>9. id \in 1 .. idSeq' /\ idSeq' = idSeq /\ id <= idSeq
    BY <1>1, <1>3
  <1>. HIDE DEF id
  <1>10. UNCHANGED <<phase, queue, running>>
    BY <1>3
  <1>11. serves' = [serves EXCEPT ![id] = id]
    BY <1>3
  <1>. QED
    BY <1>1, <1>4, <1>6, <1>7, <1>8, <1>9, <1>10, <1>11, PublishStep

LEMMA AdoptOneStep ==
    ASSUME SlotInv, NEW c \in Callers, Adopt(c)
    PROVE  SlotInv'
  <1>. DEFINE id == idSeq + 1
  <1>1. idSeq \in Nat /\ id \in Ids /\ id \in AgentIds0
    BY MaxIdsAssumption
       DEF SlotInv, TypeOK, SwarmTypeOK, AgentIds0, Ids, Adopt, MayMint
  <1>2. PICK t \in call[c].ids :
           /\ Reassign(t, id)
           /\ serves' = [serves EXCEPT ![id] = t]
           /\ call' = [call EXCEPT ![c].op = "admit", ![c].agent = id,
                                   ![c].ids = @ \ {t}]
    BY DEF Adopt
  <1>3. /\ idSeq' = id
        /\ UNCHANGED <<phase, proc, restarts, host, queue, running, last,
                       closed>>
    BY DEF Adopt
  <1>4. t \in Ids
    BY DEF SlotInv, TypeOK, SwarmTypeOK, Call
  <1>5. /\ CoordTypeOK' /\ team' = team
        /\ \A u \in Ids : Registered(u)' <=> Registered(u)
        /\ Registered(t)
    BY <1>1, <1>2, <1>4, ReassignType DEF SlotInv, TypeOK, Reassign
  <1>6. t \in 1 .. idSeq /\ team[t] \in Teams /\ phase[id] = "none"
    BY <1>1, <1>4, <1>5, MaxIdsAssumption
       DEF SlotInv, AgentsServe, TeamsFixed, Ids
  <1>7. \A d \in Callers : call[d].op \in Undispatched => call[d].agent # id
    BY <1>1 DEF SlotInv, CallsFresh
  <1>8. /\ call' \in [Callers -> Call]
        /\ call'[c].op = "admit" /\ call'[c].agent = id
        /\ \A d \in Callers : d # c => call'[d] = call[d]
    BY <1>1, <1>2 DEF SlotInv, TypeOK, SwarmTypeOK, Call, Ops
  <1>9. TypeOK'
    BY <1>1, <1>2, <1>3, <1>4, <1>5, <1>8, MaxIdsAssumption
       DEF SlotInv, TypeOK, SwarmTypeOK, AgentIds0, Ids
  <1>10. t \in 1 .. idSeq' /\ idSeq' = idSeq + 1 /\ id = idSeq + 1
    BY <1>1, <1>3, <1>6
  <1>. HIDE DEF id
  <1>11. UNCHANGED <<phase, queue, running>>
    BY <1>3
  <1>12. serves' = [serves EXCEPT ![id] = t]
    BY <1>2
  <1>13. /\ \A u \in Ids : Registered(u)' <=> (Registered(u) \/ u = t)
         /\ \A u \in Ids : Registered(u) => team'[u] = team[u]
         /\ team'[t] \in Teams
    BY <1>5, <1>6
  <1>14. \A d \in Callers \ {c} : call[d].op \in Undispatched
                                    => call[d].agent # id
    BY <1>7
  <1>15. phase[id] = "none" /\ id \in Ids
    BY <1>1, <1>6
  <1>. QED
    BY <1>4, <1>8, <1>9, <1>10, <1>11, <1>12, <1>13, <1>14, <1>15,
       PublishStep

LEMMA TeamOfAgent ==
    ASSUME SlotInv, NEW a \in Ids, phase[a] # "none"
    PROVE  TeamOf(a) \in Teams
BY DEF SlotInv, AgentsServe, TeamsFixed, TeamOf

LEMMA AdmitStep ==
    ASSUME SlotInv, NEW c \in Callers, Admit(c)
    PROVE  SlotInv'
  <1>a. PICK a : a = call[c].agent
    OBVIOUS
  <1>b. PICK tm : tm = TeamOf(a)
    OBVIOUS
  <1>1. /\ idSeq \in Nat /\ a \in 1 .. idSeq /\ a \in Ids /\ phase[a] = "none"
        /\ serves[a] \in Ids /\ Registered(serves[a]) /\ tm \in Teams
    <2>1. idSeq \in Nat /\ idSeq <= MaxIds
      BY MaxIdsAssumption DEF SlotInv, TypeOK, SwarmTypeOK, AgentIds0
    <2>2. /\ a \in 1 .. idSeq /\ phase[a] = "none"
          /\ serves[a] \in Ids /\ Registered(serves[a])
      BY <1>a DEF SlotInv, Admit, CallsFresh, Undispatched
    <2>3. a \in Ids
      BY <2>1, <2>2, MaxIdsAssumption DEF Ids
    <2>4. tm \in Teams
      BY <1>b, <2>2 DEF SlotInv, TeamsFixed, TeamOf
    <2>. QED
      BY <2>1, <2>2, <2>3, <2>4
  <1>2. /\ call' = [call EXCEPT ![c] = Continue(c)]
        /\ UNCHANGED <<coordVars, idSeq, serves, proc, restarts, last, closed>>
    BY DEF Admit
  <1>3. \/ /\ HasSlot(tm)
           /\ running' = [running EXCEPT ![tm] = @ + 1]
           /\ phase' = [phase EXCEPT ![a] = "slot"]
           /\ host' = [host EXCEPT ![a] = c]
           /\ queue' = queue
        \/ /\ ~ HasSlot(tm)
           /\ queue' = [queue EXCEPT ![tm] = Append(@, a)]
           /\ phase' = [phase EXCEPT ![a] = "queued"]
           /\ UNCHANGED <<running, host>>
    BY <1>a, <1>b DEF Admit
  <1>4. /\ Continue(c) \in Call
        /\ Continue(c).op \notin Undispatched
    <2>1. call[c] \in Call
      BY DEF SlotInv, TypeOK, SwarmTypeOK
    <2>2. \A r \in Call : /\ [r EXCEPT !.op = "adopt", !.agent = 0] \in Call
                           /\ [r EXCEPT !.op = "adopt", !.agent = 0].op = "adopt"
      <3>1. 0 \in AgentIds0 /\ "adopt" \in Ops
        BY MaxIdsAssumption DEF AgentIds0, Ops
      <3>. QED
        BY <3>1 DEF Call
    <2>. QED
      BY <2>1, <2>2, IdleType DEF Continue, Undispatched
  <1>5. /\ call' \in [Callers -> Call]
        /\ call'[c].op \notin Undispatched
        /\ \A d \in Callers : d # c => call'[d] = call[d]
    BY <1>2, <1>4 DEF SlotInv, TypeOK, SwarmTypeOK
  <1>6. \A d \in Callers : d # c /\ call[d].op \in Undispatched
                             => call[d].agent # a
    BY <1>a DEF SlotInv, CallsDistinct, Admit, Undispatched
  <1>7. /\ phase \in [Ids -> Phases] /\ running \in [Teams -> Nat]
        /\ queue \in [Teams -> Seq(Ids)] /\ host \in [Ids -> Callers \cup {NoCaller}]
        /\ coordVars' = coordVars
    BY <1>2 DEF SlotInv, TypeOK, SwarmTypeOK
  <1>8. \A b \in Ids : TeamOf(b)' = TeamOf(b) /\ Registered(b)' = Registered(b)
    BY <1>2 DEF TeamOf, coordVars, Registered
  <1>9. TypeOK'
    <2>0. "slot" \in Phases /\ "queued" \in Phases
      BY DEF Phases, Holding, Launching
    <2>1. phase' \in [Ids -> Phases]
      BY <1>3, <1>7, <2>0
    <2>2. host' \in [Ids -> Callers \cup {NoCaller}]
      BY <1>3, <1>7
    <2>3. running' \in [Teams -> Nat]
      <3>1. running[tm] + 1 \in Nat
        BY <1>1, <1>7
      <3>. QED
        BY <1>3, <1>7, <3>1
    <2>4. queue' \in [Teams -> Seq(Ids)]
      <3>1. Append(queue[tm], a) \in Seq(Ids)
        BY <1>1, <1>7
      <3>. QED
        BY <1>3, <1>7, <3>1
    <2>. QED
      BY <1>2, <1>5, <2>1, <2>2, <2>3, <2>4
         DEF SlotInv, TypeOK, SwarmTypeOK, CoordTypeOK, coordVars
  <1>10. /\ \A b \in Ids : b # a => phase'[b] = phase[b]
         /\ phase'[a] \in {"slot", "queued"}
    BY <1>1, <1>3, <1>7
  <1>11. AgentsServe'
    <2>1. idSeq' = idSeq /\ serves' = serves
      BY <1>2
    <2>2. \A b \in Ids : phase'[b] # "none" =>
             /\ b <= idSeq /\ serves[b] \in Ids /\ Registered(serves[b])
      BY <1>1, <1>10 DEF SlotInv, AgentsServe
    <2>. QED
      BY <1>8, <2>1, <2>2 DEF SlotInv, AgentsServe
  <1>12. TeamsFixed'
    BY <1>2, <1>8 DEF SlotInv, TeamsFixed, coordVars
  <1>13. CallsFresh' /\ CallsDistinct'
    <2>1. \A d \in Callers : call[d].op \in Undispatched => call[d].agent \in Ids
      BY <1>1, MaxIdsAssumption
         DEF SlotInv, CallsFresh, TypeOK, SwarmTypeOK, AgentIds0, Ids
    <2>2. CallsFresh'
      BY <1>2, <1>5, <1>6, <1>8, <1>10, <2>1 DEF SlotInv, CallsFresh, Undispatched
    <2>3. CallsDistinct'
      BY <1>5 DEF SlotInv, CallsDistinct
    <2>. QED
      BY <2>2, <2>3
  <1>14. CASE HasSlot(tm)
    <2>1. /\ running' = [running EXCEPT ![tm] = running[tm] + 1]
          /\ phase'[a] = "slot" /\ queue' = queue
      BY <1>1, <1>3, <1>7, <1>14
    <2>2. QueuesWait'
      <3>1. \A q \in Teams : \A i \in 1 .. Len(queue[q]) : queue[q][i] \in Ids
        BY <1>7
      <3>. QED
        <4>1. \A q \in Teams : \A i \in 1 .. Len(queue[q]) :
                 phase'[queue[q][i]] = phase[queue[q][i]]
          BY <1>1, <1>10, <3>1 DEF SlotInv, QueuesWait
        <4>. QED
          BY <1>8, <2>1, <3>1, <4>1 DEF SlotInv, QueuesWait
    <2>3. /\ Holders(tm)' = Holders(tm) \cup {a} /\ a \notin Holders(tm)
          /\ \A q \in Teams : q # tm => Holders(q)' = Holders(q)
      <3>1. /\ "slot" \in Holding /\ phase[a] \notin Holding
            /\ TeamOf(a)' = tm /\ TeamOf(a) = tm
        BY <1>b, <1>1, <1>8 DEF Holding, Launching, Leaving
      <3>. QED
        BY <1>1, <1>8, <1>10, <2>1, <3>1 DEF Holders
    <2>4. Cardinality(Holders(tm)') = Cardinality(Holders(tm)) + 1
      BY <2>3, HoldersFinite, FS_AddElement
    <2>5. SlotAccounting'
      <3>. SUFFICES ASSUME NEW q \in Teams
                    PROVE  running'[q] = Cardinality(Holders(q)')
        BY DEF SlotAccounting
      <3>1. running[q] = Cardinality(Holders(q))
        BY DEF SlotInv, SlotAccounting
      <3>. QED
        BY <1>1, <1>7, <2>1, <2>3, <2>4, <3>1
    <2>6. SlotsBounded'
      BY <1>1, <1>7, <1>14, <2>1, TeamSizeAssumption
         DEF SlotInv, SlotsBounded, HasSlot
    <2>7. WorkConserving'
      BY <1>1, <1>7, <1>14, <2>1, TeamSizeAssumption
         DEF SlotInv, WorkConserving, HasSlot
    <2>. QED
      BY <1>9, <1>11, <1>12, <1>13, <2>2, <2>5, <2>6, <2>7 DEF SlotInv
  <1>15. CASE ~ HasSlot(tm)
    <2>1. /\ queue' = [queue EXCEPT ![tm] = Append(queue[tm], a)]
          /\ phase'[a] = "queued" /\ running' = running
      BY <1>1, <1>3, <1>7, <1>15
    <2>2. \A q \in Teams : Holders(q)' = Holders(q)
      BY <1>1, <1>8, <1>10, <2>1 DEF Holders, Holding, Launching, Leaving
    <2>3. SlotAccounting' /\ SlotsBounded'
      BY <2>1, <2>2 DEF SlotInv, SlotAccounting, SlotsBounded
    <2>4. WorkConserving'
      BY <1>1, <1>7, <1>15, <2>1, TeamSizeAssumption
         DEF SlotInv, WorkConserving, SlotsBounded, HasSlot
    <2>5. QueuesWait'
      <3>. SUFFICES ASSUME NEW q \in Teams
                    PROVE  QueuesWait!(q)'
        BY DEF QueuesWait
      <3>0. /\ \A i \in 1 .. Len(queue[q]) :
                  /\ queue[q][i] \in Ids /\ queue[q][i] # a
                  /\ phase[queue[q][i]] = "queued" /\ TeamOf(queue[q][i]) = q
            /\ \A i, j \in 1 .. Len(queue[q]) :
                  queue[q][i] = queue[q][j] => i = j
        BY <1>1, <1>7 DEF SlotInv, QueuesWait
      <3>1. CASE q # tm
        BY <1>8, <1>10, <2>1, <3>0, <3>1, <1>7
      <3>2. CASE q = tm
        <4>1. queue'[q] = Append(queue[q], a) /\ queue[q] \in Seq(Ids)
          BY <1>1, <1>7, <2>1, <3>2
        <4>2. \A i \in 1 .. Len(queue'[q]) :
                 \/ i \in 1 .. Len(queue[q]) /\ queue'[q][i] = queue[q][i]
                 \/ i = Len(queue[q]) + 1 /\ queue'[q][i] = a
          BY <1>1, <4>1
        <4>3. TeamOf(a) = q
          BY <1>b, <3>2
        <4>4. \A i \in 1 .. Len(queue'[q]) :
                 /\ phase'[queue'[q][i]] = "queued"
                 /\ TeamOf(queue[q][i])' = q
          <5>. SUFFICES ASSUME NEW i \in 1 .. Len(queue'[q])
                        PROVE  /\ phase'[queue'[q][i]] = "queued"
                               /\ TeamOf(queue[q][i])' = q
            OBVIOUS
          <5>1. CASE i \in 1 .. Len(queue[q]) /\ queue'[q][i] = queue[q][i]
            <6>1. /\ queue[q][i] \in Ids /\ queue[q][i] # a
                  /\ phase[queue[q][i]] = "queued" /\ TeamOf(queue[q][i]) = q
              BY <3>0, <5>1
            <6>. QED
              BY <1>2, <1>10, <5>1, <6>1 DEF TeamOf, coordVars
          <5>2. CASE i = Len(queue[q]) + 1 /\ queue'[q][i] = a
            BY <1>2, <2>1, <4>3, <5>2 DEF TeamOf, coordVars
          <5>. QED
            BY <4>2, <5>1, <5>2
        <4>5. \A i, j \in 1 .. Len(queue'[q]) :
                 queue'[q][i] = queue'[q][j] => i = j
          BY <3>0, <4>2
        <4>. QED
          BY <4>4, <4>5
      <3>. QED
        BY <3>1, <3>2
    <2>. QED
      BY <1>9, <1>11, <1>12, <1>13, <2>3, <2>4, <2>5 DEF SlotInv
  <1>. QED
    BY <1>14, <1>15

LEMMA AfterExitStep ==
    ASSUME SlotInv, NEW a \in Ids, AfterExit(a)
    PROVE  SlotInv'
  <1>a. PICK tm : tm = TeamOf(a)
    OBVIOUS
  <1>1. phase[a] = "removed" /\ tm \in Teams /\ a \in Holders(tm)
    BY <1>a, TeamOfAgent DEF AfterExit, Holders, Holding, Leaving
  <1>2. /\ phase \in [Ids -> Phases] /\ running \in [Teams -> Nat]
        /\ queue \in [Teams -> Seq(Ids)]
        /\ host \in [Ids -> Callers \cup {NoCaller}]
    BY DEF SlotInv, TypeOK, SwarmTypeOK
  <1>3. UNCHANGED <<coordVars, idSeq, serves, proc, restarts, call, last, closed>>
    BY DEF AfterExit
  <1>4. /\ running[tm] = Cardinality(Holders(tm)) /\ running[tm] \in Nat \ {0}
        /\ running[tm] <= MaxTeamSize /\ Freed(tm) = running[tm] - 1
    <2>1. running[tm] = Cardinality(Holders(tm)) /\ running[tm] <= MaxTeamSize
      BY <1>1 DEF SlotInv, SlotAccounting, SlotsBounded
    <2>2. Cardinality(Holders(tm)) # 0
      BY <1>1, HoldersFinite, FS_EmptySet
    <2>3. running[tm] \in Nat \ {0}
      BY <1>1, <1>2, <2>1, <2>2
    <2>. QED
      BY <2>1, <2>3 DEF Freed
  <1>5. PassesSlot(tm) <=> queue[tm] # <<>>
    BY <1>4, TeamSizeAssumption DEF PassesSlot
  <1>6. \A b \in Ids : TeamOf(b)' = TeamOf(b) /\ Registered(b)' = Registered(b)
    BY <1>3 DEF TeamOf, coordVars, Registered
  <1>7. \A q \in Teams :
          /\ \A i \in 1 .. Len(queue[q]) :
                /\ queue[q][i] \in Ids /\ queue[q][i] # a
                /\ phase[queue[q][i]] = "queued" /\ TeamOf(queue[q][i]) = q
          /\ \A i, j \in 1 .. Len(queue[q]) :
                queue[q][i] = queue[q][j] => i = j
    BY <1>1, <1>2 DEF SlotInv, QueuesWait
  <1>8. "gone" \in Phases /\ "slot" \in Phases /\ "gone" \notin Holding
        /\ "slot" \in Holding /\ "removed" \in Holding /\ "queued" \notin Holding
    BY DEF Phases, Holding, Launching, Leaving
  <1>9. CASE PassesSlot(tm)
    <2>a. PICK next : next = NextQueued(tm)
      OBVIOUS
    <2>1. /\ queue' = [queue EXCEPT ![tm] = Tail(queue[tm])]
          /\ running' = [running EXCEPT ![tm] = Freed(tm) + 1]
          /\ phase' = [phase EXCEPT ![a] = "gone", ![next] = "slot"]
          /\ host' = [host EXCEPT ![a] = NoCaller, ![next] = host[a]]
      BY <1>a, <2>a, <1>9 DEF AfterExit
    <2>2. /\ queue[tm] \in Seq(Ids) /\ Len(queue[tm]) \in Nat \ {0}
          /\ next = queue[tm][1]
      BY <1>1, <1>2, <1>5, <1>9, <2>a DEF NextQueued
    <2>3. /\ next \in Ids /\ next # a /\ phase[next] = "queued"
          /\ TeamOf(next) = tm
      BY <1>1, <1>7, <2>2
    <2>4. running' = running
      BY <1>1, <1>2, <1>4, <2>1
    <2>5. /\ phase'[a] = "gone" /\ phase'[next] = "slot"
          /\ \A b \in Ids : b \notin {a, next} => phase'[b] = phase[b]
      BY <1>2, <2>1, <2>3
    <2>6. TypeOK'
      <3>1. Tail(queue[tm]) \in Seq(Ids)
        BY <2>2
      <3>2. queue' \in [Teams -> Seq(Ids)]
        BY <1>2, <2>1, <3>1
      <3>3. phase' \in [Ids -> Phases] /\ host' \in [Ids -> Callers \cup {NoCaller}]
        BY <1>2, <1>8, <2>1
      <3>. QED
        BY <1>3, <2>4, <3>2, <3>3
           DEF SlotInv, TypeOK, SwarmTypeOK, CoordTypeOK, coordVars
    <2>7. /\ Holders(tm)' = (Holders(tm) \ {a}) \cup {next}
          /\ next \notin Holders(tm) \ {a}
          /\ \A q \in Teams : q # tm => Holders(q)' = Holders(q)
      BY <1>a, <1>1, <1>6, <1>8, <2>3, <2>5 DEF Holders
    <2>8. Cardinality(Holders(tm)') = Cardinality(Holders(tm))
      <3>1. /\ IsFiniteSet(Holders(tm) \ {a})
            /\ Cardinality(Holders(tm) \ {a}) = Cardinality(Holders(tm)) - 1
        BY <1>1, HoldersFinite, FS_RemoveElement
      <3>2. Cardinality((Holders(tm) \ {a}) \cup {next})
              = Cardinality(Holders(tm) \ {a}) + 1
        BY <2>7, <3>1, FS_AddElement
      <3>. QED
        BY <1>4, <2>7, <3>1, <3>2
    <2>9. SlotAccounting' /\ SlotsBounded'
      BY <2>4, <2>7, <2>8 DEF SlotInv, SlotAccounting, SlotsBounded
    <2>10. WorkConserving'
      <3>. SUFFICES ASSUME NEW q \in Teams, queue'[q] # <<>>
                    PROVE  running[q] = MaxTeamSize
        BY <2>4 DEF WorkConserving
      <3>1. queue[q] # <<>>
        BY <1>2, <1>5, <1>9, <2>1
      <3>. QED
        BY <3>1 DEF SlotInv, WorkConserving
    <2>11. QueuesWait'
      <3>. SUFFICES ASSUME NEW q \in Teams
                    PROVE  QueuesWait!(q)'
        BY DEF QueuesWait
      <3>1. CASE q # tm
        <4>1. queue'[q] = queue[q]
          BY <1>2, <2>1, <3>1
        <4>2. \A i \in 1 .. Len(queue[q]) : queue[q][i] \notin {a, next}
          BY <1>7, <2>3, <3>1
        <4>. QED
          BY <1>6, <1>7, <2>5, <4>1, <4>2
      <3>2. CASE q = tm
        <4>1. queue'[q] = Tail(queue[q]) /\ queue[q] \in Seq(Ids)
          BY <1>1, <1>2, <2>1, <3>2
        <4>2. \A i \in 1 .. Len(queue'[q]) :
                 /\ i + 1 \in 1 .. Len(queue[q])
                 /\ queue'[q][i] = queue[q][i + 1]
          BY <2>2, <3>2, <4>1
        <4>3. \A i \in 1 .. Len(queue'[q]) : queue[q][i + 1] # next
          BY <1>7, <2>2, <3>2, <4>2
        <4>4. ASSUME NEW i \in 1 .. Len(queue'[q])
              PROVE  /\ phase'[queue'[q][i]] = "queued"
                     /\ team'[serves'[queue'[q][i]]] = q
          <5>1. /\ queue[q][i + 1] \in Ids \ {a, next}
                /\ phase[queue[q][i + 1]] = "queued"
                /\ team[serves[queue[q][i + 1]]] = q
            BY <1>7, <4>2, <4>3 DEF TeamOf
          <5>. QED
            BY <1>3, <2>5, <4>2, <5>1 DEF coordVars
        <4>5. ASSUME NEW i \in 1 .. Len(queue'[q]),
                     NEW j \in 1 .. Len(queue'[q]),
                     queue'[q][i] = queue'[q][j]
              PROVE  i = j
          <5>1. i + 1 = j + 1
            BY <1>7, <4>2, <4>5
          <5>. QED
            BY <5>1
        <4>. QED
          BY <4>4, <4>5 DEF TeamOf
      <3>. QED
        BY <3>1, <3>2
    <2>12. \A b \in Ids : phase'[b] # "none" => phase[b] # "none"
      BY <1>1, <2>3, <2>5
    <2>13. \A b \in Ids : phase[b] = "none" => phase'[b] = "none"
      BY <1>1, <2>3, <2>5
    <2>14. AgentsServe' /\ TeamsFixed'
      <3>1. idSeq' = idSeq /\ serves' = serves /\ status' = status /\ team' = team
        BY <1>3 DEF coordVars
      <3>. QED
        BY <2>12, <3>1 DEF SlotInv, AgentsServe, TeamsFixed, Registered
    <2>15. CallsFresh' /\ CallsDistinct'
      <3>1. /\ idSeq' = idSeq /\ serves' = serves /\ status' = status
            /\ call' = call
        BY <1>3 DEF coordVars
      <3>2. \A d \in Callers : call[d].op \in Undispatched => call[d].agent \in Ids
        BY MaxIdsAssumption
           DEF SlotInv, CallsFresh, TypeOK, SwarmTypeOK, AgentIds0, Ids
      <3>. QED
        BY <2>13, <3>1, <3>2 DEF SlotInv, CallsFresh, CallsDistinct, Registered
    <2>. QED
      BY <2>6, <2>9, <2>10, <2>11, <2>14, <2>15 DEF SlotInv
  <1>10. CASE ~ PassesSlot(tm)
    <2>1. /\ queue' = queue
          /\ running' = [running EXCEPT ![tm] = Freed(tm)]
          /\ phase' = [phase EXCEPT ![a] = "gone"]
          /\ host' = [host EXCEPT ![a] = NoCaller]
      BY <1>a, <1>10 DEF AfterExit
    <2>2. running'[tm] = running[tm] - 1
          /\ \A q \in Teams : q # tm => running'[q] = running[q]
      BY <1>1, <1>2, <1>4, <2>1
    <2>3. /\ phase'[a] = "gone"
          /\ \A b \in Ids : b # a => phase'[b] = phase[b]
      BY <1>2, <2>1
    <2>4. TypeOK'
      <3>0. Freed(tm) \in Nat
        BY <1>4
      <3>1. running' \in [Teams -> Nat]
        BY <1>2, <2>1, <3>0
      <3>2. phase' \in [Ids -> Phases] /\ host' \in [Ids -> Callers \cup {NoCaller}]
        BY <1>2, <1>8, <2>1
      <3>. QED
        BY <1>3, <2>1, <3>1, <3>2
           DEF SlotInv, TypeOK, SwarmTypeOK, CoordTypeOK, coordVars
    <2>5. /\ Holders(tm)' = Holders(tm) \ {a}
          /\ \A q \in Teams : q # tm => Holders(q)' = Holders(q)
      BY <1>a, <1>6, <1>8, <2>3 DEF Holders
    <2>6. Cardinality(Holders(tm)') = Cardinality(Holders(tm)) - 1
      BY <1>1, <2>5, HoldersFinite, FS_RemoveElement
    <2>7. SlotAccounting'
      <3>. SUFFICES ASSUME NEW q \in Teams
                    PROVE  running'[q] = Cardinality(Holders(q)')
        BY DEF SlotAccounting
      <3>1. running[q] = Cardinality(Holders(q))
        BY DEF SlotInv, SlotAccounting
      <3>. QED
        BY <2>2, <2>5, <2>6, <3>1
    <2>8. SlotsBounded'
      <3>. SUFFICES ASSUME NEW q \in Teams
                    PROVE  running'[q] <= MaxTeamSize
        BY DEF SlotsBounded
      <3>1. running[q] <= MaxTeamSize /\ running[q] \in Nat
        BY <1>2 DEF SlotInv, SlotsBounded
      <3>2. running'[q] \in {running[q], running[q] - 1}
        BY <2>2
      <3>. QED
        BY <3>1, <3>2, TeamSizeAssumption
    <2>9. WorkConserving'
      BY <1>5, <1>10, <2>1, <2>2 DEF SlotInv, WorkConserving
    <2>10. QueuesWait'
      BY <1>6, <1>7, <2>1, <2>3 DEF QueuesWait
    <2>11. AgentsServe' /\ TeamsFixed'
      <3>1. idSeq' = idSeq /\ serves' = serves /\ status' = status /\ team' = team
        BY <1>3 DEF coordVars
      <3>. QED
        BY <1>1, <2>3, <3>1 DEF SlotInv, AgentsServe, TeamsFixed, Registered
    <2>12. CallsFresh' /\ CallsDistinct'
      <3>1. /\ idSeq' = idSeq /\ serves' = serves /\ status' = status
            /\ call' = call
        BY <1>3 DEF coordVars
      <3>2. \A d \in Callers : call[d].op \in Undispatched => call[d].agent \in Ids
        BY MaxIdsAssumption
           DEF SlotInv, CallsFresh, TypeOK, SwarmTypeOK, AgentIds0, Ids
      <3>. QED
        BY <1>1, <2>3, <3>1, <3>2
           DEF SlotInv, CallsFresh, CallsDistinct, Registered
    <2>. QED
      BY <2>4, <2>7, <2>8, <2>9, <2>10, <2>11, <2>12 DEF SlotInv
  <1>. QED
    BY <1>9, <1>10

-----------------------------------------------------------------------------
(* The invariant and what follows from it.                                   *)

LEMMA InitSlotInv == Init => SlotInv
  <1>. SUFFICES ASSUME Init PROVE SlotInv
    OBVIOUS
  <1>1. CoordTypeOK
    BY MaxIdsAssumption DEF Init, CoordInit, CoordTypeOK, Ids
  <1>2. SwarmTypeOK
    <2>1. 0 \in AgentIds0 /\ 0 \in 0 .. MaxRestarts
      BY MaxIdsAssumption, RestartsAssumption DEF AgentIds0
    <2>2. /\ idSeq \in AgentIds0 /\ serves \in [Ids -> AgentIds0]
          /\ restarts \in [Ids -> 0 .. MaxRestarts] /\ last \in [Jobs -> AgentIds0]
      BY <2>1 DEF Init
    <2>3. phase \in [Ids -> Phases] /\ proc \in [Ids -> Procs]
      BY DEF Init, Phases, Procs
    <2>4. /\ host \in [Ids -> Callers \cup {NoCaller}]
          /\ call \in [Callers -> Call] /\ closed \in BOOLEAN
      BY IdleType DEF Init
    <2>5. running \in [Teams -> Nat]
      BY DEF Init
    <2>6. queue \in [Teams -> Seq(Ids)]
      <3>1. <<>> \in Seq(Ids)
        OBVIOUS
      <3>. QED
        BY <3>1 DEF Init
    <2>. QED
      BY <2>2, <2>3, <2>4, <2>5, <2>6 DEF SwarmTypeOK
  <1>3. AgentsServe /\ TeamsFixed
    BY MaxIdsAssumption DEF Init, CoordInit, AgentsServe, TeamsFixed, Registered, Ids
  <1>4. CallsFresh /\ CallsDistinct
    BY DEF Init, CallsFresh, CallsDistinct, Undispatched, Idle
  <1>5. QueuesWait /\ WorkConserving
    BY DEF Init, QueuesWait, WorkConserving
  <1>6. \A tm \in Teams : Holders(tm) = {}
    BY DEF Init, Holders, Holding, Launching, Leaving
  <1>7. SlotAccounting /\ SlotsBounded
    BY <1>6, FS_EmptySet, TeamSizeAssumption
       DEF Init, SlotAccounting, SlotsBounded
  <1>. QED
    BY <1>1, <1>2, <1>3, <1>4, <1>5, <1>7 DEF SlotInv, TypeOK

LEMMA NextSlotInv == SlotInv /\ [Next]_vars => SlotInv'
  <1>. SUFFICES ASSUME SlotInv, [Next]_vars PROVE SlotInv'
    OBVIOUS
  <1>1. ASSUME NEW a \in Ids, AgentStep(a) \/ MemberExit(a)
        PROVE  SlotInv'
    BY <1>1, AgentQuietSteps, AfterExitStep DEF AgentStep
  <1>2. ASSUME NEW c \in Callers, StartCall(c)
        PROVE  SlotInv'
    BY <1>2, SpawnStep, CallQuietSteps DEF StartCall
  <1>3. ASSUME NEW c \in Callers, CallStep(c) \/ CollectTimeout(c)
        PROVE  SlotInv'
    <2>1. CASE Admit(c)
      BY <2>1, AdmitStep
    <2>2. CASE HandoffStep(c)
      BY <2>2, HandoffRegisterStep, CallQuietSteps DEF HandoffStep
    <2>3. CASE AdoptStep(c)
      BY <2>3, AdoptOneStep, CallQuietSteps DEF AdoptStep
    <2>4. CASE CollectReturn(c) \/ CollectTimeout(c)
      BY <2>4, CallQuietSteps
    <2>5. CASE CollectSleep(c)
      <3>1. /\ UNCHANGED swarmVars /\ UNCHANGED <<status, owner, team>>
            /\ sleepers' = sleepers \cup {c}
        BY <2>5 DEF CollectSleep, FallAsleep
      <3>2. TypeOK'
        BY <3>1 DEF SlotInv, TypeOK, SwarmTypeOK, CoordTypeOK, swarmVars
      <3>. QED
        BY <3>1, <3>2, QuietStep DEF swarmVars, Registered
    <2>. QED
      BY <1>3, <2>1, <2>2, <2>3, <2>4, <2>5 DEF CallStep, CollectStep
  <1>4. CASE Close \/ UNCHANGED vars
    <2>1. /\ UNCHANGED <<coordVars, idSeq, serves, phase, proc, restarts, host,
                         queue, running, call, last>>
          /\ closed' \in BOOLEAN
      BY <1>4 DEF Close, vars, swarmVars, SlotInv, TypeOK, SwarmTypeOK
    <2>2. TypeOK'
      BY <2>1 DEF SlotInv, TypeOK, SwarmTypeOK, CoordTypeOK, coordVars
    <2>. QED
      BY <2>1, <2>2, QuietStep DEF coordVars, Registered
  <1>. QED
    BY <1>1, <1>2, <1>3, <1>4 DEF Next

\* The inductive invariant: who owns which agent, which agents a queue and the
\* slots of a team hold (team.go, admit and afterExit), and that no slot idles.
THEOREM SlotInvariant == Spec => []SlotInv
  BY InitSlotInv, NextSlotInv, PTL DEF Spec

\* Types, whatever the number of ids, teams, callers, slots and relaunches.
THEOREM TypeCorrect == Spec => []TypeOK
  <1>1. SlotInv => TypeOK
    BY DEF SlotInv
  <1>. QED
    BY <1>1, SlotInvariant, PTL

\* admit, onExit and every path between them keep Team.running equal to the
\* number of agents that hold a slot.
THEOREM SlotsExact == Spec => []SlotAccounting
  <1>1. SlotInv => SlotAccounting
    BY DEF SlotInv
  <1>. QED
    BY <1>1, SlotInvariant, PTL

\* The queue of a team is only used while the team is full.
THEOREM NoIdleSlot == Spec => []WorkConserving
  <1>1. SlotInv => WorkConserving
    BY DEF SlotInv
  <1>. QED
    BY <1>1, SlotInvariant, PTL

\* A spec that is admitted to a free slot overtakes none: were one waiting, the
\* team would be full.
THEOREM ServedInOrder == Spec => NoOvertaking
  <1>1. SlotInv /\ [Next]_vars => [\A a \in Ids : phase[a] = "none" /\ phase'[a] = "slot"
                                     => queue[TeamOf(a)] = <<>>]_vars
    <2>. SUFFICES ASSUME SlotInv, Next, NEW a \in Ids,
                         phase[a] = "none", phase'[a] = "slot"
                  PROVE  queue[TeamOf(a)] = <<>>
      OBVIOUS
    <2>0. phase \in [Ids -> Phases]
      BY DEF SlotInv, TypeOK, SwarmTypeOK
    <2>1. ASSUME NEW b \in Ids, AgentStep(b) \/ MemberExit(b)
          PROVE  FALSE
      <3>1. CASE AfterExit(b)
        <4>1. /\ TeamOf(b) \in Teams /\ queue[TeamOf(b)] \in Seq(Ids)
              /\ phase[b] = "removed"
          BY <3>1, TeamOfAgent DEF AfterExit, SlotInv, TypeOK, SwarmTypeOK
        <4>2. PassesSlot(TeamOf(b)) =>
                /\ 1 \in 1 .. Len(queue[TeamOf(b)])
                /\ NextQueued(TeamOf(b)) = queue[TeamOf(b)][1]
          BY <4>1 DEF PassesSlot, NextQueued
        <4>3. PassesSlot(TeamOf(b)) => phase[NextQueued(TeamOf(b))] = "queued"
          BY <4>1, <4>2 DEF SlotInv, QueuesWait
        <4>. QED
          BY <2>0, <3>1, <4>1, <4>3 DEF AfterExit
      <3>. QED
        BY <2>0, <2>1, <3>1
           DEF AgentStep, LaunchOk, LaunchErr, FailLaunch, AddMember,
               MarkRunning, Relaunch, CompleteTask, FailTask, RemoveMember,
               MemberExit
    <2>2. ASSUME NEW c \in Callers, Admit(c)
          PROVE  queue[TeamOf(a)] = <<>>
      <3>1. a = call[c].agent /\ HasSlot(TeamOf(a))
        BY <2>0, <2>2 DEF Admit
      <3>2. TeamOf(a) \in Teams
        BY <2>2, <3>1
           DEF Admit, SlotInv, CallsFresh, TeamsFixed, TeamOf
      <3>3. running[TeamOf(a)] # MaxTeamSize
        BY <3>1, <3>2, TeamSizeAssumption
           DEF HasSlot, SlotInv, TypeOK, SwarmTypeOK
      <3>. QED
        BY <3>2, <3>3 DEF SlotInv, WorkConserving
    <2>3. ASSUME NEW c \in Callers, StartCall(c)
          PROVE  FALSE
      BY <2>3 DEF StartCall, Spawn, AdoptStart, CollectStart, HandoffCheck
    <2>4. ASSUME NEW c \in Callers,
                 HandoffStep(c) \/ AdoptStep(c) \/ CollectStep(c) \/ CollectTimeout(c)
          PROVE  FALSE
      BY <2>4
         DEF HandoffStep, HandoffNoteFails, HandoffRegister, HandoffRetire,
             AdoptStep, AdoptList, Adopt, AdoptSkip, CollectStep, CollectSleep,
             CollectReturn, CollectTimeout, swarmVars
    <2>5. CASE Close
      BY <2>5 DEF Close
    <2>. QED
      BY <2>1, <2>2, <2>3, <2>4, <2>5 DEF Next, CallStep
  <1>. QED
    BY <1>1, SlotInvariant, PTL DEF Spec, NoOvertaking

-----------------------------------------------------------------------------
(* The bound on processes.                                                   *)

\* A live process belongs to an agent between its launch and its report.
LiveHolds ==
    \A a \in Ids : proc[a] = "live" => phase[a] \in {"launched", "added", "watched"}

LEMMA LiveStep == TypeOK /\ LiveHolds /\ SlotInv /\ [Next]_vars => LiveHolds'
  <1>. SUFFICES ASSUME TypeOK, LiveHolds, SlotInv, [Next]_vars
                PROVE  LiveHolds'
    OBVIOUS
  <1>0. proc \in [Ids -> Procs] /\ phase \in [Ids -> Phases]
    BY DEF TypeOK, SwarmTypeOK
  <1>1. ASSUME NEW a \in Ids, AgentStep(a) \/ MemberExit(a)
        PROVE  LiveHolds'
    <2>1. CASE AfterExit(a)
      <3>1. /\ TeamOf(a) \in Teams /\ queue[TeamOf(a)] \in Seq(Ids)
            /\ phase[a] = "removed" /\ proc' = proc
        BY <2>1, TeamOfAgent DEF AfterExit, SlotInv, TypeOK, SwarmTypeOK
      <3>2. PassesSlot(TeamOf(a)) =>
              /\ 1 \in 1 .. Len(queue[TeamOf(a)])
              /\ NextQueued(TeamOf(a)) = queue[TeamOf(a)][1]
        BY <3>1 DEF PassesSlot, NextQueued
      <3>3. PassesSlot(TeamOf(a)) => phase[NextQueued(TeamOf(a))] = "queued"
        BY <3>1, <3>2 DEF SlotInv, QueuesWait
      <3>. QED
        BY <1>0, <2>1, <3>1, <3>3 DEF AfterExit, LiveHolds
    <2>2. CASE MemberExit(a)
      <3>1. PICK e \in Outcomes : proc' = [proc EXCEPT ![a] = e]
        BY <2>2 DEF MemberExit
      <3>2. e # "live" /\ phase' = phase
        BY <2>2 DEF MemberExit, Outcomes
      <3>. QED
        BY <1>0, <3>1, <3>2 DEF LiveHolds
    <2>3. CASE LaunchOk(a) \/ Relaunch(a)
      BY <1>0, <2>3 DEF LaunchOk, Relaunch, LiveHolds
    <2>4. CASE CompleteTask(a) \/ FailTask(a)
      BY <1>0, <2>4 DEF CompleteTask, FailTask, EndedWell, LiveHolds
    <2>5. CASE LaunchErr(a) \/ FailLaunch(a) \/ AddMember(a) \/ MarkRunning(a)
               \/ RemoveMember(a)
      BY <1>0, <2>5
         DEF LaunchErr, FailLaunch, AddMember, MarkRunning, RemoveMember, LiveHolds
    <2>. QED
      BY <1>1, <2>1, <2>2, <2>3, <2>4, <2>5 DEF AgentStep
  <1>2. ASSUME NEW c \in Callers, Admit(c)
        PROVE  LiveHolds'
    <2>1. phase[call[c].agent] = "none" /\ proc' = proc
      BY <1>2 DEF Admit, SlotInv, CallsFresh, Undispatched
    <2>. QED
      BY <1>0, <1>2, <2>1 DEF Admit, LiveHolds
  <1>3. ASSUME NEW c \in Callers, StartCall(c)
        PROVE  UNCHANGED <<phase, proc>>
    BY <1>3 DEF StartCall, Spawn, AdoptStart, CollectStart, HandoffCheck
  <1>4. ASSUME NEW c \in Callers,
               HandoffStep(c) \/ AdoptStep(c) \/ CollectStep(c) \/ CollectTimeout(c)
        PROVE  UNCHANGED <<phase, proc>>
    BY <1>4
       DEF HandoffStep, HandoffNoteFails, HandoffRegister, HandoffRetire,
           AdoptStep, AdoptList, Adopt, AdoptSkip, CollectStep, CollectSleep,
           CollectReturn, CollectTimeout, swarmVars
  <1>5. CASE Close \/ UNCHANGED vars
    BY <1>5 DEF Close, vars, swarmVars, LiveHolds
  <1>6. UNCHANGED <<phase, proc>> => LiveHolds'
    BY DEF LiveHolds
  <1>. QED
    BY <1>1, <1>2, <1>3, <1>4, <1>5, <1>6 DEF Next, CallStep

\* A team runs at most MaxTeamSize member processes, through relaunches,
\* handoffs and adoptions.
THEOREM ProcessesBounded == Spec => []ProcessBound
  <1>1. Init => LiveHolds
    BY DEF Init, LiveHolds
  <1>2. LiveHolds /\ SlotInv => ProcessBound
    <2>. SUFFICES ASSUME LiveHolds, SlotInv, NEW tm \in Teams
                  PROVE  Cardinality({a \in Ids : proc[a] = "live" /\ TeamOf(a) = tm})
                           <= MaxTeamSize
      BY DEF ProcessBound
    <2>. DEFINE live == {a \in Ids : proc[a] = "live" /\ TeamOf(a) = tm}
    <2>1. live \in SUBSET Holders(tm)
      BY DEF LiveHolds, Holders, Holding, Launching
    <2>2. Cardinality(live) <= Cardinality(Holders(tm)) /\ Cardinality(live) \in Nat
      BY <2>1, HoldersFinite, FS_Subset, FS_CardinalityType
    <2>3. /\ Cardinality(Holders(tm)) = running[tm] /\ running[tm] <= MaxTeamSize
          /\ running[tm] \in Nat
      BY DEF SlotInv, SlotAccounting, SlotsBounded, TypeOK, SwarmTypeOK
    <2>. QED
      BY <2>2, <2>3, TeamSizeAssumption
  <1>3. SlotInv => TypeOK
    BY DEF SlotInv
  <1>. QED
    BY <1>1, <1>2, <1>3, LiveStep, SlotInvariant, PTL DEF Spec
-----------------------------------------------------------------------------
(* The registry keeps the promise of TaskBoard.                              *)

LEMMA FinishOnBoard ==
    ASSUME CoordTypeOK, NEW t, NEW s \in Terminal, TryFinish(t, s)
    PROVE  [Board!Next]_status
  <1>1. CASE t \in Ids /\ FinishAllowed(t) /\ status' = [status EXCEPT ![t] = s]
    <2>1. status[t] \in Board!Open
      BY <1>1 DEF CoordTypeOK, FinishAllowed, Registered, Settled, Status, Terminal, Board!Open
    <2>. QED
      BY <1>1, <2>1 DEF Board!Next, Board!Settle, Board!Terminal, Terminal
  <1>2. CASE t \notin Ids \/ status' = status
    BY <1>2 DEF TryFinish, CoordTypeOK, coordVars
  <1>. QED
    BY <1>1, <1>2 DEF TryFinish, coordVars

\* SetStatus with an open task, or with the outcome a task has already.
LEMMA SetStatusOnBoard ==
    ASSUME CoordTypeOK, NEW t, NEW s \in {"running", "handed-off"}, TrySetStatus(t, s)
    PROVE  [Board!Next]_status
  <1>1. CASE t \in Ids /\ Registered(t) /\ ~ Settled(t) /\ status' = [status EXCEPT ![t] = s]
    <2>1. status[t] \in Board!Open
      BY <1>1 DEF CoordTypeOK, Registered, Settled, Status, Terminal, Board!Open
    <2>. QED
      BY <1>1, <2>1 DEF Board!Next, Board!Settle, Board!Begin, Board!Terminal
  <1>2. CASE t \notin Ids \/ status' = status \/ status[t] = s
    BY <1>2 DEF TrySetStatus, CoordTypeOK, coordVars
  <1>. QED
    BY <1>1, <1>2 DEF TrySetStatus, SetStatusAllowed, coordVars

LEMMA RegisterOnBoard ==
    ASSUME CoordTypeOK, NEW t \in Ids, NEW tm, Register(t, t, tm)
    PROVE  [Board!Next]_status
BY DEF Register, Registered, Board!Next, Board!Announce

LEMMA ReassignOnBoard ==
    ASSUME CoordTypeOK, NEW t \in Ids, NEW a, Reassign(t, a)
    PROVE  [Board!Next]_status
  <1>1. status[t] \in Board!Open
    BY DEF CoordTypeOK, Reassign, Registered, Settled, Status, Terminal, Board!Open
  <1>. QED
    BY <1>1 DEF Reassign, Board!Next, Board!Requeue

LEMMA NextOnBoard == SlotInv /\ [Next]_vars => [Board!Next]_status
  <1>. SUFFICES ASSUME SlotInv, [Next]_vars PROVE [Board!Next]_status
    OBVIOUS
  <1>0. CoordTypeOK /\ idSeq \in Nat
    BY DEF SlotInv, TypeOK, SwarmTypeOK, AgentIds0
  <1>1. ASSUME NEW a \in Ids, AgentStep(a) \/ MemberExit(a)
        PROVE  [Board!Next]_status
    <2>1. CASE FailLaunch(a) \/ CompleteTask(a) \/ FailTask(a)
      BY <1>0, <2>1, FinishOnBoard DEF FailLaunch, CompleteTask, FailTask, Terminal
    <2>2. CASE MarkRunning(a)
      BY <1>0, <2>2, SetStatusOnBoard DEF MarkRunning
    <2>3. CASE LaunchOk(a) \/ LaunchErr(a) \/ AddMember(a) \/ Relaunch(a)
               \/ RemoveMember(a) \/ AfterExit(a) \/ MemberExit(a)
      BY <2>3 DEF LaunchOk, LaunchErr, AddMember, Relaunch, RemoveMember,
                  AfterExit, MemberExit, coordVars
    <2>. QED
      BY <1>1, <2>1, <2>2, <2>3 DEF AgentStep
  <1>2. ASSUME NEW c \in Callers, StartCall(c)
        PROVE  [Board!Next]_status
    <2>1. ASSUME NEW tm \in Teams, Spawn(c, tm)
          PROVE  [Board!Next]_status
      <3>1. idSeq + 1 \in Ids
        BY <1>0, <2>1, MaxIdsAssumption DEF Spawn, MayMint, Ids
      <3>. QED
        BY <1>0, <2>1, <3>1, RegisterOnBoard DEF Spawn
    <2>. QED
      BY <1>2, <2>1 DEF StartCall, AdoptStart, CollectStart, HandoffCheck, coordVars
  <1>3. ASSUME NEW c \in Callers, CallStep(c) \/ CollectTimeout(c)
        PROVE  [Board!Next]_status
    <2>1. CASE HandoffRegister(c)
      <3>1. call[c].agent \in Ids
        BY <1>0, <2>1, MaxIdsAssumption
           DEF HandoffRegister, SlotInv, CallsFresh, Undispatched, TypeOK, SwarmTypeOK,
               AgentIds0, Ids
      <3>. QED
        BY <1>0, <2>1, <3>1, RegisterOnBoard DEF HandoffRegister
    <2>2. CASE HandoffRetire(c)
      BY <1>0, <2>2, SetStatusOnBoard DEF HandoffRetire
    <2>3. CASE Adopt(c)
      <3>1. PICK t \in call[c].ids : Reassign(t, idSeq + 1)
        BY <2>3 DEF Adopt
      <3>2. t \in Ids
        BY <1>3 DEF SlotInv, TypeOK, SwarmTypeOK, Call
      <3>. QED
        BY <1>0, <3>1, <3>2, ReassignOnBoard
    <2>4. CASE \/ Admit(c) \/ HandoffNoteFails(c) \/ AdoptList(c) \/ AdoptSkip(c)
               \/ CollectStep(c) \/ CollectTimeout(c)
      BY <2>4 DEF Admit, HandoffNoteFails, AdoptList, AdoptSkip, CollectStep, CollectSleep,
                  FallAsleep, CollectReturn, CollectTimeout, StopWaiting, coordVars
    <2>. QED
      BY <1>3, <2>1, <2>2, <2>3, <2>4 DEF CallStep, HandoffStep, AdoptStep
  <1>4. CASE Close \/ UNCHANGED vars
    BY <1>4 DEF Close, vars, coordVars
  <1>. QED
    BY <1>1, <1>2, <1>3, <1>4 DEF Next

\* The swarm implements TaskBoard: whatever late reports, handoffs and adoptions
\* of a task meet, each step is one the registry's callers were promised
\* (coordinator.go: Register, SetStatus, Complete, Fail, Reassign).
THEOREM BoardKept == Spec => KeepsBoard
  <1>1. Init => Board!Init
    BY DEF Init, CoordInit, Board!Init
  <1>. QED
    BY <1>1, NextOnBoard, SlotInvariant, PTL DEF Spec, KeepsBoard, Board!Spec
-----------------------------------------------------------------------------
(* Every open task has somebody who will report on it.                       *)

\* A step that settles at most tasks, and leaves agents bound that were bound.
LEMMA StrandQuiet ==
    ASSUME NoStrandedTask, TypeOK, serves' = serves,
           \A t \in Ids : Registered(t)' /\ ~ Settled(t)' => Registered(t) /\ ~ Settled(t),
           \A a \in Ids : phase[a] \in {"queued", "watched"} \cup Launching
                 => \/ phase'[a] \in {"queued", "watched"} \cup Launching
                    \/ ~ Registered(serves[a])' \/ Settled(serves[a])',
           \A c \in Callers : call[c].op \in {"admit", "retire"}
                 => \/ /\ call'[c].op \in {"admit", "retire"}
                       /\ call'[c].agent = call[c].agent
                    \/ /\ call[c].agent \in Ids
                       /\ phase'[call[c].agent] \in {"queued", "watched"} \cup Launching
    PROVE  NoStrandedTask'
  <1>. SUFFICES ASSUME NEW t \in Ids, Registered(t)', ~ Settled(t)'
                PROVE  Bound(t)'
    BY DEF NoStrandedTask
  <1>1. Bound(t)
    BY DEF NoStrandedTask
  <1>2. ASSUME NEW a \in Ids, serves[a] = t, phase[a] \in {"queued", "watched"} \cup Launching
        PROVE  Bound(t)'
    BY <1>2 DEF Bound
  <1>3. ASSUME NEW c \in Callers, call[c].op \in {"admit", "retire"}, call[c].agent # 0,
               serves[call[c].agent] = t
        PROVE  Bound(t)'
    BY <1>3 DEF Bound
  <1>. QED
    BY <1>1, <1>2, <1>3 DEF Bound

\* A step that gives an open task to a fresh agent, which its call dispatches.
\* The new agent id serves task u, and c has still to admit it.
Published(c, id, u) ==
    /\ phase' = phase /\ phase[id] = "none"
    /\ serves' = [serves EXCEPT ![id] = u]
    /\ call'[c].op \in {"admit", "retire"} /\ call'[c].agent = id
    /\ call[c].op \notin {"admit", "retire"}
    /\ \A d \in Callers : d # c =>
           /\ call'[d] = call[d]
           /\ call[d].op \in {"admit", "retire"} => call[d].agent # id
    /\ \A t \in Ids : t # u => status'[t] = status[t]

LEMMA StrandPublish ==
    ASSUME SlotInv, NoStrandedTask, TypeOK', NEW c \in Callers, NEW id \in Ids, NEW u \in Ids,
           Published(c, id, u)
    PROVE  NoStrandedTask'
  <1>. USE DEF Published
  <1>. SUFFICES ASSUME NEW t \in Ids, Registered(t)', ~ Settled(t)'
                PROVE  Bound(t)'
    BY DEF NoStrandedTask
  <1>0. serves \in [Ids -> AgentIds0]
    BY DEF SlotInv, TypeOK, SwarmTypeOK
  <1>1. CASE t = u
    <2>1. serves'[call'[c].agent] = t /\ call'[c].agent # 0
      BY <1>0, <1>1, MaxIdsAssumption DEF Ids
    <2>. QED
      BY <2>1 DEF Bound
  <1>2. CASE t # u
    <2>1. Bound(t)
      BY <1>2 DEF NoStrandedTask, Registered, Settled
    <2>2. ASSUME NEW a \in Ids, serves[a] = t, phase[a] \in {"queued", "watched"} \cup Launching
          PROVE  Bound(t)'
      <3>1. a # id
        BY <2>2 DEF Launching
      <3>2. serves'[a] = t /\ phase'[a] \in {"queued", "watched"} \cup Launching
        BY <1>0, <2>2, <3>1
      <3>. QED
        BY <3>2 DEF Bound, Launching
    <2>3. ASSUME NEW d \in Callers, call[d].op \in {"admit", "retire"}, call[d].agent # 0,
                 serves[call[d].agent] = t
          PROVE  Bound(t)'
      <3>1. d # c /\ call'[d] = call[d] /\ call[d].agent # id
        BY <2>3
      <3>2. call[d].agent \in Ids
        <4>1. call[d] \in Call
          BY DEF SlotInv, TypeOK, SwarmTypeOK
        <4>2. call[d].agent \in AgentIds0
          BY <4>1 DEF Call
        <4>. QED
          BY <2>3, <4>2, MaxIdsAssumption DEF AgentIds0, Ids
      <3>3. serves'[call'[d].agent] = t
        BY <1>0, <2>3, <3>1, <3>2
      <3>. QED
        BY <2>3, <3>1, <3>3 DEF Bound
    <2>. QED
      BY <2>1, <2>2, <2>3 DEF Bound
  <1>. QED
    BY <1>1, <1>2
LEMMA StrandAgentSteps ==
    ASSUME SlotInv, SlotInv', NoStrandedTask, NEW a \in Ids, AgentStep(a) \/ MemberExit(a)
    PROVE  NoStrandedTask'
  <1>0. /\ TypeOK /\ CoordTypeOK /\ phase \in [Ids -> Phases]
        /\ status \in [Ids -> Status \cup {"none"}]
    BY DEF SlotInv, TypeOK, SwarmTypeOK, CoordTypeOK
  <1>1. serves' = serves /\ call' = call
    BY DEF AgentStep, LaunchOk, LaunchErr, FailLaunch, AddMember, MarkRunning, Relaunch,
           CompleteTask, FailTask, RemoveMember, AfterExit, MemberExit
  <1>2. phase[a] # "none" => serves[a] \in Ids /\ Registered(serves[a])
    BY DEF SlotInv, AgentsServe
  <1>3. CASE FailLaunch(a) \/ CompleteTask(a) \/ FailTask(a)
    <2>1. PICK s \in Terminal : TryFinish(serves[a], s)
      BY <1>3 DEF FailLaunch, CompleteTask, FailTask, Terminal
    <2>2. serves[a] \in Ids /\ Registered(serves[a])
      BY <1>2, <1>3 DEF FailLaunch, CompleteTask, FailTask
    <2>3. Settled(serves[a])'
      BY <1>0, <1>1, <2>1, <2>2 DEF TryFinish, FinishAllowed, Settled, coordVars
    <2>4. \A t \in Ids : Registered(t)' /\ ~ Settled(t)' => Registered(t) /\ ~ Settled(t)
      BY <1>0, <2>1, <2>2 DEF TryFinish, FinishAllowed, Settled, Registered, coordVars
    <2>5. \A b \in Ids : b # a => phase'[b] = phase[b]
      BY <1>0, <1>3 DEF FailLaunch, CompleteTask, FailTask
    <2>. QED
      BY <1>0, <1>1, <2>3, <2>4, <2>5, StrandQuiet
  <1>4. CASE MarkRunning(a)
    <2>1. \A t \in Ids : Registered(t)' /\ ~ Settled(t)' => Registered(t) /\ ~ Settled(t)
      BY <1>0, <1>4 DEF MarkRunning, TrySetStatus, SetStatusAllowed, Registered, Settled,
                        coordVars
    <2>2. \A b \in Ids : phase'[b] = IF b = a THEN "watched" ELSE phase[b]
      BY <1>0, <1>4 DEF MarkRunning
    <2>. QED
      BY <1>0, <1>1, <2>1, <2>2, StrandQuiet
  <1>5. CASE AfterExit(a)
    <2>1. /\ TeamOf(a) \in Teams /\ queue[TeamOf(a)] \in Seq(Ids)
          /\ phase[a] = "removed" /\ status' = status
      BY <1>0, <1>5, TeamOfAgent DEF AfterExit, TypeOK, SwarmTypeOK, coordVars
    <2>2. \A b \in Ids : phase'[b] \in {phase[b], "slot"} \/ b = a
      BY <1>0, <1>5 DEF AfterExit
    <2>3. \A b \in Ids : phase[b] \in {"queued", "watched"} \cup Launching
              => phase'[b] \in {"queued", "watched"} \cup Launching
      BY <2>1, <2>2 DEF Launching
    <2>. QED
      BY <1>0, <1>1, <2>1, <2>3, StrandQuiet DEF Registered, Settled
  <1>6. CASE \/ LaunchOk(a) \/ LaunchErr(a) \/ AddMember(a) \/ Relaunch(a)
             \/ RemoveMember(a) \/ MemberExit(a)
    <2>1. status' = status
      BY <1>6 DEF LaunchOk, LaunchErr, AddMember, Relaunch, RemoveMember, MemberExit, coordVars
    <2>2. \A b \in Ids : phase[b] \in {"queued", "watched"} \cup Launching
              => phase'[b] \in {"queued", "watched"} \cup Launching
      BY <1>0, <1>6 DEF LaunchOk, LaunchErr, AddMember, Relaunch, RemoveMember, MemberExit,
                        Launching
    <2>. QED
      BY <1>0, <1>1, <2>1, <2>2, StrandQuiet DEF Registered, Settled
  <1>. QED
    BY <1>3, <1>4, <1>5, <1>6 DEF AgentStep

LEMMA StrandPublishSteps ==
    ASSUME SlotInv, SlotInv', NoStrandedTask, NEW c \in Callers,
           (\E tm \in Teams : Spawn(c, tm)) \/ HandoffRegister(c) \/ Adopt(c)
    PROVE  NoStrandedTask'
  <1>0. /\ TypeOK /\ TypeOK' /\ idSeq \in Nat /\ call \in [Callers -> Call]
        /\ status \in [Ids -> Status \cup {"none"}]
    BY DEF SlotInv, TypeOK, SwarmTypeOK, CoordTypeOK, AgentIds0
  <1>1. \A d \in Callers : call[d].op \in Undispatched => call[d].agent \in 1 .. idSeq
    BY DEF SlotInv, CallsFresh
  <1>2. \A b \in Ids : b > idSeq => phase[b] = "none"
    BY <1>0 DEF SlotInv, AgentsServe, Ids
  <1>3. ASSUME NEW tm \in Teams, Spawn(c, tm)
        PROVE  NoStrandedTask'
    <2>0. idSeq + 1 \in Ids
      BY <1>0, <1>3, MaxIdsAssumption DEF Spawn, MayMint, Ids
    <2>1. PICK id \in Ids : id = idSeq + 1
      BY <2>0
    <2>9. phase[id] = "none" /\ phase' = phase
      BY <1>0, <1>2, <1>3, <2>1 DEF Spawn
    <2>2. \A t \in Ids : t # id => status'[t] = status[t]
      BY <1>0, <1>3, <2>1 DEF Spawn, Register
    <2>3. call[c].op = "idle" /\ serves' = [serves EXCEPT ![id] = id]
      BY <1>3, <2>1 DEF Spawn, Free, Idle
    <2>4. call'[c].op = "admit" /\ call'[c].agent = id
      BY <1>0, <1>3, <2>1 DEF Spawn, Idle
    <2>5. \A d \in Callers : d # c => call'[d] = call[d]
      BY <1>0, <1>3 DEF Spawn
    <2>6. \A d \in Callers : call[d].op \in {"admit", "retire"} => call[d].agent # id
      BY <1>0, <1>1, <2>1 DEF Undispatched
    <2>7. \A d \in Callers : d # c =>
             /\ call'[d] = call[d]
             /\ call[d].op \in {"admit", "retire"} => call[d].agent # id
      BY <2>5, <2>6
    <2>8. call[c].op \notin {"admit", "retire"} /\ call'[c].op \in {"admit", "retire"}
      BY <2>3, <2>4, <2>5
    <2>. QED
      <3>1. Published(c, id, id)
        BY <2>2, <2>3, <2>4, <2>7, <2>8, <2>9 DEF Published
      <3>. QED
        BY <1>0, <3>1, StrandPublish
  <1>4. CASE HandoffRegister(c)
    <2>. DEFINE id == call[c].agent
    <2>0. id \in 1 .. idSeq /\ phase[id] = "none" /\ phase' = phase
      BY <1>4 DEF HandoffRegister, SlotInv, CallsFresh, Undispatched
    <2>1. id \in Ids
      BY <1>0, <2>0, MaxIdsAssumption DEF TypeOK, SwarmTypeOK, AgentIds0, Ids
    <2>2. \A t \in Ids : t # id => status'[t] = status[t]
      BY <1>0, <1>4 DEF HandoffRegister, Register
    <2>3. call[c].op = "handoff" /\ serves' = [serves EXCEPT ![id] = id]
      BY <1>4 DEF HandoffRegister
    <2>4. call'[c].op = "retire" /\ call'[c].agent = id
      BY <1>0, <1>4 DEF HandoffRegister, Call
    <2>5. \A d \in Callers : d # c => call'[d] = call[d]
      BY <1>0, <1>4 DEF HandoffRegister
    <2>6. \A d \in Callers : d # c /\ call[d].op \in {"admit", "retire"} => call[d].agent # id
      BY <2>3 DEF SlotInv, CallsDistinct, Undispatched
    <2>. QED
      <3>1. call[c].op \notin {"admit", "retire"} /\ call'[c].op \in {"admit", "retire"}
        BY <2>3, <2>4
      <3>. HIDE DEF id
      <3>2. Published(c, id, id)
        BY <2>0, <2>2, <2>3, <2>4, <2>5, <2>6, <3>1 DEF Published
      <3>. QED
        BY <1>0, <2>1, <3>2, StrandPublish
  <1>5. CASE Adopt(c)
    <2>. MayMint /\ phase' = phase
      BY <1>5 DEF Adopt
    <2>0. idSeq + 1 \in Ids
      BY <1>0, MaxIdsAssumption DEF MayMint, Ids
    <2>1. PICK id \in Ids : id = idSeq + 1
      BY <2>0
    <2>9. phase[id] = "none" /\ phase' = phase
      BY <1>0, <1>2, <2>1
    <2>2. PICK t \in call[c].ids :
              /\ Reassign(t, id) /\ serves' = [serves EXCEPT ![id] = t]
              /\ call' = [call EXCEPT ![c].op = "admit", ![c].agent = id,
                                      ![c].ids = @ \ {t}]
      BY <1>5, <2>1 DEF Adopt
    <2>3. t \in Ids /\ \A u \in Ids : u # t => status'[u] = status[u]
      BY <1>0, <2>2 DEF Reassign, Call
    <2>4. call'[c].op = "admit" /\ call'[c].agent = id
      BY <1>0, <2>2 DEF Call
    <2>5. call[c].op = "adopt" /\ \A d \in Callers : d # c => call'[d] = call[d]
      BY <1>0, <1>5, <2>2 DEF Adopt
    <2>6. \A d \in Callers : call[d].op \in {"admit", "retire"} => call[d].agent # id
      BY <1>0, <1>1, <2>1 DEF Undispatched
    <2>7. \A d \in Callers : d # c =>
             /\ call'[d] = call[d]
             /\ call[d].op \in {"admit", "retire"} => call[d].agent # id
      BY <2>5, <2>6
    <2>8. call[c].op \notin {"admit", "retire"} /\ call'[c].op \in {"admit", "retire"}
      BY <2>3, <2>4, <2>5
    <2>. QED
      <3>1. t \in Ids /\ serves' = [serves EXCEPT ![id] = t]
        BY <2>2, <2>3
      <3>2. \A u \in Ids : u # t => status'[u] = status[u]
        BY <2>3
      <3>. QED
        <4>1. Published(c, id, t)
          BY <2>4, <2>7, <2>8, <2>9, <3>1, <3>2 DEF Published
        <4>. QED
          BY <1>0, <3>1, <4>1, StrandPublish
  <1>. QED
    BY <1>3, <1>4, <1>5

LEMMA NextStranded == SlotInv /\ SlotInv' /\ NoStrandedTask /\ [Next]_vars => NoStrandedTask'
  <1>. SUFFICES ASSUME SlotInv, SlotInv', NoStrandedTask, [Next]_vars
                PROVE  NoStrandedTask'
    OBVIOUS
  <1>0. /\ TypeOK /\ CoordTypeOK /\ phase \in [Ids -> Phases] /\ call \in [Callers -> Call]
        /\ status \in [Ids -> Status \cup {"none"}] /\ idSeq \in AgentIds0
    BY DEF SlotInv, TypeOK, SwarmTypeOK, CoordTypeOK
  <1>1. ASSUME NEW c \in Callers, Admit(c)
        PROVE  NoStrandedTask'
    <2>. DEFINE a == call[c].agent
    <2>1. a \in Ids /\ phase[a] = "none" /\ status' = status /\ serves' = serves
      BY <1>0, <1>1, MaxIdsAssumption
         DEF Admit, SlotInv, CallsFresh, Undispatched, AgentIds0, Ids, coordVars
    <2>2. \A b \in Ids : phase'[b] = phase[b] \/ (b = a /\ phase'[b] \in {"slot", "queued"})
      BY <1>0, <1>1 DEF Admit
    <2>3. phase'[a] \in {"slot", "queued"}
      BY <1>0, <1>1, <2>1 DEF Admit
    <2>4. \A d \in Callers : d # c => call'[d] = call[d]
      BY <1>0, <1>1 DEF Admit
    <2>. QED
      BY <1>0, <2>1, <2>2, <2>3, <2>4, StrandQuiet DEF Launching, Registered, Settled
  <1>2. ASSUME NEW c \in Callers, HandoffRetire(c)
        PROVE  NoStrandedTask'
    <2>1. \A t \in Ids : Registered(t)' /\ ~ Settled(t)' => Registered(t) /\ ~ Settled(t)
      BY <1>0, <1>2 DEF HandoffRetire, TrySetStatus, SetStatusAllowed, Registered, Settled,
                        Terminal, coordVars
    <2>2. /\ call'[c].op = "admit" /\ call'[c].agent = call[c].agent
          /\ \A d \in Callers : d # c => call'[d] = call[d]
      BY <1>0, <1>2 DEF HandoffRetire, Idle
    <2>3. serves' = serves /\ phase' = phase
      BY <1>2 DEF HandoffRetire
    <2>. QED
      BY <1>0, <2>1, <2>2, <2>3, StrandQuiet
  <1>3. ASSUME UNCHANGED <<status, serves, phase>>, NEW c \in Callers,
               call[c].op \notin {"admit", "retire"},
               \A d \in Callers : d # c => call'[d] = call[d]
        PROVE  NoStrandedTask'
    BY <1>0, <1>3, StrandQuiet DEF Registered, Settled
  <1>4. ASSUME NEW c \in Callers,
               \/ HandoffNoteFails(c) \/ AdoptList(c) \/ AdoptSkip(c) \/ CollectStep(c)
               \/ CollectTimeout(c)
               \/ \E tm \in Teams : \/ AdoptStart(c, tm) \/ CollectStart(c, tm)
                                    \/ \E t \in Ids : HandoffCheck(c, t, tm)
        PROVE  NoStrandedTask'
    <2>0. UNCHANGED <<status, serves, phase>>
      BY <1>4 DEF HandoffNoteFails, AdoptList, AdoptSkip, CollectStep, CollectSleep, FallAsleep,
                  CollectReturn, CollectTimeout, StopWaiting, AdoptStart, CollectStart,
                  HandoffCheck, coordVars, swarmVars
    <2>1. call[c].op \notin {"admit", "retire"}
      <3>1. Free(c) => call[c].op = "idle"
        BY DEF Free, Idle
      <3>. QED
        BY <1>4, <3>1 DEF HandoffNoteFails, AdoptList, AdoptSkip, CollectStep, CollectSleep,
                          CollectReturn, CollectTimeout, AdoptStart, CollectStart, HandoffCheck
    <2>2. \A d \in Callers : d # c => call'[d] = call[d]
      BY <1>0, <1>4
         DEF HandoffNoteFails, AdoptList, AdoptSkip, CollectStep, CollectSleep, FallAsleep,
             CollectReturn, CollectTimeout, StopWaiting, AdoptStart, CollectStart,
             HandoffCheck, coordVars, swarmVars
    <2>. QED
      BY <1>3, <2>0, <2>1, <2>2
  <1>5. CASE Close \/ UNCHANGED vars
    <2>1. UNCHANGED <<status, serves, phase, call>>
      BY <1>5 DEF Close, vars, coordVars, swarmVars
    <2>. QED
      BY <1>0, <2>1, StrandQuiet DEF Registered, Settled
  <1>. QED
    BY <1>1, <1>2, <1>4, <1>5, StrandAgentSteps, StrandPublishSteps
       DEF Next, StartCall, CallStep, HandoffStep, AdoptStep

\* Every registered task that is not settled has an agent on its way or a call
\* about to dispatch one: no path of Handoff, AdoptOrphans, launch or watch
\* forgets the task it took on.
THEOREM NothingStranded == Spec => []NoStrandedTask
  <1>1. Init => NoStrandedTask
    BY DEF Init, CoordInit, NoStrandedTask, Registered
  <1>. QED
    BY <1>1, NextStranded, SlotInvariant, PTL DEF Spec
-----------------------------------------------------------------------------
(* Statuses are honest.                                                      *)

\* An agent that has not been launched has no process, so that no result of an
\* earlier run can be taken for its own.
Unlaunched ==
    \A a \in Ids : phase[a] \in {"none", "queued", "slot", "failed"} => proc[a] = "none"

HonestInv == Unlaunched /\ HonestStatus

\* Results and watchers stay, and no task becomes done or running.
LEMMA HonestQuiet ==
    ASSUME HonestStatus,
           \A a \in Ids : proc[a] = "ok" => proc'[a] = "ok" /\ serves'[a] = serves[a],
           \A a \in Ids : phase[a] = "watched"
                 => phase'[a] = "watched" /\ serves'[a] = serves[a],
           \A t \in Ids : status'[t] = "done" => status[t] = "done",
           \A t \in Ids : status'[t] = "running" => status[t] = "running"
    PROVE  HonestStatus'
  <1>. SUFFICES ASSUME NEW t \in Ids
                PROVE  /\ status'[t] = "done" =>
                             \E a \in Ids : serves'[a] = t /\ proc'[a] = "ok"
                       /\ status'[t] = "running" =>
                             \E a \in Ids : serves'[a] = t /\ phase'[a] = "watched"
    BY DEF HonestStatus
  <1>1. ASSUME status'[t] = "done"
        PROVE  \E a \in Ids : serves'[a] = t /\ proc'[a] = "ok"
    <2>1. PICK a \in Ids : serves[a] = t /\ proc[a] = "ok"
      BY <1>1 DEF HonestStatus
    <2>. QED
      BY <2>1
  <1>2. ASSUME status'[t] = "running"
        PROVE  \E a \in Ids : serves'[a] = t /\ phase'[a] = "watched"
    <2>1. PICK a \in Ids : serves[a] = t /\ phase[a] = "watched"
      BY <1>2 DEF HonestStatus
    <2>. QED
      BY <2>1
  <1>. QED
    BY <1>1, <1>2

\* The watcher of a reports how its process ended.
LEMMA HonestReport ==
    ASSUME SlotInv, HonestInv, NEW a \in Ids, NEW s \in Terminal, TryFinish(serves[a], s),
           phase[a] # "none", s = "done" => proc[a] = "ok",
           serves' = serves, proc' = proc,
           \A b \in Ids : b # a => phase'[b] = phase[b]
    PROVE  HonestStatus'
  <1>0. status \in [Ids -> Status \cup {"none"}]
    BY DEF SlotInv, TypeOK, CoordTypeOK
  <1>1. serves[a] \in Ids /\ Registered(serves[a])
    BY DEF SlotInv, AgentsServe
  <1>2. status'[serves[a]] \in Terminal /\ status'[serves[a]] \in {status[serves[a]], s}
    BY <1>0, <1>1 DEF TryFinish, FinishAllowed, Settled, coordVars
  <1>3. \A t \in Ids : t # serves[a] => status'[t] = status[t]
    BY <1>0, <1>1 DEF TryFinish, coordVars
  <1>. SUFFICES ASSUME NEW t \in Ids
                PROVE  /\ status'[t] = "done" =>
                             \E b \in Ids : serves[b] = t /\ proc[b] = "ok"
                       /\ status'[t] = "running" =>
                             \E b \in Ids : serves[b] = t /\ phase'[b] = "watched"
    BY DEF HonestStatus
  <1>4. CASE t = serves[a]
    BY <1>1, <1>2, <1>4 DEF HonestInv, HonestStatus, Terminal
  <1>5. CASE t # serves[a]
    BY <1>3, <1>5 DEF HonestInv, HonestStatus
  <1>. QED
    BY <1>4, <1>5

LEMMA HonestAgentSteps ==
    ASSUME SlotInv, HonestInv, NEW a \in Ids, AgentStep(a) \/ MemberExit(a)
    PROVE  HonestInv'
  <1>0. /\ phase \in [Ids -> Phases] /\ proc \in [Ids -> Procs]
        /\ status \in [Ids -> Status \cup {"none"}] /\ TypeOK
    BY DEF SlotInv, TypeOK, SwarmTypeOK, CoordTypeOK
  <1>1. serves' = serves
    BY DEF AgentStep, LaunchOk, LaunchErr, FailLaunch, AddMember, MarkRunning, Relaunch,
           CompleteTask, FailTask, RemoveMember, AfterExit, MemberExit
  <1>2. CASE FailLaunch(a) \/ CompleteTask(a) \/ FailTask(a)
    <2>1. Unlaunched'
      BY <1>0, <1>2 DEF FailLaunch, CompleteTask, FailTask, HonestInv, Unlaunched
    <2>2. PICK s \in Terminal : /\ TryFinish(serves[a], s)
                                /\ s = "done" => proc[a] = "ok"
      BY <1>2 DEF FailLaunch, CompleteTask, FailTask, EndedWell, Terminal
    <2>3. /\ phase[a] # "none" /\ proc' = proc
          /\ \A b \in Ids : b # a => phase'[b] = phase[b]
      BY <1>0, <1>2 DEF FailLaunch, CompleteTask, FailTask
    <2>4. HonestStatus'
      BY <1>1, <2>2, <2>3, HonestReport
    <2>. QED
      BY <2>1, <2>4 DEF HonestInv
  <1>3. CASE MarkRunning(a)
    <2>1. proc' = proc /\ phase' = [phase EXCEPT ![a] = "watched"] /\ phase[a] = "added"
      BY <1>3 DEF MarkRunning
    <2>2. Unlaunched'
      BY <1>0, <2>1 DEF HonestInv, Unlaunched
    <2>3. serves[a] \in Ids /\ TrySetStatus(serves[a], "running")
      BY <1>3, <2>1 DEF MarkRunning, SlotInv, AgentsServe
    <2>4. \A t \in Ids : /\ status'[t] = "done" => status[t] = "done"
                         /\ status'[t] = "running" => t = serves[a] \/ status[t] = "running"
      BY <1>0, <2>3 DEF TrySetStatus, SetStatusAllowed, coordVars
    <2>5. HonestStatus'
      <3>. SUFFICES ASSUME NEW t \in Ids
                    PROVE  /\ status'[t] = "done" =>
                                 \E b \in Ids : serves[b] = t /\ proc[b] = "ok"
                           /\ status'[t] = "running" =>
                                 \E b \in Ids : serves[b] = t /\ phase'[b] = "watched"
        BY <1>1, <2>1 DEF HonestStatus
      <3>1. status'[t] = "done" => \E b \in Ids : serves[b] = t /\ proc[b] = "ok"
        BY <2>4 DEF HonestInv, HonestStatus
      <3>2. ASSUME status[t] = "running"
            PROVE  \E b \in Ids : serves[b] = t /\ phase'[b] = "watched"
        <4>1. PICK b \in Ids : serves[b] = t /\ phase[b] = "watched"
          BY <3>2 DEF HonestInv, HonestStatus
        <4>2. phase'[b] = "watched"
          BY <1>0, <2>1, <4>1
        <4>. QED
          BY <4>1, <4>2
      <3>3. phase'[a] = "watched"
        BY <1>0, <2>1
      <3>. QED
        BY <2>4, <3>1, <3>2, <3>3
    <2>. QED
      BY <2>2, <2>5 DEF HonestInv
  <1>4. CASE AfterExit(a)
    <2>1. /\ TeamOf(a) \in Teams /\ queue[TeamOf(a)] \in Seq(Ids)
          /\ phase[a] = "removed" /\ status' = status /\ proc' = proc
      BY <1>0, <1>4, TeamOfAgent DEF AfterExit, TypeOK, SwarmTypeOK, coordVars
    <2>2. PassesSlot(TeamOf(a)) =>
            /\ 1 \in 1 .. Len(queue[TeamOf(a)])
            /\ NextQueued(TeamOf(a)) = queue[TeamOf(a)][1]
      BY <2>1 DEF PassesSlot, NextQueued
    <2>3. PassesSlot(TeamOf(a)) => phase[NextQueued(TeamOf(a))] = "queued"
      BY <2>1, <2>2 DEF SlotInv, QueuesWait
    <2>4. Unlaunched'
      BY <1>0, <1>4, <2>1, <2>3 DEF AfterExit, HonestInv, Unlaunched
    <2>5. \A b \in Ids : phase[b] = "watched" => phase'[b] = "watched"
      BY <1>0, <1>4, <2>1, <2>3 DEF AfterExit
    <2>6. HonestStatus'
      BY <1>1, <2>1, <2>5, HonestQuiet DEF HonestInv
    <2>. QED
      BY <2>4, <2>6 DEF HonestInv
  <1>5. CASE \/ LaunchOk(a) \/ LaunchErr(a) \/ AddMember(a) \/ Relaunch(a)
             \/ RemoveMember(a) \/ MemberExit(a)
    <2>1. status' = status
      BY <1>5 DEF LaunchOk, LaunchErr, AddMember, Relaunch, RemoveMember, MemberExit, coordVars
    <2>2. \A b \in Ids : phase[b] = "watched" => phase'[b] = "watched"
      BY <1>0, <1>5 DEF LaunchOk, LaunchErr, AddMember, Relaunch, RemoveMember, MemberExit
    <2>3. \A b \in Ids : proc[b] = "ok" => proc'[b] = "ok"
      BY <1>0, <1>5
         DEF LaunchOk, LaunchErr, AddMember, Relaunch, RemoveMember, MemberExit, HonestInv,
             Unlaunched
    <2>4. Unlaunched'
      BY <1>0, <1>5
         DEF LaunchOk, LaunchErr, AddMember, Relaunch, RemoveMember, MemberExit, HonestInv,
             Unlaunched, Outcomes
    <2>5. HonestStatus'
      BY <1>1, <2>1, <2>2, <2>3, HonestQuiet DEF HonestInv
    <2>. QED
      BY <2>4, <2>5 DEF HonestInv
  <1>. QED
    BY <1>2, <1>3, <1>4, <1>5 DEF AgentStep

\* A call's step gives tasks to agents that have not been launched, opens tasks
\* or retires them.
LEMMA HonestCallSteps ==
    ASSUME SlotInv, HonestInv, NEW c \in Callers,
           StartCall(c) \/ CallStep(c) \/ CollectTimeout(c)
    PROVE  HonestInv'
  <1>0. /\ phase \in [Ids -> Phases] /\ proc \in [Ids -> Procs] /\ call[c] \in Call
        /\ status \in [Ids -> Status \cup {"none"}] /\ serves \in [Ids -> AgentIds0]
        /\ idSeq \in Nat
    BY DEF SlotInv, TypeOK, SwarmTypeOK, CoordTypeOK, AgentIds0
  <1>1. proc' = proc
    BY DEF StartCall, CallStep, CollectTimeout, Spawn, AdoptStart, CollectStart, HandoffCheck,
           Admit, HandoffStep, HandoffNoteFails, HandoffRegister, HandoffRetire, AdoptStep,
           AdoptList, Adopt, AdoptSkip, CollectStep, CollectSleep, CollectReturn, swarmVars
  <1>2. \A t \in Ids : /\ status'[t] = "done" => status[t] = "done"
                       /\ status'[t] = "running" => status[t] = "running"
    <2>1. CASE \E tm \in Teams : Spawn(c, tm)
      BY <1>0, <2>1 DEF Spawn, Register
    <2>2. CASE HandoffRegister(c)
      BY <1>0, <2>2 DEF HandoffRegister, Register
    <2>3. CASE HandoffRetire(c)
      BY <1>0, <2>3 DEF HandoffRetire, TrySetStatus, coordVars
    <2>4. CASE Adopt(c)
      <3>1. PICK t \in call[c].ids : Reassign(t, idSeq + 1)
        BY <2>4 DEF Adopt
      <3>. QED
        BY <1>0, <3>1 DEF Reassign
    <2>5. CASE \/ Admit(c) \/ HandoffNoteFails(c) \/ AdoptList(c) \/ AdoptSkip(c)
               \/ CollectStep(c) \/ CollectTimeout(c)
               \/ \E tm \in Teams : \/ AdoptStart(c, tm) \/ CollectStart(c, tm)
                                    \/ \E t \in Ids : HandoffCheck(c, t, tm)
      <3>1. status' = status
        BY <2>5 DEF Admit, HandoffNoteFails, AdoptList, AdoptSkip, CollectStep, CollectSleep,
                    FallAsleep, CollectReturn, CollectTimeout, StopWaiting, AdoptStart,
                    CollectStart, HandoffCheck, coordVars
      <3>. QED
        BY <3>1
    <2>. QED
      BY <2>1, <2>2, <2>3, <2>4, <2>5 DEF StartCall, CallStep, HandoffStep, AdoptStep
  <1>3. \A a \in Ids : phase[a] # "none" => serves'[a] = serves[a]
    <2>1. CASE \E tm \in Teams : Spawn(c, tm)
      BY <1>0, <2>1 DEF Spawn, SlotInv, AgentsServe
    <2>2. CASE HandoffRegister(c)
      BY <1>0, <2>2 DEF HandoffRegister, SlotInv, CallsFresh, Undispatched
    <2>3. CASE Adopt(c)
      <3>1. PICK t : serves' = [serves EXCEPT ![idSeq + 1] = t]
        BY <2>3 DEF Adopt
      <3>. QED
        BY <1>0, <3>1 DEF SlotInv, AgentsServe
    <2>4. CASE \/ Admit(c) \/ HandoffNoteFails(c) \/ HandoffRetire(c) \/ AdoptList(c)
               \/ AdoptSkip(c) \/ CollectStep(c) \/ CollectTimeout(c)
               \/ \E tm \in Teams : \/ AdoptStart(c, tm) \/ CollectStart(c, tm)
                                    \/ \E t \in Ids : HandoffCheck(c, t, tm)
      <3>1. serves' = serves
        BY <2>4 DEF Admit, HandoffNoteFails, HandoffRetire, AdoptList, AdoptSkip, CollectStep,
                    CollectSleep, CollectReturn, CollectTimeout, AdoptStart, CollectStart,
                    HandoffCheck, swarmVars
      <3>. QED
        BY <3>1
    <2>. QED
      BY <2>1, <2>2, <2>3, <2>4 DEF StartCall, CallStep, HandoffStep, AdoptStep
  <1>4. \A a \in Ids : \/ phase'[a] = phase[a]
                       \/ phase[a] = "none" /\ phase'[a] \in {"slot", "queued"}
    <2>1. CASE Admit(c)
      <3>1. phase[call[c].agent] = "none"
        BY <2>1 DEF Admit, SlotInv, CallsFresh, Undispatched
      <3>. QED
        BY <1>0, <2>1, <3>1 DEF Admit
    <2>2. CASE ~ Admit(c)
      <3>1. phase' = phase
        BY <2>2 DEF StartCall, CallStep, CollectTimeout, Spawn, AdoptStart, CollectStart,
                    HandoffCheck, HandoffStep, HandoffNoteFails, HandoffRegister,
                    HandoffRetire, AdoptStep, AdoptList, Adopt, AdoptSkip, CollectStep,
                    CollectSleep, CollectReturn, swarmVars
      <3>. QED
        BY <3>1
    <2>. QED
      BY <2>1, <2>2
  <1>5. Unlaunched'
    BY <1>0, <1>1, <1>4 DEF HonestInv, Unlaunched
  <1>6. \A a \in Ids : proc[a] = "ok" => phase[a] # "none"
    BY DEF HonestInv, Unlaunched
  <1>7. HonestStatus'
    BY <1>1, <1>2, <1>3, <1>4, <1>6, HonestQuiet DEF HonestInv
  <1>. QED
    BY <1>5, <1>7 DEF HonestInv

\* A task is only ever shown as done on the word of a process of its own that
\* ended well, and as running while somebody watches it: reports of earlier
\* owners, late or not, cannot change that (lifecycle.go, launch and watch).
THEOREM StatusesHonest == Spec => []HonestStatus
  <1>1. Init => HonestInv
    BY DEF Init, CoordInit, HonestInv, Unlaunched, HonestStatus
  <1>2. SlotInv /\ HonestInv /\ [Next]_vars => HonestInv'
    <2>. SUFFICES ASSUME SlotInv, HonestInv, [Next]_vars PROVE HonestInv'
      OBVIOUS
    <2>1. CASE Close \/ UNCHANGED vars
      <3>1. UNCHANGED <<status, serves, phase, proc>>
        BY <2>1 DEF Close, vars, coordVars, swarmVars
      <3>. QED
        BY <3>1 DEF HonestInv, Unlaunched, HonestStatus
    <2>. QED
      BY <2>1, HonestAgentSteps, HonestCallSteps DEF Next
  <1>3. HonestInv => HonestStatus
    BY DEF HonestInv
  <1>. QED
    BY <1>1, <1>2, <1>3, SlotInvariant, PTL DEF Spec
=============================================================================
