---------------------------- MODULE CronStore_proofs ----------------------------
(***************************************************************************)
(* Proofs about CronStore, for any schedulers and commands, and however    *)
(* long time runs, however many commands are given and however much fails. *)
(***************************************************************************)
EXTENDS CronStore, TLAPS

\* A command that pauses the job is going to write a pause, and once it has, no
\* write that follows it can make the job active.
PauseInv ==
    /\ held => job.status = "paused"
    /\ \A c \in Commands :
          cmd[c].pc = "update" /\ cmd[c].op = "pause" => cmd[c].write.status = "paused"

\* The next slot is at most a minute ahead, and whoever is going to write the
\* job moves the slot it has read ahead or leaves it.
AheadInv ==
    /\ job.next <= clock + 1
    /\ \A s \in Schedulers :
          /\ sched[s].fired <= clock
          /\ sched[s].pc = "update" =>
                sched[s].copy.next <= sched[s].write.next /\ sched[s].write.next <= clock + 1
    /\ \A c \in Commands : cmd[c].pc = "update" =>
          cmd[c].copy.next <= cmd[c].write.next /\ cmd[c].write.next <= clock + 1

Claimed == {v \in Slots : claims[v] > 0}

\* The slots that are claimed come before the next one, and before the minute
\* of a fire that has still to write the job.
SlotInv ==
    overlap \/ stale
    \/ /\ \A v \in Slots : claims[v] <= 1
       /\ \A v \in Claimed : v < job.next
       /\ \A s \in Schedulers : sched[s].pc \in {"exec", "persist"} =>
             \A v \in Claimed : v <= sched[s].fired

CronInv == TypeOK /\ PauseInv /\ RemovedStays /\ AheadInv /\ SlotInv

-----------------------------------------------------------------------------
(* What the steps do to a scheduler and to the job.                          *)

Scheduler == [pc : {"off", "reconcile", "update", "idle", "listed", "claim", "exec", "persist",
                    "append"},
              copy : Job, write : Job, fired : Times]

Command == [pc : {"idle", "update", "remove"}, op : {"pause", "resume"}, copy : Job, write : Job]

LEMMA Types ==
    /\ TypeOK <=> /\ clock \in Times /\ dir \in {"job", "husk", "none"} /\ job \in Job
                  /\ sched \in [Schedulers -> Scheduler] /\ cmd \in [Commands -> Command]
                  /\ given \in 0 .. MaxCommands /\ faults \in 0 .. MaxFaults
                  /\ claims \in [Slots -> Nat]
                  /\ overlap \in BOOLEAN /\ stale \in BOOLEAN /\ held \in BOOLEAN
                  /\ removed \in BOOLEAN
    /\ TypeOK' <=> /\ clock' \in Times /\ dir' \in {"job", "husk", "none"} /\ job' \in Job
                   /\ sched' \in [Schedulers -> Scheduler] /\ cmd' \in [Commands -> Command]
                   /\ given' \in 0 .. MaxCommands /\ faults' \in 0 .. MaxFaults
                   /\ claims' \in [Slots -> Nat]
                   /\ overlap' \in BOOLEAN /\ stale' \in BOOLEAN /\ held' \in BOOLEAN
                   /\ removed' \in BOOLEAN
BY DEF TypeOK, Scheduler, Command

LEMMA Numbers == /\ MaxTime \in Nat /\ Times \subseteq Slots /\ Times \subseteq Nat /\ Slots \subseteq Nat
                 /\ 0 \in Times /\ \A t \in Times : t + 1 \in Slots
BY BoundsAssumption DEF Times, Slots

\* One scheduler moves.
Moves(s, place) ==
    /\ sched' \in [Schedulers -> Scheduler] /\ sched'[s].pc = place
    /\ sched'[s].copy = sched[s].copy /\ sched'[s].write = sched[s].write
    /\ sched'[s].fired = sched[s].fired
    /\ \A q \in Schedulers \ {s} : sched'[q] = sched[q]

LEMMA Moved ==
    ASSUME sched \in [Schedulers -> Scheduler], NEW s \in Schedulers,
           NEW place \in {"reconcile", "exec", "persist", "append"}, At(s, place)
    PROVE  Moves(s, place)
BY DEF At, Moves, Scheduler

LEMMA OffTypes == Off \in Scheduler /\ [Off EXCEPT !.pc = "idle"] \in Scheduler /\ NoJob \in Job
BY Numbers DEF Off, NoJob, Scheduler, Job

LEMMA Rested ==
    ASSUME sched \in [Schedulers -> Scheduler], NEW s \in Schedulers, Rest(s)
    PROVE  /\ sched' \in [Schedulers -> Scheduler] /\ sched'[s].pc = "idle" /\ sched'[s].fired = 0
           /\ \A q \in Schedulers \ {s} : sched'[q] = sched[q]
BY OffTypes DEF Rest, Off

\* A job that is written back, with the copy it was made from still current
\* unless stale says otherwise.
LEMMA Updated ==
    ASSUME TypeOK, NEW old, NEW new \in Job, Update(old, new)
    PROVE  /\ \/ UNCHANGED <<dir, job, stale>>
              \/ dir # "none" /\ dir' = "job" /\ job' = new /\ (stale' \/ (stale' = stale /\ job = old))
           /\ dir' \in {"job", "husk", "none"} /\ job' \in Job /\ stale' \in BOOLEAN
           /\ faults' \in 0 .. MaxFaults
  <1>1. faults' \in 0 .. MaxFaults
    BY BoundsAssumption DEF Update, Fails, TypeOK
  <1>. QED
    BY <1>1 DEF Update, Fails, TypeOK

-----------------------------------------------------------------------------
(* A step keeps the invariant.                                               *)

\* A scheduler moves on and leaves the job alone.
Alone(s) ==
    /\ UNCHANGED <<clock, dir, job, cmd, given, ghost>> /\ faults' \in 0 .. MaxFaults
    /\ sched' \in [Schedulers -> Scheduler]
    /\ \A q \in Schedulers \ {s} : sched'[q] = sched[q]
    /\ sched'[s].fired <= clock
    /\ sched'[s].pc = "update" =>
          sched'[s].copy.next <= sched'[s].write.next /\ sched'[s].write.next <= clock + 1
    /\ sched'[s].pc \in {"exec", "persist"} =>
          sched[s].pc \in {"exec", "persist"} /\ sched'[s].fired = sched[s].fired

LEMMA NextAlone ==
    ASSUME CronInv, NEW s \in Schedulers, Alone(s)
    PROVE  CronInv'
  <1>. USE DEF CronInv, Alone, ghost
  <1>1. TypeOK'
    BY Types
  <1>2. PauseInv' /\ RemovedStays'
    BY DEF PauseInv, RemovedStays
  <1>3. AheadInv'
    BY DEF AheadInv
  <1>4. SlotInv'
    <2>1. /\ Claimed' = Claimed /\ UNCHANGED <<claims, job, overlap, stale>>
          /\ \A q \in Schedulers : sched'[q].pc \in {"exec", "persist"} =>
                sched[q].pc \in {"exec", "persist"} /\ sched'[q].fired = sched[q].fired
      BY DEF Claimed
    <2>. QED
      BY <2>1 DEF SlotInv
  <1>. QED
    BY <1>1, <1>2, <1>3, <1>4

LEMMA Resting ==
    ASSUME CronInv, NEW s \in Schedulers, Rest(s), faults' \in 0 .. MaxFaults,
           UNCHANGED <<clock, dir, job, cmd, given, ghost>>
    PROVE  CronInv'
  <1>1. Alone(s)
    <2>0. clock \in Times /\ sched \in [Schedulers -> Scheduler]
      BY Types DEF CronInv
    <2>1. 0 <= clock
      BY <2>0, Numbers
    <2>. QED
      BY <2>0, <2>1, Rested DEF Alone
  <1>. QED
    BY <1>1, NextAlone

LEMMA Moving ==
    ASSUME CronInv, NEW s \in Schedulers, faults' \in 0 .. MaxFaults,
           NEW place \in {"reconcile", "persist"}, At(s, place),
           place = "persist" => sched[s].pc = "exec",
           UNCHANGED <<clock, dir, job, cmd, given, ghost>>
    PROVE  CronInv'
  <1>1. Moves(s, place)
    BY Moved, Types DEF CronInv
  <1>2. Alone(s)
    BY <1>1 DEF CronInv, AheadInv, Alone, Moves
  <1>. QED
    BY <1>2, NextAlone

\* The steps that leave the job alone.
LEMMA NextIdle ==
    ASSUME CronInv, NEW s \in Schedulers,
           Start(s) \/ Reconcile(s) \/ List(s) \/ Fire(s) \/ NoClaim(s) \/ Exec(s)
           \/ PersistGone(s) \/ AppendRun(s) \/ Stop(s)
    PROVE  CronInv'
  <1>0. /\ clock \in Times /\ clock \in Nat /\ clock + 1 \in Slots /\ job \in Job
        /\ sched \in [Schedulers -> Scheduler] /\ faults \in 0 .. MaxFaults
        /\ sched[s].fired <= clock
    BY Types, Numbers DEF CronInv, AheadInv
  <1>. USE DEF ghost
  <1>1. CASE Start(s)
    BY <1>0, <1>1, Resting, Moving DEF Start
  <1>2. CASE Reconcile(s)
    <2>1. CASE Rest(s)
      BY <1>0, <1>2, <2>1, Resting DEF Reconcile
    <2>2. CASE ~ Rest(s)
      <3>1. /\ sched' = [sched EXCEPT ![s].pc = "update", ![s].copy = job,
                                      ![s].write = [job EXCEPT !.next = clock + 1]]
            /\ job.next < clock
            /\ UNCHANGED <<clock, dir, job, cmd, given, faults, claims, overlap, stale, held, removed>>
        BY <1>2, <2>2 DEF Reconcile, Next1
      <3>2. [job EXCEPT !.next = clock + 1] \in Job
        BY <1>0 DEF Job
      <3>3. /\ sched' \in [Schedulers -> Scheduler] /\ sched'[s].pc = "update"
            /\ sched'[s].copy = job /\ sched'[s].write = [job EXCEPT !.next = clock + 1]
            /\ sched'[s].fired = sched[s].fired
            /\ \A q \in Schedulers \ {s} : sched'[q] = sched[q]
        BY <1>0, <3>1, <3>2 DEF Scheduler
      <3>4. job.next <= clock + 1 /\ sched'[s].write.next = clock + 1
        BY <1>0, <3>3 DEF CronInv, AheadInv, Job
      <3>5. Alone(s)
        BY <1>0, <3>1, <3>3, <3>4 DEF Alone
      <3>. QED
        BY <3>5, NextAlone
    <2>. QED
      BY <2>1, <2>2
  <1>3. CASE List(s)
    <2>1. /\ sched' \in [Schedulers -> Scheduler] /\ sched'[s].pc = "listed"
          /\ sched'[s].fired = sched[s].fired
          /\ \A q \in Schedulers \ {s} : sched'[q] = sched[q]
      BY <1>0, <1>3 DEF List, Scheduler
    <2>2. Alone(s)
      BY <1>0, <1>3, <2>1 DEF List, Alone
    <2>. QED
      BY <2>2, NextAlone
  <1>4. CASE Fire(s)
    <2>1. CASE Rest(s)
      BY <1>0, <1>4, <2>1, Resting DEF Fire
    <2>2. CASE ~ Rest(s)
      <3>1. sched' = [sched EXCEPT ![s].pc = "claim", ![s].fired = clock]
        BY <1>4, <2>2 DEF Fire
      <3>2. /\ sched' \in [Schedulers -> Scheduler] /\ sched'[s].pc = "claim"
            /\ sched'[s].fired = clock
            /\ \A q \in Schedulers \ {s} : sched'[q] = sched[q]
        BY <1>0, <3>1 DEF Scheduler
      <3>3. Alone(s)
        BY <1>0, <1>4, <3>2 DEF Fire, Alone
      <3>. QED
        BY <3>3, NextAlone
    <2>. QED
      BY <2>1, <2>2
  <1>5. CASE NoClaim(s)
    <2>1. faults' \in 0 .. MaxFaults
      BY <1>0, <1>5, BoundsAssumption DEF NoClaim, Fails
    <2>. QED
      BY <1>5, <2>1, Resting DEF NoClaim
  <1>6. CASE Exec(s)
    BY <1>0, <1>6, Moving DEF Exec
  <1>7. CASE PersistGone(s)
    BY <1>0, <1>7, Resting DEF PersistGone
  <1>8. CASE AppendRun(s)
    BY <1>0, <1>8, Resting DEF AppendRun
  <1>9. CASE Stop(s)
    <2>1. faults' \in 0 .. MaxFaults
      BY <1>0, <1>9, BoundsAssumption DEF Stop, Fails
    <2>2. /\ sched' \in [Schedulers -> Scheduler] /\ sched'[s].pc = "off"
          /\ sched'[s].fired = 0
          /\ \A q \in Schedulers \ {s} : sched'[q] = sched[q]
      BY <1>0, <1>9, OffTypes DEF Stop, Off
    <2>3. Alone(s)
      BY <1>0, <1>9, <2>1, <2>2 DEF Stop, Alone
    <2>. QED
      BY <2>3, NextAlone
  <1>. QED
    BY <1>1, <1>2, <1>3, <1>4, <1>5, <1>6, <1>7, <1>8, <1>9

LEMMA NextReschedule ==
    ASSUME CronInv, NEW s \in Schedulers, Reschedule(s)
    PROVE  CronInv'
  <1>. DEFINE old == sched[s].copy
              new == sched[s].write
  <1>1. /\ sched[s] \in Scheduler /\ old \in Job /\ new \in Job /\ sched \in [Schedulers -> Scheduler]
        /\ sched[s].pc = "update" /\ Update(old, new) /\ Rest(s)
        /\ held' = (held /\ job' = job)
        /\ UNCHANGED <<clock, cmd, given, claims, overlap, removed>>
        /\ clock \in Nat /\ job \in Job
    <2>1. TypeOK /\ sched \in [Schedulers -> Scheduler] /\ clock \in Times /\ job \in Job
      BY Types DEF CronInv
    <2>. QED
      BY <2>1, Numbers DEF Reschedule, Scheduler
  <1>2. old.next <= new.next /\ new.next <= clock + 1
    BY <1>1 DEF CronInv, AheadInv
  <1>. HIDE DEF old, new
  <1>3. /\ \/ UNCHANGED <<dir, job, stale>>
           \/ dir # "none" /\ dir' = "job" /\ job' = new /\ (stale' \/ (stale' = stale /\ job = old))
        /\ dir' \in {"job", "husk", "none"} /\ job' \in Job /\ stale' \in BOOLEAN
        /\ faults' \in 0 .. MaxFaults
    BY <1>1, Updated DEF CronInv
  <1>4. /\ sched' \in [Schedulers -> Scheduler] /\ sched'[s].pc = "idle" /\ sched'[s].fired = 0
        /\ \A q \in Schedulers \ {s} : sched'[q] = sched[q]
    BY <1>1, Rested
  <1>5. TypeOK'
    BY <1>1, <1>3, <1>4, Types DEF CronInv
  <1>6. PauseInv' /\ RemovedStays'
    BY <1>1, <1>3 DEF CronInv, PauseInv, RemovedStays
  <1>7. AheadInv'
    BY <1>1, <1>2, <1>3, <1>4 DEF CronInv, AheadInv
  <1>8. SlotInv'
    <2>. SUFFICES ASSUME ~ overlap', ~ stale'  PROVE SlotInv'
      BY DEF SlotInv
    <2>1. job' = job \/ (job = old /\ job' = new)
      BY <1>3
    <2>2. ~ overlap /\ ~ stale /\ Claimed' = Claimed /\ UNCHANGED claims
      BY <1>1, <1>3 DEF Claimed
    <2>0. job.next \in Nat /\ job'.next \in Nat
      BY <1>1, <1>3, Numbers DEF Job
    <2>3. job.next <= job'.next
      BY <1>2, <2>0, <2>1
    <2>4. \A v \in Claimed : v \in Nat
      BY Numbers DEF Claimed
    <2>. QED
      BY <1>4, <2>0, <2>2, <2>3, <2>4 DEF CronInv, SlotInv
  <1>. QED
    BY <1>5, <1>6, <1>7, <1>8 DEF CronInv

LEMMA NextClaim ==
    ASSUME CronInv, NEW s \in Schedulers, Claim(s)
    PROVE  CronInv'
  <1>1. /\ sched[s] \in Scheduler /\ sched \in [Schedulers -> Scheduler]
        /\ clock \in Nat /\ job \in Job /\ claims \in [Slots -> Nat]
        /\ sched[s].fired \in Times /\ sched[s].fired \in Nat /\ sched[s].fired + 1 \in Slots
        /\ job.next \in Slots /\ job.next \in Nat
        /\ sched[s].fired <= clock
    <2>1. TypeOK /\ sched \in [Schedulers -> Scheduler] /\ clock \in Times /\ job \in Job
          /\ claims \in [Slots -> Nat]
      BY Types DEF CronInv
    <2>2. sched[s].fired \in Times /\ job.next \in Slots
      BY <2>1 DEF Scheduler, Job
    <2>. QED
      BY <2>1, <2>2, Numbers DEF CronInv, AheadInv
  <1>2. /\ job.status = "active" /\ job.next <= sched[s].fired
        /\ job' = [job EXCEPT !.next = sched[s].fired + 1]
        /\ claims' = [claims EXCEPT ![job.next] = @ + 1]
        /\ overlap' = (overlap \/ \E q \in Schedulers \ {s} : sched[q].pc \in {"exec", "persist"})
        /\ At(s, "exec")
        /\ UNCHANGED <<clock, dir, cmd, given, faults, stale, held, removed>>
    BY DEF Claim, Claimable, Next1
  <1>3. Moves(s, "exec")
    BY <1>1, <1>2, Moved
  <1>4. job' \in Job /\ job'.status = "active" /\ job'.next = sched[s].fired + 1
    BY <1>1, <1>2 DEF Job
  <1>5. TypeOK'
    <2>1. claims' \in [Slots -> Nat] /\ overlap' \in BOOLEAN
      BY <1>1, <1>2, Types DEF CronInv
    <2>. QED
      BY <1>2, <1>3, <1>4, <2>1, Types DEF CronInv, Moves
  <1>6. PauseInv' /\ RemovedStays'
    BY <1>2 DEF CronInv, PauseInv, RemovedStays
  <1>7. AheadInv'
    BY <1>1, <1>2, <1>3, <1>4 DEF CronInv, AheadInv, Moves
  <1>8. SlotInv'
    <2>. SUFFICES ASSUME ~ overlap', ~ stale'  PROVE SlotInv'
      BY DEF SlotInv
    <2>1. /\ ~ overlap /\ ~ stale
          /\ \A q \in Schedulers \ {s} : sched[q].pc \notin {"exec", "persist"}
      BY <1>2
    <2>2. /\ \A v \in Slots : claims[v] <= 1
          /\ \A v \in Claimed : v < job.next
      BY <2>1 DEF CronInv, SlotInv
    <2>3. job.next \notin Claimed /\ claims[job.next] = 0
      BY <1>1, <2>2 DEF Claimed
    <2>4. /\ claims'[job.next] = 1
          /\ \A v \in Slots \ {job.next} : claims'[v] = claims[v]
      BY <1>1, <1>2, <2>3
    <2>5. Claimed' = Claimed \cup {job.next}
      BY <1>1, <2>4 DEF Claimed
    <2>6. \A v \in Claimed' : v \in Nat /\ v <= sched[s].fired /\ v < sched[s].fired + 1
      BY <1>1, <1>2, <2>2, <2>5, Numbers DEF Claimed
    <2>7. \A v \in Slots : claims'[v] <= 1
      BY <2>2, <2>4
    <2>8. \A q \in Schedulers : sched'[q].pc \in {"exec", "persist"} => q = s
      BY <1>3, <2>1 DEF Moves
    <2>. QED
      BY <1>3, <1>4, <2>6, <2>7, <2>8 DEF SlotInv, Moves
  <1>. QED
    BY <1>5, <1>6, <1>7, <1>8 DEF CronInv

LEMMA NextPersist ==
    ASSUME CronInv, NEW s \in Schedulers, Persist(s)
    PROVE  CronInv'
  <1>1. /\ sched[s] \in Scheduler /\ sched \in [Schedulers -> Scheduler]
        /\ clock \in Nat /\ job \in Job /\ sched[s].copy \in Job
        /\ sched[s].fired \in Times /\ sched[s].fired \in Nat /\ sched[s].fired + 1 \in Slots
        /\ sched[s].fired <= clock
    <2>1. TypeOK /\ sched \in [Schedulers -> Scheduler] /\ clock \in Times /\ job \in Job
      BY Types DEF CronInv
    <2>2. sched[s].fired \in Times /\ sched[s].copy \in Job
      BY <2>1 DEF Scheduler
    <2>. QED
      BY <2>1, <2>2, Numbers DEF CronInv, AheadInv
  <1>2. /\ sched[s].pc = "persist" /\ dir = "job" /\ At(s, "append")
        /\ UNCHANGED <<clock, dir, cmd, given, claims, overlap, removed>>
        /\ \/ job' = Advanced(s) /\ UNCHANGED <<stale, held>>
           \/ job' = Fired(s) /\ stale' = TRUE /\ held' = FALSE
           \/ UNCHANGED <<job, stale, held>>
    BY DEF Persist
  <1>3. Moves(s, "append")
    BY <1>1, <1>2, Moved
  <1>4. Fired(s) \in Job /\ Fired(s).next = sched[s].fired + 1
    BY <1>1 DEF Fired, Next1, Job
  <1>5. /\ Advanced(s) \in Job /\ Advanced(s).next = sched[s].fired + 1
        /\ job.status = "paused" => Advanced(s).status = "paused"
    BY <1>4 DEF Advanced, Job
  <1>6. job' \in Job /\ (job' = job \/ job'.next = sched[s].fired + 1)
    BY <1>1, <1>2, <1>4, <1>5
  <1>7. TypeOK'
    <2>1. faults' \in 0 .. MaxFaults
      BY BoundsAssumption DEF Persist, Fails, CronInv, TypeOK
    <2>2. stale' \in BOOLEAN /\ held' \in BOOLEAN
      BY <1>2, Types DEF CronInv
    <2>. QED
      BY <1>2, <1>3, <1>6, <2>1, <2>2, Types DEF CronInv, Moves
  <1>8. PauseInv' /\ RemovedStays'
    BY <1>2, <1>5 DEF CronInv, PauseInv, RemovedStays
  <1>9. AheadInv'
    BY <1>1, <1>2, <1>3, <1>6 DEF CronInv, AheadInv, Moves
  <1>10. SlotInv'
    <2>. SUFFICES ASSUME ~ overlap', ~ stale'  PROVE SlotInv'
      BY DEF SlotInv
    <2>1. ~ overlap /\ ~ stale /\ Claimed' = Claimed /\ UNCHANGED claims
      BY <1>2 DEF Claimed
    <2>2. \A v \in Claimed : v \in Nat /\ v <= sched[s].fired /\ v < sched[s].fired + 1
      BY <1>1, <1>2, <2>1, Numbers DEF CronInv, SlotInv, Claimed
    <2>3. \A q \in Schedulers : sched'[q].pc \in {"exec", "persist"} =>
             sched[q].pc \in {"exec", "persist"} /\ sched'[q].fired = sched[q].fired
      BY <1>3 DEF Moves
    <2>. QED
      BY <1>6, <2>1, <2>2, <2>3 DEF CronInv, SlotInv
  <1>. QED
    BY <1>7, <1>8, <1>9, <1>10 DEF CronInv

\* A command is asked for, or reads the job.
LEMMA NextAsk ==
    ASSUME CronInv, NEW c \in Commands,
           (\E op \in {"pause", "resume"} : Read(c, op)) \/ AskRemove(c)
    PROVE  CronInv'
  <1>1. /\ UNCHANGED <<clock, dir, job, sched, faults, claims, overlap, stale, held, removed>>
        /\ given' \in 0 .. MaxCommands
    BY BoundsAssumption DEF Read, AskRemove, ghost, CronInv, TypeOK
  <1>2. clock \in Nat /\ clock + 1 \in Slots /\ job \in Job /\ cmd \in [Commands -> Command]
        /\ job.next <= clock + 1
    BY Types, Numbers DEF CronInv, AheadInv
  <1>3. /\ cmd' \in [Commands -> Command]
        /\ \A d \in Commands \ {c} : cmd'[d] = cmd[d]
        /\ cmd'[c].pc = "update" =>
              /\ cmd'[c].copy.next <= cmd'[c].write.next /\ cmd'[c].write.next <= clock + 1
              /\ cmd'[c].op = "pause" => cmd'[c].write.status = "paused"
    <2>1. CASE AskRemove(c)
      BY <1>2, <2>1 DEF AskRemove, Command
    <2>2. CASE Read(c, "pause")
      <3>1. [job EXCEPT !.status = "paused"] \in Job
        BY <1>2 DEF Job
      <3>2. cmd' = [cmd EXCEPT ![c] = [pc |-> "update", op |-> "pause", copy |-> job,
                                       write |-> [job EXCEPT !.status = "paused"]]]
        BY <2>2 DEF Read
      <3>3. /\ cmd' \in [Commands -> Command] /\ \A d \in Commands \ {c} : cmd'[d] = cmd[d]
            /\ cmd'[c].copy = job /\ cmd'[c].write = [job EXCEPT !.status = "paused"]
        BY <1>2, <3>1, <3>2 DEF Command
      <3>4. cmd'[c].write.next = job.next /\ cmd'[c].write.status = "paused"
        BY <1>2, <3>3 DEF Job
      <3>5. job.next \in Slots
        BY <1>2 DEF Job
      <3>6. \A n \in Slots : n <= n
        BY DEF Slots
      <3>7. job.next <= job.next
        BY <3>5, <3>6, Zenon
      <3>. QED
        BY <1>2, <3>3, <3>4, <3>7
    <2>3. CASE Read(c, "resume")
      <3>0. [job EXCEPT !.status = "active", !.next = clock + 1] \in Job
        BY <1>2 DEF Job
      <3>1. cmd' = [cmd EXCEPT ![c] = [pc |-> "update", op |-> "resume", copy |-> job,
                                       write |-> [job EXCEPT !.status = "active", !.next = clock + 1]]]
        BY <2>3 DEF Read, Next1
      <3>2. /\ cmd' \in [Commands -> Command] /\ \A d \in Commands \ {c} : cmd'[d] = cmd[d]
            /\ cmd'[c].copy = job /\ cmd'[c].op = "resume"
            /\ cmd'[c].write = [job EXCEPT !.status = "active", !.next = clock + 1]
        BY <1>2, <3>0, <3>1 DEF Command
      <3>3. cmd'[c].write.next = clock + 1
        BY <1>2, <3>2 DEF Job
      <3>. QED
        BY <1>2, <3>2, <3>3
    <2>. QED
      BY <2>1, <2>2, <2>3
  <1>4. TypeOK'
    BY <1>1, <1>3, Types DEF CronInv
  <1>5. PauseInv' /\ RemovedStays' /\ AheadInv'
    BY <1>1, <1>3 DEF CronInv, PauseInv, RemovedStays, AheadInv
  <1>6. SlotInv'
    BY <1>1 DEF CronInv, SlotInv, Claimed
  <1>. QED
    BY <1>4, <1>5, <1>6 DEF CronInv

LEMMA NextWrite ==
    ASSUME CronInv, NEW c \in Commands, Write(c)
    PROVE  CronInv'
  <1>. DEFINE old == cmd[c].copy
              new == cmd[c].write
  <1>1. /\ old \in Job /\ new \in Job /\ cmd \in [Commands -> Command]
        /\ cmd[c].pc = "update" /\ Update(old, new) /\ cmd' = [cmd EXCEPT ![c] = Ready]
        /\ held' = IF dir' = "job" /\ job' = new THEN cmd[c].op = "pause" ELSE held
        /\ UNCHANGED <<clock, sched, given, claims, overlap, removed>>
        /\ clock \in Nat /\ job \in Job
    <2>1. TypeOK /\ cmd \in [Commands -> Command] /\ clock \in Times /\ job \in Job
      BY Types DEF CronInv
    <2>. QED
      BY <2>1, Numbers DEF Write, Command
  <1>2. /\ old.next <= new.next /\ new.next <= clock + 1
        /\ cmd[c].op = "pause" => new.status = "paused"
    BY <1>1 DEF CronInv, AheadInv, PauseInv
  <1>. HIDE DEF old, new
  <1>3. /\ \/ UNCHANGED <<dir, job, stale>>
           \/ dir # "none" /\ dir' = "job" /\ job' = new /\ (stale' \/ (stale' = stale /\ job = old))
        /\ dir' \in {"job", "husk", "none"} /\ job' \in Job /\ stale' \in BOOLEAN
        /\ faults' \in 0 .. MaxFaults
    BY <1>1, Updated DEF CronInv
  <1>4. /\ cmd' \in [Commands -> Command] /\ cmd'[c].pc = "idle"
        /\ \A d \in Commands \ {c} : cmd'[d] = cmd[d]
    BY <1>1, OffTypes DEF Ready, Command
  <1>5. TypeOK'
    BY <1>1, <1>3, <1>4, Types DEF CronInv
  <1>6. PauseInv'
    BY <1>1, <1>2, <1>3, <1>4 DEF CronInv, PauseInv
  <1>7. RemovedStays' /\ AheadInv'
    BY <1>1, <1>2, <1>3, <1>4 DEF CronInv, AheadInv, RemovedStays
  <1>8. SlotInv'
    <2>. SUFFICES ASSUME ~ overlap', ~ stale'  PROVE SlotInv'
      BY DEF SlotInv
    <2>1. job' = job \/ (job = old /\ job' = new)
      BY <1>3
    <2>2. ~ overlap /\ ~ stale /\ Claimed' = Claimed /\ UNCHANGED claims
      BY <1>1, <1>3 DEF Claimed
    <2>3. job.next \in Nat /\ job'.next \in Nat
      BY <1>1, <1>3, Numbers DEF Job
    <2>4. job.next <= job'.next
      BY <1>2, <2>1, <2>3
    <2>5. \A v \in Claimed : v \in Nat
      BY Numbers DEF Claimed
    <2>. QED
      BY <1>1, <2>2, <2>3, <2>4, <2>5 DEF CronInv, SlotInv
  <1>. QED
    BY <1>5, <1>6, <1>7, <1>8 DEF CronInv

LEMMA NextRemove ==
    ASSUME CronInv, NEW c \in Commands, Remove(c)
    PROVE  CronInv'
  <1>1. /\ UNCHANGED <<clock, job, sched, given, claims, overlap, stale, held>>
        /\ cmd' = [cmd EXCEPT ![c].pc = "idle"] /\ cmd \in [Commands -> Command]
        /\ dir' \in {dir, "none", "husk"}
    BY Types DEF Remove, CronInv
  <1>2. /\ removed' \in BOOLEAN /\ (removed' => dir' = "none") /\ faults' \in 0 .. MaxFaults
    <2>1. removed \in BOOLEAN /\ faults \in 0 .. MaxFaults /\ (removed => dir = "none")
      BY DEF CronInv, TypeOK, RemovedStays
    <2>2. faults' \in 0 .. MaxFaults
      BY <2>1, BoundsAssumption DEF Remove, Fails
    <2>3. CASE dir # "none" /\ dir' = "none" /\ removed' = TRUE
      BY <2>2, <2>3
    <2>4. CASE UNCHANGED <<dir, removed>>
      BY <2>1, <2>2, <2>4
    <2>5. CASE dir' \in (IF dir = "none" THEN {dir} ELSE {dir, "husk"}) /\ UNCHANGED removed
      BY <2>1, <2>2, <2>5
    <2>. QED
      BY <2>3, <2>4, <2>5 DEF Remove
  <1>3. /\ cmd' \in [Commands -> Command] /\ cmd'[c].pc = "idle"
        /\ \A d \in Commands \ {c} : cmd'[d] = cmd[d]
    BY <1>1 DEF Command
  <1>4. TypeOK'
    BY <1>1, <1>2, <1>3, Types DEF CronInv
  <1>5. PauseInv' /\ RemovedStays' /\ AheadInv'
    BY <1>1, <1>2, <1>3 DEF CronInv, PauseInv, RemovedStays, AheadInv
  <1>6. SlotInv'
    BY <1>1 DEF CronInv, SlotInv, Claimed
  <1>. QED
    BY <1>4, <1>5, <1>6 DEF CronInv

LEMMA NextTick ==
    ASSUME CronInv, Tick
    PROVE  CronInv'
  <1>1. /\ UNCHANGED <<dir, job, sched, cmd, given, faults, claims, overlap, stale, held, removed>>
        /\ clock' = clock + 1
    BY DEF Tick, ghost
  <1>2. clock' \in Times /\ clock \in Nat
    BY <1>1, BoundsAssumption DEF Tick, Times, CronInv, TypeOK
  <1>3. TypeOK'
    BY <1>1, <1>2, Types DEF CronInv
  <1>4. AheadInv'
    <2>1. job.next \in Nat
      BY Types, Numbers DEF CronInv, Job
    <2>2. \A s \in Schedulers : sched[s].fired \in Nat /\ sched[s].write.next \in Nat
      <3>1. \A s \in Schedulers : sched[s].fired \in Times /\ sched[s].write.next \in Slots
        BY Types DEF CronInv, Scheduler, Job
      <3>. QED
        BY <3>1, Numbers
    <2>3. \A c \in Commands : cmd[c].write.next \in Nat
      <3>1. \A c \in Commands : cmd[c].write.next \in Slots
        BY Types DEF CronInv, Command, Job
      <3>. QED
        BY <3>1, Numbers
    <2>. QED
      BY <1>1, <1>2, <2>1, <2>2, <2>3 DEF CronInv, AheadInv
  <1>5. PauseInv' /\ RemovedStays' /\ SlotInv'
    BY <1>1 DEF CronInv, PauseInv, RemovedStays, SlotInv, Claimed
  <1>. QED
    BY <1>3, <1>4, <1>5 DEF CronInv

LEMMA InitCronInv == Init => CronInv
  <1>. SUFFICES ASSUME Init  PROVE CronInv
    OBVIOUS
  <1>1. /\ clock = 0 /\ dir = "job" /\ job \in [status : {"active"}, next : {0, 1}]
        /\ sched = [s \in Schedulers |-> Off] /\ cmd = [c \in Commands |-> Ready]
        /\ given = 0 /\ faults = 0 /\ claims = [v \in Slots |-> 0]
        /\ ~ overlap /\ ~ stale /\ ~ held /\ ~ removed
        /\ overlap \in BOOLEAN /\ stale \in BOOLEAN /\ held \in BOOLEAN /\ removed \in BOOLEAN
    BY Zenon DEF Init
  <1>2. 0 \in Slots /\ 1 \in Slots /\ 0 \in Times
    BY BoundsAssumption DEF Slots, Times
  <1>3. TypeOK
    <2>1. sched \in [Schedulers -> Scheduler] /\ cmd \in [Commands -> Command] /\ job \in Job
      BY <1>1, <1>2, OffTypes DEF Ready, Command, Job
    <2>2. claims \in [Slots -> Nat] /\ given \in 0 .. MaxCommands /\ faults \in 0 .. MaxFaults
      BY <1>1, BoundsAssumption
    <2>. QED
      BY <1>1, <1>2, <2>1, <2>2, Types
  <1>4. PauseInv /\ RemovedStays
    BY <1>1 DEF PauseInv, RemovedStays, Ready
  <1>5. AheadInv
    BY <1>1 DEF AheadInv, Off, Ready
  <1>6. SlotInv
    <2>1. Claimed = {} /\ \A v \in Slots : claims[v] <= 1
      BY <1>1 DEF Claimed
    <2>. QED
      BY <2>1 DEF SlotInv
  <1>. QED
    BY <1>3, <1>4, <1>5, <1>6 DEF CronInv

\* Every step keeps the invariant, so every state has it.
THEOREM CronInvariant == Spec => []CronInv
  <1>1. ASSUME CronInv, [Next]_vars  PROVE CronInv'
    <2>1. CASE UNCHANGED vars
      BY <1>1, <2>1, Zenon
         DEF vars, ghost, CronInv, TypeOK, PauseInv, RemovedStays, AheadInv, SlotInv, Claimed
    <2>2. ASSUME NEW s \in Schedulers, Start(s) \/ Loop(s) \/ Exec(s) \/ Stop(s)  PROVE CronInv'
      BY <1>1, <2>2, NextIdle, NextReschedule, NextClaim, NextPersist DEF Loop
    <2>3. ASSUME NEW c \in Commands,
                 Read(c, "pause") \/ Read(c, "resume") \/ Write(c) \/ AskRemove(c) \/ Remove(c)
          PROVE  CronInv'
      BY <1>1, <2>3, NextAsk, NextWrite, NextRemove
    <2>4. CASE Tick
      BY <1>1, <2>4, NextTick
    <2>. QED
      BY <1>1, <2>1, <2>2, <2>3, <2>4 DEF Next
  <1>. QED
    BY <1>1, InitCronInv, PTL DEF Spec

\* Every variable keeps to its values: no fire is of a minute to come, and the
\* next slot is at most a minute ahead.
THEOREM TypeCorrect == Spec => []TypeOK
  <1>1. CronInv => TypeOK
    BY DEF CronInv
  <1>. QED
    BY <1>1, CronInvariant, PTL

\* What a command did to a job lasts, whatever schedulers, runs and failures
\* come between: a removal for ever, a pause until somebody resumes the job or
\* writes back a stale copy of it (fireJob, cronSetStatus, Store.Remove).
THEOREM CommandsLast == Spec => []CommandsHold
  <1>1. CronInv => CommandsHold
    BY DEF CronInv, PauseInv, CommandsHold, PauseHolds
  <1>. QED
    BY <1>1, CronInvariant, PTL

\* A slot is fired once, whatever dies or fails, unless the runs of two
\* schedulers overlap or somebody writes back a job that has changed (claimFire).
THEOREM SlotsFireOnce == Spec => []OncePerSlot
  <1>1. CronInv => OncePerSlot
    BY DEF CronInv, SlotInv, OncePerSlot
  <1>. QED
    BY <1>1, CronInvariant, PTL
=============================================================================
