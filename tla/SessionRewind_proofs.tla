-------------------------- MODULE SessionRewind_proofs --------------------------
(***************************************************************************)
(* Proofs about SessionRewind, for any files, contents, runs and turns:    *)
(* the checkpoints of a session's log find their blobs, a fork has those   *)
(* of the events it copied, and a rewind leaves the files as they were at  *)
(* its target.                                                             *)
(*                                                                         *)
(* A blob is safe because somebody refers to it before a rewind can prune  *)
(* it: the log, once the event is there; until then the lock, which an     *)
(* exec run holds from the snapshot to the event; for a turn, the rule     *)
(* that the interface does not rewind while one is not flushed.            *)
(*                                                                         *)
(* A rewind is exact because the log is, at every event: what a rewind to  *)
(* it would find of a file, its closest checkpoint from there on or the    *)
(* file as it is, is what the file was then.                               *)
(***************************************************************************)
EXTENDS SessionRewind, WellFoundedInduction, TLAPS

\* Who holds the session's lock.
LockInv ==
    /\ \A x \in Execs : pc[x] = "captured" => holder = x
    /\ \A r \in Rewinds : pc[r] \in {"restore", "prune", "mark"} => holder = r

\* The interface rewinds between turns only; what a turn has not written it
\* has while it lasts.
TurnInv ==
    /\ pc[Tui] # "idle" => \A t \in Turns : pc[t] = "idle"
    /\ \A t \in Turns : /\ pc[t] \in {"idle", "turn"} => image[t] = Nothing
                        /\ pc[t] = "idle" => batch[t] = <<>>

\* What is or will be referred to is there.
BlobInv ==
    /\ Referenced(log) \subseteq blobs \cup orphaned
    /\ \A t \in Turns : BlobsOf(image[t]) \cup Referenced(batch[t]) \subseteq blobs \cup orphaned
    /\ \A x \in Execs : pc[x] = "captured" => BlobsOf(image[x]) \subseteq blobs

\* So it is for a fork, from the directory it lists to the copies it has.
ForkInv ==
    /\ fork.pc = "list" => fork.needs \subseteq blobs \cup orphaned \cup unforked
    /\ fork.pc = "copy" => fork.needs \subseteq fork.listed \cup orphaned \cup unforked
    /\ fork.pc = "done" => fork.needs \subseteq fork.has \cup orphaned \cup unforked

RewindInv == TypeOK /\ LockInv /\ TurnInv /\ BlobInv /\ ForkInv

-----------------------------------------------------------------------------
(* Events, and what they refer to.                                           *)

LEMMA Actors ==
    /\ Execs \cap Turns = {} /\ Execs \cap Rewinds = {} /\ Turns \cap Rewinds = {}
    /\ NoOne \notin Runs /\ NoOne \notin Rewinds /\ Tui \in Rewinds /\ Tui # Cli
    /\ Execs \subseteq Runs /\ Turns \subseteq Runs
BY RunsAssumption DEF Runs, Rewinds, NoOne, Tui, Cli

LEMMA NothingReferred ==
    /\ Nothing \in Image /\ BlobsOf(Nothing) = {}
BY ContentsAssumption DEF Nothing, Image, BlobsOf

\* The same snapshots in the same places.
SameFiles(a, b) ==
    /\ b \in Seq(Event) /\ Len(b) = Len(a)
    /\ \A i \in 1 .. Len(a) : b[i].files = a[i].files

LEMMA IsSequence ==
    ASSUME NEW n \in Nat, NEW s, s = [i \in 1 .. n |-> s[i]], \A i \in 1 .. n : s[i] \in Event
    PROVE  s \in Seq(Event) /\ Len(s) = n
  <1>1. s \in [1 .. n -> Event]
    OBVIOUS
  <1>. QED
    BY <1>1

LEMMA SameReferenced ==
    ASSUME NEW a \in Seq(Event), NEW b, SameFiles(a, b)
    PROVE  b \in Seq(Event) /\ Referenced(b) = Referenced(a)
BY DEF SameFiles, Referenced

LEMMA BlurSame ==
    ASSUME NEW a \in Seq(Event), NEW F
    PROVE  SameFiles(a, Blur(a, F))
  <1>1. ASSUME NEW i \in 1 .. Len(a)
        PROVE  LET e == [a[i] EXCEPT !.before = [f \in Files |-> IF f \in F THEN Unsure ELSE @[f]]]
               IN  e \in Event /\ e.files = a[i].files
    <2>1. a[i] \in Event
      OBVIOUS
    <2>2. [f \in Files |-> IF f \in F THEN Unsure ELSE a[i].before[f]]
              \in [Files -> State \cup {Unsure}]
      BY <2>1 DEF Event
    <2>. QED
      BY <2>1, <2>2 DEF Event
  <1>2. Len(a) \in Nat /\ DOMAIN a = 1 .. Len(a)
    OBVIOUS
  <1>3. \A i \in 1 .. Len(a) : Blur(a, F)[i] \in Event /\ Blur(a, F)[i].files = a[i].files
    BY <1>1, <1>2 DEF Blur
  <1>4. Blur(a, F) = [i \in 1 .. Len(a) |-> Blur(a, F)[i]]
    BY <1>2 DEF Blur
  <1>5. Blur(a, F) \in Seq(Event) /\ Len(Blur(a, F)) = Len(a)
    BY <1>2, <1>3, <1>4, IsSequence
  <1>. QED
    BY <1>3, <1>5 DEF SameFiles

LEMMA BlurLatestSame ==
    ASSUME NEW a \in Seq(Event), NEW F
    PROVE  SameFiles(a, BlurLatest(a, F))
  <1>1. Len(a) \in Nat /\ DOMAIN a = 1 .. Len(a) /\ \A i \in 1 .. Len(a) : a[i] \in Event
    OBVIOUS
  <1>2. ASSUME NEW i \in 1 .. Len(a)
        PROVE  BlurLatest(a, F)[i] \in Event /\ BlurLatest(a, F)[i].files = a[i].files
    <2>. DEFINE was == [f \in Files |->
                           IF f \in F /\ \A j \in i .. Len(a) : a[j].files[f] = None
                           THEN Unsure ELSE a[i].before[f]]
    <2>1. was \in [Files -> State \cup {Unsure}]
      BY <1>1 DEF Event
    <2>2. BlurLatest(a, F)[i] = [a[i] EXCEPT !.before = was]
      BY <1>1 DEF BlurLatest
    <2>. HIDE DEF was
    <2>. QED
      BY <1>1, <2>1, <2>2 DEF Event
  <1>3. BlurLatest(a, F) = [i \in 1 .. Len(a) |-> BlurLatest(a, F)[i]]
    BY <1>1 DEF BlurLatest
  <1>4. BlurLatest(a, F) \in Seq(Event) /\ Len(BlurLatest(a, F)) = Len(a)
    BY <1>1, <1>2, <1>3, IsSequence
  <1>. QED
    BY <1>2, <1>4 DEF SameFiles

LEMMA ConcatReferenced ==
    ASSUME NEW a \in Seq(Event), NEW b \in Seq(Event)
    PROVE  a \o b \in Seq(Event) /\ Referenced(a \o b) = Referenced(a) \cup Referenced(b)
  <1>1. Referenced(a \o b) \subseteq Referenced(a) \cup Referenced(b)
    <2>1. ASSUME NEW i \in 1 .. Len(a \o b)
          PROVE  \/ i \in 1 .. Len(a) /\ (a \o b)[i] = a[i]
                 \/ i - Len(a) \in 1 .. Len(b) /\ (a \o b)[i] = b[i - Len(a)]
      OBVIOUS
    <2>. QED
      BY <2>1 DEF Referenced
  <1>2. Referenced(a) \subseteq Referenced(a \o b)
    <2>1. \A i \in 1 .. Len(a) : i \in 1 .. Len(a \o b) /\ (a \o b)[i] = a[i]
      OBVIOUS
    <2>. QED
      BY <2>1 DEF Referenced
  <1>3. Referenced(b) \subseteq Referenced(a \o b)
    <2>1. Len(a) \in Nat /\ Len(b) \in Nat /\ Len(a \o b) = Len(a) + Len(b)
          /\ DOMAIN (a \o b) = 1 .. Len(a \o b) /\ DOMAIN b = 1 .. Len(b)
      OBVIOUS
    <2>2. ASSUME NEW i \in 1 .. Len(b)
          PROVE  i + Len(a) \in 1 .. Len(a \o b) /\ (a \o b)[i + Len(a)] = b[i]
      BY <2>1
    <2>3. \A i \in DOMAIN b : \E j \in DOMAIN (a \o b) : (a \o b)[j] = b[i]
      BY <2>1, <2>2
    <2>. QED
      BY <2>3 DEF Referenced
  <1>. QED
    BY <1>1, <1>2, <1>3

LEMMA OneReferenced ==
    ASSUME NEW e \in Event
    PROVE  <<e>> \in Seq(Event) /\ Referenced(<<e>>) = BlobsOf(e.files)
  <1>1. DOMAIN <<e>> = {1} /\ <<e>>[1] = e
    OBVIOUS
  <1>. QED
    BY <1>1 DEF Referenced

LEMMA PrefixReferenced ==
    ASSUME NEW a \in Seq(Event), NEW n \in Nat, n < Len(a)
    PROVE  SubSeq(a, 1, n) \in Seq(Event) /\ Referenced(SubSeq(a, 1, n)) \subseteq Referenced(a)
  <1>1. /\ SubSeq(a, 1, n) \in Seq(Event) /\ Len(SubSeq(a, 1, n)) = n
        /\ \A i \in 1 .. n : SubSeq(a, 1, n)[i] = a[i] /\ i \in 1 .. Len(a)
    OBVIOUS
  <1>. QED
    BY <1>1 DEF Referenced

LEMMA BeforeType ==
    ASSUME TypeOK, NEW others
    PROVE  Before(others) \in [Files -> State \cup {Unsure}]
BY DEF TypeOK, Before

LEMMA NewEventType ==
    ASSUME TypeOK, NEW others, NEW files \in Image
    PROVE  NewEvent(others, files) \in Event /\ NewEvent(others, files).files = files
BY BeforeType DEF NewEvent, Event

\* An event without files is appended.
LEMMA AppendReferenced ==
    ASSUME NEW a \in Seq(Event), NEW e \in Event
    PROVE  /\ Append(a, e) \in Seq(Event)
           /\ Referenced(Append(a, e)) = Referenced(a) \cup BlobsOf(e.files)
  <1>1. /\ Append(a, e) \in Seq(Event) /\ DOMAIN Append(a, e) = 1 .. (Len(a) + 1)
        /\ DOMAIN a = 1 .. Len(a) /\ Len(a) \in Nat
        /\ \A i \in 1 .. Len(a) : Append(a, e)[i] = a[i]
        /\ Append(a, e)[Len(a) + 1] = e
    OBVIOUS
  <1>2. 1 .. (Len(a) + 1) = 1 .. Len(a) \cup {Len(a) + 1}
    BY <1>1
  <1>. QED
    BY <1>1, <1>2 DEF Referenced

LEMMA PlainAppend ==
    ASSUME TypeOK, NEW others, Append1(NewEvent(others, Nothing))
    PROVE  log' \in Seq(Event) /\ Referenced(log') = Referenced(log)
  <1>1. /\ NewEvent(others, Nothing) \in Event
        /\ BlobsOf(NewEvent(others, Nothing).files) = {}
    BY NothingReferred, NewEventType
  <1>2. log \in Seq(Event) /\ log' = Append(log, NewEvent(others, Nothing))
    BY DEF Append1, TypeOK
  <1>. QED
    BY <1>1, <1>2, AppendReferenced

LEMMA PlacedSame ==
    ASSUME TypeOK, NEW t \in Turns
    PROVE  SameFiles(batch[t], Placed(t))
  <1>1. batch[t] \in Seq(Event)
    BY DEF TypeOK
  <1>2. Before(Runs \ {t}) \in [Files -> State \cup {Unsure}]
    BY BeforeType
  <1>3. Len(batch[t]) \in Nat /\ DOMAIN batch[t] = 1 .. Len(batch[t])
    BY <1>1
  <1>4. ASSUME NEW i \in 1 .. Len(batch[t])
        PROVE  Placed(t)[i] \in Event /\ Placed(t)[i].files = batch[t][i].files
    <2>. DEFINE at == [f \in Files |->
                          IF \E j \in i .. Len(batch[t]) : batch[t][j].files[f] # None
                          THEN batch[t][i].before[f] ELSE Before(Runs \ {t})[f]]
    <2>1. batch[t][i] \in Event
      BY <1>1
    <2>2. at \in [Files -> State \cup {Unsure}]
      BY <1>2, <2>1 DEF Event
    <2>3. Placed(t)[i] = [batch[t][i] EXCEPT !.before = at]
      BY <1>3 DEF Placed
    <2>. HIDE DEF at
    <2>. QED
      BY <2>1, <2>2, <2>3 DEF Event
  <1>5. Placed(t) = [i \in 1 .. Len(batch[t]) |-> Placed(t)[i]]
    BY <1>3 DEF Placed
  <1>6. Placed(t) \in Seq(Event) /\ Len(Placed(t)) = Len(batch[t])
    BY <1>3, <1>4, <1>5, IsSequence
  <1>. QED
    BY <1>4, <1>6 DEF SameFiles

\* What is unwritten refers to what it did, whoever changes files.
LEMMA DisturbSame ==
    ASSUME TypeOK, \/ \E F : Disturb(F)
                   \/ UNCHANGED batch
    PROVE  /\ batch' \in [Turns -> Seq(Event)]
           /\ \A t \in Turns : /\ Referenced(batch'[t]) = Referenced(batch[t])
                               /\ batch[t] = <<>> => batch'[t] = <<>>
  <1>1. CASE UNCHANGED batch
    BY <1>1 DEF TypeOK
  <1>2. CASE \E F : Disturb(F)
    <2>1. PICK F : Disturb(F)
      BY <1>2
    <2>2. batch' = [t \in Turns |-> BlurLatest(batch[t], F)]
      BY <2>1 DEF Disturb
    <2>3. ASSUME NEW t \in Turns
          PROVE  /\ batch'[t] \in Seq(Event) /\ Referenced(batch'[t]) = Referenced(batch[t])
                 /\ Len(batch'[t]) = Len(batch[t])
      <3>1. batch[t] \in Seq(Event) /\ batch'[t] = BlurLatest(batch[t], F)
        BY <2>2 DEF TypeOK
      <3>2. SameFiles(batch[t], batch'[t])
        BY <3>1, BlurLatestSame
      <3>. QED
        BY <3>1, <3>2, SameReferenced DEF SameFiles
    <2>4. \A t \in Turns : batch[t] = <<>> => batch'[t] = <<>>
      <3>1. \A s \in Seq(Event) : Len(s) = 0 => s = <<>>
        OBVIOUS
      <3>. QED
        BY <2>3, <3>1
    <2>. QED
      BY <2>2, <2>3, <2>4
  <1>. QED
    BY <1>1, <1>2

\* What a run of a tool, or a rewind of one file, makes of the log.
LEMMA BlurReferenced ==
    ASSUME TypeOK, NEW F, log' = Blur(log, F)
    PROVE  log' \in Seq(Event) /\ Referenced(log') = Referenced(log)
BY BlurSame, SameReferenced DEF TypeOK

-----------------------------------------------------------------------------
(* Steps keep the types.                                                     *)

LEMMA SnapshotTypes ==
    ASSUME TypeOK, NEW r \in Runs, Snapshot(r)
    PROVE  /\ image' \in [Runs \cup Rewinds -> Image] /\ image'[r] \in Image
           /\ blobs' \subseteq Contents /\ blobs' = blobs \cup BlobsOf(image'[r])
           /\ todo' \in [Runs \cup Rewinds -> SUBSET Files]
           /\ \A a \in (Runs \cup Rewinds) \ {r} : image'[a] = image[a]
  <1>0. PICK files \in SUBSET Files \ {{}} : \E lost \in SUBSET files :
            /\ image' = [image EXCEPT ![r] = [f \in Files |->
                            IF f \in lost THEN Skipped ELSE IF f \in files THEN ws[f] ELSE None]]
            /\ blobs' = blobs \cup BlobsOf(image'[r])
            /\ todo' = [todo EXCEPT ![r] = files]
    BY DEF Snapshot
  <1>1. PICK lost \in SUBSET files :
            /\ image' = [image EXCEPT ![r] = [f \in Files |->
                            IF f \in lost THEN Skipped ELSE IF f \in files THEN ws[f] ELSE None]]
            /\ blobs' = blobs \cup BlobsOf(image'[r])
            /\ todo' = [todo EXCEPT ![r] = files]
    BY <1>0
  <1>2. [f \in Files |-> IF f \in lost THEN Skipped ELSE IF f \in files THEN ws[f] ELSE None] \in Image
    BY DEF TypeOK, Image
  <1>3. image' \in [Runs \cup Rewinds -> Image] /\ image'[r] \in Image
    BY <1>1, <1>2 DEF TypeOK
  <1>4. \A a \in (Runs \cup Rewinds) \ {r} : image'[a] = image[a]
    BY <1>1 DEF TypeOK
  <1>5. blobs' \subseteq Contents
    BY <1>1 DEF TypeOK, BlobsOf
  <1>. QED
    BY <1>1, <1>3, <1>4, <1>5 DEF TypeOK

LEMMA ExecTypes ==
    ASSUME TypeOK, NEW x \in Execs, ExecStep(x)
    PROVE  TypeOK'
  <1>. x \in Runs
    BY Actors
  <1>1. CASE ExecCall(x)
    <2>1. log' \in Seq(Event)
      BY <1>1, PlainAppend DEF ExecCall
    <2>. QED
      BY <1>1, <2>1, IssuedAssumption DEF ExecCall, Goto, TypeOK, run, rewind, ghost
  <1>2. CASE Capture(x)
    BY <1>2, SnapshotTypes DEF Capture, Goto, TypeOK, run, rewind, ghost
  <1>3. CASE Record(x)
    <2>. DEFINE late == {f \in Files : image[x][f] \notin {None, Skipped, ws[f]}}
                events == <<NewEvent(Runs \ {x}, image[x])>>
    <2>1. events \in Seq(Event)
      BY NewEventType, OneReferenced DEF TypeOK
    <2>2. Blur(log, Overtaking(x)) \in Seq(Event) /\ Blur(events, late) \in Seq(Event)
      BY <2>1, BlurSame, SameReferenced DEF TypeOK
    <2>3. log' \in Seq(Event)
      BY <1>3, <2>2, ConcatReferenced DEF Record
    <2>. QED
      BY <1>3, <2>3 DEF Record, Goto, Unlock, TypeOK, run, rewind, ghost
  <1>4. CASE CaptureFails(x)
    <2>1. todo' \in [Runs \cup Rewinds -> SUBSET Files]
      BY <1>4 DEF CaptureFails, TypeOK
    <2>. QED
      BY <1>4, <2>1, NothingReferred DEF CaptureFails, Goto, Unlock, TypeOK, run, rewind, ghost
  <1>5. CASE KillExec(x)
    BY <1>5, NothingReferred DEF KillExec, Goto, Unlock, TypeOK, run, rewind, ghost
  <1>. QED
    BY <1>1, <1>2, <1>3, <1>4, <1>5 DEF ExecStep

LEMMA TurnTypes ==
    ASSUME TypeOK, NEW t \in Turns, TurnStep(t)
    PROVE  TypeOK'
  <1>. t \in Runs
    BY Actors
  <1>1. CASE TurnCall(t)
    <2>1. Snapshot(t)
      BY <1>1 DEF TurnCall
    <2>. DEFINE more == <<NewEvent(Runs \ {t}, Nothing), NewEvent(Runs \ {t}, image'[t])>>
    <2>2. /\ NewEvent(Runs \ {t}, Nothing) \in Event
          /\ NewEvent(Runs \ {t}, image'[t]) \in Event
      BY <2>1, SnapshotTypes, NothingReferred, NewEventType
    <2>3. more \in Seq(Event) /\ batch[t] \in Seq(Event)
      BY <2>2 DEF TypeOK
    <2>4. batch[t] \o more \in Seq(Event)
      BY <2>3, ConcatReferenced
    <2>5. batch' = [batch EXCEPT ![t] = batch[t] \o more]
      BY <1>1 DEF TurnCall
    <2>6. batch' \in [Turns -> Seq(Event)]
      BY <2>4, <2>5 DEF TypeOK
    <2>. QED
      BY <1>1, <2>1, <2>6, SnapshotTypes, IssuedAssumption DEF TurnCall, Goto, TypeOK, rewind, ghost
  <1>2. CASE Cancel(t)
    <2>1. log' \in Seq(Event)
      BY <1>2, PlainAppend DEF Cancel
    <2>. QED
      BY <1>2, <2>1 DEF Cancel, TypeOK, rewind, ghost
  <1>3. CASE Flush(t)
    <2>1. /\ Blur(log, Overtaking(t)) \in Seq(Event) /\ Blur(log, Open(t)) \in Seq(Event)
          /\ Placed(t) \in Seq(Event)
      BY BlurSame, PlacedSame, SameReferenced DEF TypeOK, SameFiles
    <2>2. log' \in Seq(Event)
      BY <1>3, <2>1, ConcatReferenced DEF Flush
    <2>. QED
      BY <1>3, <2>2 DEF Flush, Goto, TypeOK, rewind, ghost
  <1>. QED
    BY <1>1, <1>2, <1>3 DEF TurnStep

LEMMA ToolTypes ==
    ASSUME TypeOK, NEW r \in Runs, Tool(r)
    PROVE  TypeOK'
  <1>1. log' \in Seq(Event)
    BY BlurReferenced DEF Tool
  <1>2. ws' \in [Files -> State]
    BY DEF Tool, TypeOK
  <1>3. goal' \in [Rewinds -> [Files -> State \cup {Unsure}]]
    BY DEF Tool, TypeOK
  <1>4. batch' \in [Turns -> Seq(Event)]
    BY DisturbSame DEF Tool
  <1>. QED
    BY <1>1, <1>2, <1>3, <1>4, NothingReferred, Actors DEF Tool, Goto, TypeOK, rewind, ghost

LEMMA OverTypes ==
    ASSUME TypeOK, NEW r \in Rewinds, Over(r)
    PROVE  /\ pc' = [pc EXCEPT ![r] = "idle"]
           /\ holder' \in Runs \cup Rewinds \cup {NoOne}
           /\ todo' \in [Runs \cup Rewinds -> SUBSET Files]
           /\ image' \in [Runs \cup Rewinds -> Image]
           /\ target' \in [Rewinds -> Nat] /\ skipped' \in [Rewinds -> SUBSET Files]
           /\ goal' \in [Rewinds -> [Files -> State \cup {Unsure}]]
           /\ \A a \in (Runs \cup Rewinds) \ {r} : image'[a] = image[a]
BY NothingReferred DEF Over, Goto, Unlock, TypeOK

\* A set of natural numbers has a least element.
Below == OpToRel(<, Nat)

LEMMA BelowIsLess == \A m, n \in Nat : <<m, n>> \in Below <=> m < n
BY Zenon DEF Below, OpToRel

LEMMA Least ==
    ASSUME NEW S \in SUBSET Nat, S # {}
    PROVE  \E m \in S : \A n \in S : m <= n
  <1>1. \E m \in S : \A n \in S : ~ (<<n, m>> \in Below)
    BY WFMin, NatLessThanWellFounded, Zenon DEF Below
  <1>2. \E m \in S : \A n \in S : ~ (n < m)
    BY <1>1, BelowIsLess, Zenon
  <1>. QED
    BY <1>2

\* What a rewind would restore is a snapshot of the log.
LEMMA ClosestType ==
    ASSUME TypeOK, NEW keep \in Nat
    PROVE  ClosestAfter(keep) \in Image
  <1>1. ASSUME NEW f \in Files
        PROVE  ClosestAfter(keep)[f] \in State \cup {Skipped, None}
    <2>. DEFINE of == {i \in DOMAIN log : i > keep /\ log[i].files[f] # None}
                first == CHOOSE i \in of : \A j \in of : i <= j
    <2>1. ClosestAfter(keep)[f] = IF of = {} THEN None ELSE log[first].files[f]
      BY DEF ClosestAfter
    <2>2. CASE of = {}
      BY <2>1, <2>2
    <2>3. CASE of # {}
      <3>1. PICK m \in of : \A j \in of : m <= j
        <4>1. of \in SUBSET Nat
          BY DEF TypeOK
        <4>. HIDE DEF of
        <4>. QED
          BY <2>3, <4>1, Least
      <3>2. first \in of
        BY <3>1
      <3>3. log[first] \in Event
        BY <3>2 DEF TypeOK
      <3>. QED
        BY <2>1, <2>3, <3>3 DEF Event, Image
    <2>. QED
      BY <2>2, <2>3
  <1>. QED
    BY <1>1 DEF ClosestAfter, Image

LEMMA RewindTypes ==
    ASSUME TypeOK, NEW r \in Rewinds, RewindStep(r)
    PROVE  TypeOK'
  <1>1. CASE AskRewind(r)
    <2>1. target' \in [Rewinds -> Nat]
      BY <1>1 DEF AskRewind, TypeOK
    <2>. QED
      BY <1>1, <2>1, IssuedAssumption DEF AskRewind, Goto, TypeOK, run, store, ghost
  <1>2. CASE ApplyRewind(r)
    <2>1. target[r] \in Nat
      BY DEF TypeOK
    <2>2. image' \in [Runs \cup Rewinds -> Image]
      BY <1>2, <2>1, ClosestType DEF ApplyRewind, TypeOK
    <2>3. todo' \in [Runs \cup Rewinds -> SUBSET Files]
      BY <1>2 DEF ApplyRewind, Captured, TypeOK
    <2>4. goal' \in [Rewinds -> [Files -> State \cup {Unsure}]]
      <3>1. ASSUME target[r] < Len(log)
            PROVE  log[target[r] + 1].before \in [Files -> State \cup {Unsure}]
        <4>1. log[target[r] + 1] \in Event
          BY <2>1, <3>1 DEF TypeOK
        <4>. QED
          BY <4>1 DEF Event
      <3>2. ws \in [Files -> State] /\ goal \in [Rewinds -> [Files -> State \cup {Unsure}]]
        BY DEF TypeOK
      <3>3. [f \in Files |-> IF \E t \in Turns : f \in Open(t) THEN Unsure
                ELSE IF target[r] < Len(log) THEN log[target[r] + 1].before[f] ELSE ws[f]]
                \in [Files -> State \cup {Unsure}]
        BY <3>1, <3>2
      <3>. QED
        BY <1>2, <3>2, <3>3 DEF ApplyRewind
    <2>. QED
      BY <1>2, <2>2, <2>3, <2>4 DEF ApplyRewind, Goto, TypeOK, run, ghost
  <1>3. CASE Restore(r)
    <2>1. PICK f \in todo[r] :
              /\ todo' = [todo EXCEPT ![r] = @ \ {f}]
              /\ \/ /\ image[r][f] \in blobs \cup {Absent}
                    /\ ws' = [ws EXCEPT ![f] = image[r][f]]
                    /\ log' = BlurLatest(log, {f}) /\ Disturb({f})
                    /\ UNCHANGED skipped
                 \/ /\ skipped' = [skipped EXCEPT ![r] = @ \cup {f}]
                    /\ UNCHANGED <<ws, log, batch>>
      BY <1>3 DEF Restore
    <2>2. f \in Files
      BY DEF TypeOK
    <2>3. log' \in Seq(Event)
      BY <2>1, <2>2, BlurLatestSame, SameReferenced DEF TypeOK
    <2>4. ws' \in [Files -> State]
      BY <2>1, <2>2 DEF TypeOK, State
    <2>6. skipped' \in [Rewinds -> SUBSET Files]
      <3>1. \/ skipped' = skipped
            \/ skipped' = [skipped EXCEPT ![r] = skipped[r] \cup {f}]
        BY <2>1
      <3>2. skipped \in [Rewinds -> SUBSET Files] /\ skipped[r] \cup {f} \in SUBSET Files
        BY <2>2 DEF TypeOK
      <3>. QED
        BY <3>1, <3>2
    <2>5. todo' \in [Runs \cup Rewinds -> SUBSET Files]
      BY <2>1 DEF TypeOK
    <2>7. batch' \in [Turns -> Seq(Event)]
      BY <2>1, DisturbSame
    <2>. QED
      BY <1>3, <2>3, <2>4, <2>5, <2>6, <2>7 DEF Restore, TypeOK, ghost
  <1>4. CASE Truncate(r)
    <2>1. (IF target[r] < Len(log) THEN SubSeq(log, 1, target[r]) ELSE log) \in Seq(Event)
      BY PrefixReferenced DEF TypeOK
    <2>2. log' \in Seq(Event)
      BY <1>4, <2>1, BlurSame, SameReferenced DEF Truncate
    <2>. QED
      BY <1>4, <2>2 DEF Truncate, Goto, TypeOK, run, rewind, ghost
  <1>5. CASE Prune(r)
    BY <1>5 DEF Prune, Goto, TypeOK, run, rewind
  <1>6. CASE Mark(r)
    <2>1. log' \in Seq(Event)
      BY <1>6, PlainAppend DEF Mark
    <2>. QED
      BY <1>6, <2>1, OverTypes DEF Mark, TypeOK, run, ghost
  <1>7. CASE RewindStops(r)
    BY <1>7, OverTypes DEF RewindStops, TypeOK, run, ghost
  <1>. QED
    BY <1>1, <1>2, <1>3, <1>4, <1>5, <1>6, <1>7 DEF RewindStep

LEMMA TypeStep ==
    ASSUME TypeOK, [Next]_vars
    PROVE  TypeOK'
  <1>1. CASE KillTui
    <2>1. log' \in Seq(Event)
      BY <1>1, BlurReferenced DEF KillTui
    <2>2. \A t \in Turns : batch'[t] = <<>>
      BY <1>1 DEF KillTui
    <2>3. batch' \in [Turns -> Seq(Event)]
      BY <1>1 DEF KillTui
    <2>. QED
      BY <1>1, <2>1, <2>3, NothingReferred DEF KillTui, TypeOK, rewind, ghost
  <1>2. CASE ForkStep
    <2>1. issued' \in 0 .. MaxIssued
      BY <1>2, IssuedAssumption DEF ForkStep, ForkEvents, ForkList, ForkCopy, ForkReturns, ForkStops,
         TypeOK
    <2>2. fork' \in Fork
      <3>1. CASE ForkEvents
        <4>1. Referenced(log) \subseteq Contents
          BY DEF Referenced, BlobsOf
        <4>2. fork' = [NoFork EXCEPT !.pc = "list", !.needs = Referenced(log)]
          BY <3>1 DEF ForkEvents
        <4>. QED
          BY <4>1, <4>2 DEF NoFork, Fork
      <3>2. CASE ForkList
        BY <3>2 DEF ForkList, Fork, TypeOK
      <3>3. CASE ForkCopy
        <4>1. PICK b \in fork.listed \ fork.has :
                  fork' = IF b \in blobs THEN [fork EXCEPT !.has = @ \cup {b}]
                          ELSE [fork EXCEPT !.pc = "failed"]
          BY <3>3 DEF ForkCopy
        <4>2. /\ fork \in Fork /\ fork.has \in SUBSET Contents
              /\ fork.has \cup {b} \in SUBSET Contents
          BY DEF Fork, TypeOK
        <4>3. \/ fork' = [fork EXCEPT !.has = fork.has \cup {b}]
              \/ fork' = [fork EXCEPT !.pc = "failed"]
          BY <4>1
        <4>. QED
          BY <4>2, <4>3 DEF Fork
      <3>4. CASE ForkReturns
        BY <3>4 DEF ForkReturns, Fork, TypeOK
      <3>5. CASE ForkStops
        BY <3>5 DEF ForkStops, Fork, TypeOK
      <3>. QED
        BY <1>2, <3>1, <3>2, <3>3, <3>4, <3>5 DEF ForkStep
    <2>. QED
      BY <1>2, <2>1, <2>2 DEF ForkStep, ForkEvents, ForkList, ForkCopy, ForkReturns, ForkStops, TypeOK,
         store, run, rewind, ghost
  <1>3. CASE UNCHANGED vars
    BY <1>3 DEF vars, store, run, rewind, ghost, TypeOK
  <1>. QED
    BY <1>1, <1>2, <1>3, ExecTypes, TurnTypes, ToolTypes, RewindTypes DEF Next

-----------------------------------------------------------------------------
(* Steps keep what is referred to.                                           *)

\* Blobs are only added, and nothing more is referred to.
LEMMA BlobsGrow ==
    ASSUME RewindInv, blobs \subseteq blobs', orphaned' = orphaned,
           Referenced(log') \subseteq Referenced(log),
           \A t \in Turns : BlobsOf(image'[t]) \cup Referenced(batch'[t])
                                \subseteq BlobsOf(image[t]) \cup Referenced(batch[t]),
           \A x \in Execs : pc'[x] = "captured" => pc[x] = "captured" /\ image'[x] = image[x]
    PROVE  BlobInv'
BY DEF RewindInv, BlobInv

LEMMA EmptyBatch == Referenced(<<>>) = {}
BY DEF Referenced

LEMMA ExecKeeps ==
    ASSUME RewindInv, NEW x \in Execs, ExecStep(x)
    PROVE  LockInv' /\ TurnInv' /\ BlobInv'
  <1>. x \in Runs /\ x \notin Turns /\ x \notin Rewinds
    BY Actors
  <1>. \A t \in Turns : t # x
    BY Actors
  <1>0. TypeOK
    BY DEF RewindInv
  <1>1. pc' = [pc EXCEPT ![x] = pc'[x]] /\ \A a \in (Runs \cup Rewinds) \ {x} : image'[a] = image[a]
    BY <1>0, SnapshotTypes DEF ExecStep, ExecCall, Capture, Record, CaptureFails, KillExec, Goto, TypeOK
  <1>2. batch' = batch
    BY DEF ExecStep, ExecCall, Capture, Record, CaptureFails, KillExec, run
  <1>3. TurnInv'
    BY <1>0, <1>1, <1>2, Actors DEF RewindInv, TurnInv, TypeOK
  <1>4. LockInv'
    <2>1. /\ pc[x] # "captured" => (holder' = holder \/ holder = NoOne \/ holder = x)
          /\ pc[x] = "captured" => holder = x
          /\ pc'[x] = "captured" => holder' = x
          /\ holder' # holder => holder = x \/ holder = NoOne
      BY <1>0 DEF RewindInv, LockInv, TypeOK, ExecStep, ExecCall, Capture, Record, CaptureFails, KillExec,
         Goto, Unlock
    <2>. QED
      BY <1>0, <1>1, <2>1, Actors DEF RewindInv, LockInv, TypeOK
  <1>5. orphaned' = orphaned /\ blobs \subseteq blobs'
    BY <1>0, SnapshotTypes DEF ExecStep, ExecCall, Capture, Record, CaptureFails, KillExec, ghost
  <1>6. /\ \A t \in Turns : image'[t] = image[t]
        /\ \A y \in Execs \ {x} : image'[y] = image[y] /\ pc'[y] = pc[y]
    BY <1>0, <1>1, Actors DEF TypeOK
  <1>7. BlobInv'
    <2>1. CASE ExecCall(x)
      <3>1. Referenced(log') = Referenced(log)
        BY <1>0, <2>1, PlainAppend DEF ExecCall
      <3>2. pc'[x] # "captured" /\ image' = image
        BY <1>0, <2>1 DEF ExecCall, Goto, TypeOK
      <3>. QED
        BY <1>2, <1>5, <1>6, <3>1, <3>2, BlobsGrow
    <2>2. CASE Capture(x)
      <3>1. BlobsOf(image'[x]) \subseteq blobs'
        BY <1>0, <2>2, SnapshotTypes DEF Capture
      <3>2. log' = log
        BY <2>2 DEF Capture
      <3>. QED
        BY <1>2, <1>5, <1>6, <3>1, <3>2 DEF RewindInv, BlobInv
    <2>3. CASE Record(x)
      <3>. DEFINE late == {f \in Files : image[x][f] \notin {None, Skipped, ws[f]}}
                  event == NewEvent(Runs \ {x}, image[x])
      <3>1. event \in Event /\ event.files = image[x]
        BY <1>0, NewEventType DEF TypeOK
      <3>2. <<event>> \in Seq(Event) /\ Referenced(<<event>>) = BlobsOf(image[x])
        BY <3>1, OneReferenced
      <3>. HIDE DEF late, event
      <3>3. /\ Blur(log, Overtaking(x)) \in Seq(Event)
            /\ Referenced(Blur(log, Overtaking(x))) = Referenced(log)
        BY <1>0, BlurSame, SameReferenced DEF TypeOK
      <3>4. Blur(<<event>>, late) \in Seq(Event) /\ Referenced(Blur(<<event>>, late)) = BlobsOf(image[x])
        BY <3>2, BlurSame, SameReferenced
      <3>5. Referenced(log') = Referenced(log) \cup BlobsOf(image[x])
        <4>1. log' = Blur(log, Overtaking(x)) \o Blur(<<event>>, late)
          BY <2>3 DEF Record, late, event
        <4>. QED
          BY <3>3, <3>4, <4>1, ConcatReferenced
      <3>6. BlobsOf(image[x]) \subseteq blobs
        BY <2>3 DEF Record, RewindInv, BlobInv
      <3>7. pc'[x] # "captured" /\ image' = image
        BY <1>0, <2>3 DEF Record, Goto, TypeOK
      <3>. QED
        BY <1>2, <1>5, <1>6, <3>5, <3>6, <3>7 DEF RewindInv, BlobInv
    <2>4. CASE CaptureFails(x) \/ KillExec(x)
      <3>1. pc'[x] # "captured" /\ log' = log
        BY <1>0, <2>4 DEF CaptureFails, KillExec, Goto, TypeOK
      <3>. QED
        BY <1>2, <1>5, <1>6, <3>1, BlobsGrow
    <2>. QED
      BY <2>1, <2>2, <2>3, <2>4 DEF ExecStep
  <1>. QED
    BY <1>3, <1>4, <1>7

LEMMA TurnKeeps ==
    ASSUME RewindInv, NEW t \in Turns, TurnStep(t)
    PROVE  LockInv' /\ TurnInv' /\ BlobInv'
  <1>. t \in Runs /\ t \notin Execs /\ t \notin Rewinds
    BY Actors
  <1>0. TypeOK
    BY DEF RewindInv
  <1>1. /\ \A a \in (Runs \cup Rewinds) \ {t} : image'[a] = image[a] /\ pc'[a] = pc[a]
        /\ \A u \in Turns \ {t} : batch'[u] = batch[u]
    BY <1>0, SnapshotTypes DEF TurnStep, TurnCall, Cancel, Flush, Goto, TypeOK, run
  <1>2. holder' = holder /\ orphaned' = orphaned /\ blobs \subseteq blobs'
    BY <1>0, SnapshotTypes DEF TurnStep, TurnCall, Cancel, Flush, ghost
  <1>3. LockInv'
    BY <1>0, <1>1, <1>2, Actors DEF RewindInv, LockInv
  <1>4. CASE TurnCall(t)
    <2>1. Snapshot(t) /\ log' = log /\ pc'[t] = "mutate" /\ pc[Tui] = "idle"
      BY <1>0, <1>4 DEF TurnCall, Goto, TypeOK
    <2>. DEFINE call == NewEvent(Runs \ {t}, Nothing)
                checkpoint == NewEvent(Runs \ {t}, image'[t])
    <2>2. /\ call \in Event /\ BlobsOf(call.files) = {}
          /\ checkpoint \in Event /\ checkpoint.files = image'[t]
      BY <1>0, <2>1, SnapshotTypes, NothingReferred, NewEventType
    <2>3. batch' = [batch EXCEPT ![t] = batch[t] \o <<call, checkpoint>>]
      BY <1>4 DEF TurnCall
    <2>. HIDE DEF call, checkpoint
    <2>4. <<call, checkpoint>> \in Seq(Event) /\ <<call, checkpoint>> = Append(<<call>>, checkpoint)
      BY <2>2
    <2>5. Referenced(<<call, checkpoint>>) = BlobsOf(image'[t])
      <3>1. <<call>> \in Seq(Event) /\ Referenced(<<call>>) = {}
        BY <2>2, OneReferenced
      <3>2. Referenced(Append(<<call>>, checkpoint)) = Referenced(<<call>>) \cup BlobsOf(checkpoint.files)
        BY <2>2, <3>1, AppendReferenced
      <3>. QED
        BY <2>2, <2>4, <3>1, <3>2
    <2>6. Referenced(batch'[t]) = Referenced(batch[t]) \cup BlobsOf(image'[t])
      <3>1. batch[t] \in Seq(Event) /\ batch'[t] = batch[t] \o <<call, checkpoint>>
        BY <1>0, <2>3 DEF TypeOK
      <3>. QED
        BY <2>4, <2>5, <3>1, ConcatReferenced
    <2>7. BlobsOf(image'[t]) \subseteq blobs'
      BY <1>0, <2>1, SnapshotTypes
    <2>8. BlobInv'
      BY <1>1, <1>2, <2>1, <2>6, <2>7, Actors DEF RewindInv, BlobInv
    <2>9. TurnInv'
      BY <1>1, <2>1, Actors DEF RewindInv, TurnInv
    <2>. QED
      BY <1>3, <2>8, <2>9
  <1>5. CASE Cancel(t)
    <2>1. Referenced(log') = Referenced(log)
      BY <1>0, <1>5, PlainAppend DEF Cancel
    <2>2. UNCHANGED <<pc, image, batch>>
      BY <1>5 DEF Cancel
    <2>3. BlobInv'
      BY <1>2, <2>1, <2>2, BlobsGrow
    <2>. QED
      BY <1>3, <2>2, <2>3 DEF RewindInv, TurnInv
  <1>6. CASE Flush(t)
    <2>1. /\ batch'[t] = <<>> /\ image' = image /\ blobs' = blobs
          /\ pc[t] = "turn" /\ pc'[t] = "idle" /\ image[t] = Nothing
      BY <1>0, <1>6 DEF Flush, Goto, TypeOK, RewindInv, TurnInv
    <2>2. Referenced(log') \subseteq Referenced(log) \cup Referenced(batch[t])
      <3>1. /\ Placed(t) \in Seq(Event) /\ Referenced(Placed(t)) = Referenced(batch[t])
            /\ \A F : Blur(log, F) \in Seq(Event) /\ Referenced(Blur(log, F)) = Referenced(log)
        BY <1>0, BlurSame, PlacedSame, SameReferenced DEF TypeOK
      <3>2. CASE log' = Blur(log, Overtaking(t)) \o Placed(t)
        BY <3>1, <3>2, ConcatReferenced
      <3>3. CASE log' = Blur(log, Open(t))
        BY <3>1, <3>3
      <3>. QED
        BY <1>6, <3>2, <3>3 DEF Flush
    <2>3. BlobInv'
      BY <1>1, <1>2, <2>1, <2>2, EmptyBatch, Actors DEF RewindInv, BlobInv
    <2>4. pc[Tui] = "idle"
      BY <2>1 DEF RewindInv, TurnInv
    <2>5. TurnInv'
      BY <1>1, <2>1, <2>4, Actors DEF RewindInv, TurnInv
    <2>. QED
      BY <1>3, <2>3, <2>5
  <1>. QED
    BY <1>4, <1>5, <1>6 DEF TurnStep

LEMMA ToolKeeps ==
    ASSUME RewindInv, NEW r \in Runs, Tool(r)
    PROVE  LockInv' /\ TurnInv' /\ BlobInv'
  <1>0. TypeOK
    BY DEF RewindInv
  <1>1. /\ \A a \in (Runs \cup Rewinds) \ {r} : image'[a] = image[a] /\ pc'[a] = pc[a]
        /\ image'[r] = Nothing /\ pc[r] = "mutate" /\ pc'[r] \in {"idle", "turn"}
        /\ r \in Turns => pc'[r] = "turn"
    BY <1>0, Actors DEF Tool, Goto, TypeOK
  <1>2. /\ UNCHANGED <<blobs, holder, orphaned>>
        /\ \A t \in Turns : /\ Referenced(batch'[t]) = Referenced(batch[t])
                            /\ batch[t] = <<>> => batch'[t] = <<>>
    BY <1>0, DisturbSame DEF Tool, ghost
  <1>3. Referenced(log') = Referenced(log)
    BY <1>0, BlurReferenced DEF Tool
  <1>4. BlobInv'
    BY <1>1, <1>2, <1>3, BlobsGrow, NothingReferred, Actors
  <1>5. LockInv'
    BY <1>1, <1>2, Actors DEF RewindInv, LockInv
  <1>6. r \in Turns => pc[Tui] = "idle"
    BY <1>1 DEF RewindInv, TurnInv
  <1>7. TurnInv'
    BY <1>1, <1>2, <1>6, Actors DEF RewindInv, TurnInv
  <1>. QED
    BY <1>4, <1>5, <1>7

\* An actor r, of the rewinds, is at a place of its own; nothing else moves.
LEMMA OthersStay ==
    ASSUME RewindInv, NEW r \in Rewinds, RewindStep(r)
    PROVE  /\ \A a \in (Runs \cup Rewinds) \ {r} : pc'[a] = pc[a] /\ image'[a] = image[a]
           /\ \A u \in Turns : /\ pc'[u] = pc[u] /\ image'[u] = image[u]
                               /\ Referenced(batch'[u]) = Referenced(batch[u])
                               /\ batch[u] = <<>> => batch'[u] = <<>>
           /\ \A x \in Execs : pc'[x] = pc[x] /\ image'[x] = image[x]
  <1>0. TypeOK
    BY DEF RewindInv
  <1>1. CASE Mark(r) \/ RewindStops(r)
    BY <1>0, <1>1, OverTypes, Actors DEF Mark, RewindStops, run, TypeOK
  <1>2. CASE AskRewind(r) \/ ApplyRewind(r) \/ Truncate(r) \/ Prune(r)
    BY <1>0, <1>2, Actors DEF AskRewind, ApplyRewind, Truncate, Prune, Goto, run, TypeOK
  <1>3. CASE Restore(r)
    <2>1. (\E F : Disturb(F)) \/ UNCHANGED batch
      BY <1>3 DEF Restore
    <2>. QED
      BY <1>0, <1>3, <2>1, DisturbSame, Actors DEF Restore
  <1>. QED
    BY <1>1, <1>2, <1>3 DEF RewindStep

LEMMA RewindKeeps ==
    ASSUME RewindInv, NEW r \in Rewinds, RewindStep(r)
    PROVE  LockInv' /\ TurnInv' /\ BlobInv'
  <1>0. TypeOK
    BY DEF RewindInv
  <1>1. pc[r] = "idle" => (r = Tui => \A t \in Turns : pc[t] = "idle") \/ pc'[r] = "idle"
    BY <1>0 DEF RewindStep, AskRewind, ApplyRewind, Restore, Truncate, Prune, Mark, RewindStops, MayRewind
  <1>2. TurnInv'
    BY <1>0, <1>1, OthersStay, Actors DEF RewindInv, TurnInv
  <1>3. LockInv'
    <2>1. /\ holder' # holder => holder = r \/ (holder = NoOne /\ holder' = r)
          /\ pc'[r] \in {"restore", "prune", "mark"} => holder' = r
      BY <1>0 DEF RewindInv, LockInv, TypeOK, RewindStep, AskRewind, ApplyRewind, Restore, Truncate,
         Prune, Mark, RewindStops, Over, Goto, Unlock, store
    <2>. QED
      BY <2>1, OthersStay, Actors DEF RewindInv, LockInv
  <1>4. ASSUME blobs' = blobs, orphaned' = orphaned, Referenced(log') \subseteq Referenced(log)
        PROVE  BlobInv'
    BY <1>4, OthersStay, BlobsGrow
  <1>5. CASE AskRewind(r) \/ ApplyRewind(r)
    BY <1>2, <1>3, <1>4, <1>5 DEF AskRewind, ApplyRewind, store, ghost
  <1>6. CASE Restore(r)
    <2>1. PICK f \in todo[r] : log' = BlurLatest(log, {f}) \/ log' = log
      BY <1>6 DEF Restore
    <2>2. f \in Files
      BY <1>0, Actors DEF TypeOK
    <2>3. Referenced(log') = Referenced(log)
      BY <1>0, <2>1, <2>2, BlurLatestSame, SameReferenced DEF TypeOK
    <2>. QED
      BY <1>2, <1>3, <1>4, <1>6, <2>3 DEF Restore, ghost
  <1>7. CASE Truncate(r)
    <2>. DEFINE kept == IF target[r] < Len(log) THEN SubSeq(log, 1, target[r]) ELSE log
    <2>1. kept \in Seq(Event) /\ Referenced(kept) \subseteq Referenced(log)
      BY <1>0, PrefixReferenced DEF TypeOK
    <2>. HIDE DEF kept
    <2>2. log' = Blur(kept, OpenNow \cup skipped[r])
      BY <1>7 DEF Truncate, kept
    <2>3. Referenced(log') \subseteq Referenced(log)
      BY <2>1, <2>2, BlurSame, SameReferenced
    <2>. QED
      BY <1>2, <1>3, <1>4, <1>7, <2>3 DEF Truncate, ghost
  <1>8. CASE Prune(r)
    <2>1. PICK gone \in SUBSET (blobs \ Referenced(log)) :
              /\ blobs' = blobs \ gone
              /\ orphaned' = IF r = Cli THEN orphaned \cup (gone \cap Unwritten) ELSE orphaned
      BY <1>8 DEF Prune
    <2>2. log' = log /\ holder = r
      BY <1>8 DEF Prune, RewindInv, LockInv
    <2>3. Referenced(log') \subseteq blobs' \cup orphaned'
      BY <2>1, <2>2 DEF RewindInv, BlobInv
    <2>4. ASSUME NEW t \in Turns
          PROVE  BlobsOf(image'[t]) \cup Referenced(batch'[t]) \subseteq blobs' \cup orphaned'
      <3>1. BlobsOf(image'[t]) \cup Referenced(batch'[t]) = BlobsOf(image[t]) \cup Referenced(batch[t])
        BY OthersStay
      <3>2. CASE r = Cli
        <4>1. BlobsOf(image[t]) \cup Referenced(batch[t]) \subseteq Unwritten
          BY DEF Unwritten
        <4>. QED
          BY <2>1, <3>1, <3>2, <4>1 DEF RewindInv, BlobInv
      <3>3. CASE r = Tui
        <4>1. image[t] = Nothing /\ batch[t] = <<>>
          BY <1>8, <3>3 DEF Prune, RewindInv, TurnInv
        <4>. QED
          BY <3>1, <4>1, NothingReferred, EmptyBatch
      <3>. QED
        BY <3>2, <3>3 DEF Rewinds
    <2>5. \A x \in Execs : pc'[x] # "captured"
      BY <2>2, OthersStay, Actors DEF RewindInv, LockInv
    <2>. QED
      BY <1>2, <1>3, <2>3, <2>4, <2>5 DEF BlobInv
  <1>9. CASE Mark(r)
    <2>1. Referenced(log') = Referenced(log)
      BY <1>0, <1>9, PlainAppend DEF Mark
    <2>. QED
      BY <1>2, <1>3, <1>4, <1>9, <2>1 DEF Mark, ghost
  <1>10. CASE RewindStops(r)
    BY <1>2, <1>3, <1>4, <1>10 DEF RewindStops, ghost
  <1>. QED
    BY <1>5, <1>6, <1>7, <1>8, <1>9, <1>10 DEF RewindStep

LEMMA KillTuiKeeps ==
    ASSUME RewindInv, KillTui
    PROVE  LockInv' /\ TurnInv' /\ BlobInv'
  <1>0. TypeOK
    BY DEF RewindInv
  <1>1. /\ \A t \in Turns : pc'[t] = "idle" /\ image'[t] = Nothing /\ batch'[t] = <<>>
        /\ \A x \in Execs \cup Rewinds : pc'[x] = pc[x] /\ image'[x] = image[x]
        /\ UNCHANGED <<blobs, holder, orphaned>>
    BY <1>0, Actors DEF KillTui, TypeOK, ghost
  <1>2. Referenced(log') = Referenced(log)
    BY <1>0, BlurReferenced DEF KillTui
  <1>3. BlobInv'
    BY <1>1, <1>2, NothingReferred, EmptyBatch, BlobsGrow
  <1>4. LockInv' /\ TurnInv'
    BY <1>1 DEF RewindInv, LockInv, TurnInv
  <1>. QED
    BY <1>3, <1>4

\* The fork's view: a blob that is pruned under it is counted.
LEMMA ForkStay ==
    ASSUME RewindInv, fork' = fork, orphaned \subseteq orphaned', unforked \subseteq unforked',
           fork.pc = "no" \/ blobs \subseteq blobs' \cup unforked'
    PROVE  ForkInv'
BY DEF RewindInv, ForkInv

LEMMA ForkKeeps ==
    ASSUME RewindInv, [Next]_vars
    PROVE  ForkInv'
  <1>0. TypeOK
    BY DEF RewindInv
  <1>1. CASE ForkStep
    <2>0. fork \in Fork /\ UNCHANGED <<blobs, orphaned, unforked>>
      BY <1>0, <1>1 DEF TypeOK, ForkStep, ForkEvents, ForkList, ForkCopy, ForkReturns, ForkStops, store, ghost
    <2>1. CASE ForkEvents
      <3>1. fork' = [NoFork EXCEPT !.pc = "list", !.needs = Referenced(log)]
        BY <2>1 DEF ForkEvents
      <3>2. fork'.pc = "list" /\ fork'.needs = Referenced(log)
        BY <3>1 DEF NoFork
      <3>. QED
        BY <2>0, <3>2 DEF RewindInv, BlobInv, ForkInv
    <2>2. CASE ForkList
      <3>1. fork.pc = "list" /\ fork' = [fork EXCEPT !.pc = "copy", !.listed = blobs]
        BY <2>2 DEF ForkList
      <3>2. fork'.pc = "copy" /\ fork'.listed = blobs /\ fork'.needs = fork.needs
        BY <2>0, <3>1 DEF Fork
      <3>. QED
        BY <2>0, <3>1, <3>2 DEF RewindInv, ForkInv
    <2>3. CASE ForkCopy
      <3>1. PICK b \in fork.listed \ fork.has :
                \/ fork' = [fork EXCEPT !.has = fork.has \cup {b}]
                \/ fork' = [fork EXCEPT !.pc = "failed"]
        BY <2>3 DEF ForkCopy
      <3>2. fork.pc = "copy"
        BY <2>3 DEF ForkCopy
      <3>3. \/ fork'.pc = "copy" /\ fork'.listed = fork.listed /\ fork'.needs = fork.needs
            \/ fork'.pc = "failed"
        BY <2>0, <3>1, <3>2 DEF Fork
      <3>. QED
        BY <2>0, <3>2, <3>3 DEF RewindInv, ForkInv
    <2>4. CASE ForkReturns
      <3>1. /\ fork.pc = "copy" /\ fork.listed \subseteq fork.has
            /\ fork' = [fork EXCEPT !.pc = "done"]
        BY <2>4 DEF ForkReturns
      <3>2. fork'.pc = "done" /\ fork'.has = fork.has /\ fork'.needs = fork.needs
        BY <2>0, <3>1 DEF Fork
      <3>. QED
        BY <2>0, <3>1, <3>2 DEF RewindInv, ForkInv
    <2>5. CASE ForkStops
      <3>1. fork'.pc = "failed"
        BY <2>0, <2>5 DEF ForkStops, Fork
      <3>. QED
        BY <3>1 DEF ForkInv
    <2>. QED
      BY <1>1, <2>1, <2>2, <2>3, <2>4, <2>5 DEF ForkStep
  <1>2. ASSUME NEW x \in Execs, ExecStep(x)
        PROVE  ForkInv'
    <2>1. fork' = fork /\ UNCHANGED ghost /\ blobs \subseteq blobs'
      BY <1>0, <1>2, SnapshotTypes, Actors
         DEF ExecStep, ExecCall, Capture, Record, CaptureFails, KillExec
    <2>. QED
      BY <2>1, ForkStay DEF ghost
  <1>3. ASSUME NEW t \in Turns, TurnStep(t)
        PROVE  ForkInv'
    <2>1. fork' = fork /\ UNCHANGED ghost /\ blobs \subseteq blobs'
      BY <1>0, <1>3, SnapshotTypes, Actors DEF TurnStep, TurnCall, Cancel, Flush
    <2>. QED
      BY <2>1, ForkStay DEF ghost
  <1>4. ASSUME NEW r \in Rewinds, RewindStep(r)
        PROVE  ForkInv'
    <2>1. CASE Prune(r)
      BY <2>1, ForkStay DEF Prune
    <2>2. CASE ~Prune(r)
      <3>1. fork' = fork /\ UNCHANGED ghost /\ blobs' = blobs
        BY <1>4, <2>2 DEF RewindStep, AskRewind, ApplyRewind, Restore, Truncate, Mark, RewindStops, store
      <3>. QED
        BY <3>1, ForkStay DEF ghost
    <2>. QED
      BY <2>1, <2>2
  <1>5. CASE (\E r \in Runs : Tool(r)) \/ KillTui \/ UNCHANGED vars
    <2>1. fork' = fork /\ UNCHANGED ghost /\ blobs' = blobs
      BY <1>5 DEF Tool, KillTui, vars, store
    <2>. QED
      BY <2>1, ForkStay DEF ghost
  <1>. QED
    BY <1>1, <1>2, <1>3, <1>4, <1>5 DEF Next

-----------------------------------------------------------------------------
LEMMA InitInv == Init => RewindInv
  <1>. SUFFICES ASSUME Init PROVE RewindInv
    OBVIOUS
  <1>1. TypeOK
    BY NothingReferred, IssuedAssumption DEF Init, TypeOK, Fork, NoFork
  <1>2. /\ \A a \in Runs \cup Rewinds : pc[a] = "idle" /\ image[a] = Nothing
        /\ \A t \in Turns : batch[t] = <<>>
        /\ log = <<>> /\ fork.pc = "no"
    BY DEF Init, NoFork
  <1>3. Turns \subseteq Runs /\ Execs \subseteq Runs /\ Tui \in Rewinds
    BY Actors
  <1>4. LockInv /\ TurnInv /\ ForkInv
    BY <1>2, <1>3 DEF LockInv, TurnInv, ForkInv
  <1>5. BlobInv
    BY <1>2, <1>3, NothingReferred, EmptyBatch DEF BlobInv
  <1>. QED
    BY <1>1, <1>4, <1>5 DEF RewindInv

LEMMA NextInv == RewindInv /\ [Next]_vars => RewindInv'
  <1>. SUFFICES ASSUME RewindInv, [Next]_vars PROVE RewindInv'
    OBVIOUS
  <1>1. TypeOK'
    BY TypeStep DEF RewindInv
  <1>2. ForkInv'
    BY ForkKeeps
  <1>3. CASE ForkStep \/ UNCHANGED vars
    <2>1. UNCHANGED <<log, blobs, holder, pc, image, batch, orphaned>>
      BY <1>3 DEF ForkStep, ForkEvents, ForkList, ForkCopy, ForkReturns, ForkStops, vars, store, run, ghost
    <2>2. BlobInv'
      BY <2>1, BlobsGrow
    <2>. QED
      BY <1>1, <1>2, <2>1, <2>2 DEF RewindInv, LockInv, TurnInv
  <1>4. CASE Next /\ ~ForkStep
    <2>1. LockInv' /\ TurnInv' /\ BlobInv'
      BY <1>4, ExecKeeps, TurnKeeps, ToolKeeps, RewindKeeps, KillTuiKeeps DEF Next
    <2>. QED
      BY <1>1, <1>2, <2>1 DEF RewindInv
  <1>. QED
    BY <1>3, <1>4

THEOREM RewindInvariant == Spec => []RewindInv
  <1>. QED
    BY InitInv, NextInv, PTL DEF Spec

\* Every checkpoint in the log finds its blobs, except those that the command
\* line's rewind pruned before the interface wrote its events.
THEOREM BlobsStay == Spec => []CheckpointsResolve
  <1>1. RewindInv => CheckpointsResolve
    BY DEF RewindInv, BlobInv, CheckpointsResolve
  <1>. QED
    BY RewindInvariant, <1>1, PTL

\* A fork that returned carries the blobs of the events it copied, except
\* those that a rewind of its parent pruned meanwhile.
THEOREM ForksCarryBlobs == Spec => []ForkCarriesBlobs
  <1>1. RewindInv => ForkCarriesBlobs
    BY DEF RewindInv, ForkInv, ForkCarriesBlobs
  <1>. QED
    BY RewindInvariant, <1>1, PTL

-----------------------------------------------------------------------------
(* What a rewind finds of a file.                                            *)

\* Nothing from event i of s on is a checkpoint of the file.
Bare(s, f, i) == \A j \in i .. Len(s) : s[j].files[f] = None

\* The first checkpoint of the file from event i on is event j.
Closest(s, f, i, j) ==
    /\ j \in i .. Len(s) /\ s[j].files[f] # None
    /\ \A k \in i .. j - 1 : s[k].files[f] = None

\* An event either makes no claim about the file or its closest checkpoint has
\* what the file was then, unless it could not be captured.
Backed(s, f) ==
    \A i, j \in DOMAIN s : Closest(s, f, i, j) =>
        s[j].files[f] = Skipped \/ s[i].before[f] \in {Unsure, s[j].files[f]}

\* Events since the last checkpoint of the file claim this state of it, or
\* none; of what could not be captured they may claim anything.
Latest(s, f, state) ==
    state # Skipped =>
        \A i \in DOMAIN s : Bare(s, f, i) => s[i].before[f] \in {Unsure, state}

\* Nothing is claimed of the file at all.
Blurred(s, f) == \A i \in DOMAIN s : s[i].before[f] = Unsure

\* The turn has a checkpoint of the file to write.
Keeps(t, f) == ~ Bare(batch[t], f, 1)

Free(f) == \A t \in Turns : ~ Keeps(t, f)

Alone(t, f) == \A u \in Turns \ {t} : ~ Keeps(u, f)

\* A call is changing the file under a checkpoint in the log.
Covered(x, f) == pc[x] = "mutate" /\ f \in todo[x] /\ image[x][f] # None

\* What a rewind found of a file from event i on.
Found(s, f, i, state) ==
    \/ state = None /\ Bare(s, f, i)
    \/ \E j \in DOMAIN s : Closest(s, f, i, j) /\ state = s[j].files[f]

\* A run has files open while it has them captured, or changes them.
CallInv ==
    /\ \A r \in Runs : pc[r] \notin {"captured", "mutate"} => todo[r] = {}
    /\ \A x \in Execs : pc[x] = "captured" => todo[x] = Captured(image[x])
    /\ \A t \in Turns : \A f \in todo[t] : Keeps(t, f)

\* The log agrees with a file no turn has a checkpoint of to write,
LogFits(f) ==
    /\ Backed(log, f)
    /\ Free(f) => Latest(log, f, ws[f])

\* what a turn has to write agrees with the file; and the log with the
\* earliest checkpoint of a turn that is alone with the file, which comes next,
BatchFits(t, f) ==
    /\ Backed(batch[t], f) /\ Latest(batch[t], f, ws[f])
    /\ Alone(t, f) =>
          \A j \in DOMAIN batch[t] : Closest(batch[t], f, 1, j) => Latest(log, f, batch[t][j].files[f])

\* with what an exec run has captured, and with any change it makes.
ExecFits(x, f) ==
    /\ Covered(x, f) => Latest(log, f, Unsure)
    /\ pc[x] = "captured" /\ image[x][f] # None /\ Free(f) => Latest(log, f, image[x][f])

\* A rewind restores what it found, and meets its goal with it.
GoalFits(r, f) ==
    /\ Found(log, f, target[r] + 1, image[r][f])
    /\ f \in todo[r] => image[r][f] # None
    /\ \/ goal[r][f] = Unsure \/ image[r][f] = Skipped
       \/ image[r][f] = None /\ goal[r][f] = ws[f]
       \/ goal[r][f] = image[r][f]
    /\ image[r][f] # None /\ f \notin todo[r] \cup skipped[r] =>
          /\ image[r][f] # Skipped
          /\ ws[f] = image[r][f] \/ (goal[r][f] = Unsure /\ Blurred(log, f))

ExactInv ==
    /\ CallInv
    /\ \A f \in Files : LogFits(f)
    /\ \A t \in Turns : \A f \in Files : BatchFits(t, f)
    /\ \A x \in Execs : \A f \in Files : ExecFits(x, f)
    /\ \A r \in Rewinds : pc[r] = "restore" => \A f \in Files : GoalFits(r, f)

-----------------------------------------------------------------------------
(* What a change of the claims of a log leaves of that.                      *)

LEMMA SameBare ==
    ASSUME NEW a \in Seq(Event), NEW b, SameFiles(a, b), NEW f, NEW i \in Nat \ {0}
    PROVE  /\ Bare(a, f, i) <=> Bare(b, f, i)
           /\ \A j : Closest(a, f, i, j) <=> Closest(b, f, i, j)
  <1>1. Len(a) \in Nat /\ Len(b) = Len(a) /\ \A k \in 1 .. Len(a) : b[k].files = a[k].files
    BY DEF SameFiles
  <1>2. Bare(a, f, i) <=> Bare(b, f, i)
    BY <1>1 DEF Bare
  <1>3. ASSUME NEW j
        PROVE  Closest(a, f, i, j) <=> Closest(b, f, i, j)
    BY <1>1 DEF Closest
  <1>. QED
    BY <1>2, <1>3

\* The same events with fewer claims.
Fainter(a, b) ==
    /\ SameFiles(a, b)
    /\ \A i \in 1 .. Len(a) : \A f \in Files : b[i].before[f] \in {Unsure, a[i].before[f]}

LEMMA SameIsFainter == ASSUME NEW a \in Seq(Event) PROVE Fainter(a, a)
BY DEF Fainter, SameFiles

LEMMA FainterHolds ==
    ASSUME NEW a \in Seq(Event), NEW b, Fainter(a, b), NEW f \in Files
    PROVE  /\ Backed(a, f) => Backed(b, f)
           /\ \A state : Latest(a, f, state) => Latest(b, f, state)
           /\ Blurred(a, f) => Blurred(b, f)
  <1>1. /\ b \in Seq(Event) /\ Len(b) = Len(a) /\ Len(a) \in Nat
        /\ DOMAIN a = 1 .. Len(a) /\ DOMAIN b = 1 .. Len(a)
        /\ \A i \in 1 .. Len(a) : /\ b[i].files = a[i].files
                                  /\ b[i].before[f] \in {Unsure, a[i].before[f]}
    BY DEF Fainter, SameFiles
  <1>2. \A i \in 1 .. Len(a) : /\ Bare(a, f, i) <=> Bare(b, f, i)
                               /\ \A j : Closest(a, f, i, j) <=> Closest(b, f, i, j)
    <2>1. SameFiles(a, b) /\ \A i \in 1 .. Len(a) : i \in Nat \ {0}
      BY <1>1 DEF Fainter
    <2>. QED
      BY <2>1, SameBare
  <1>3. ASSUME Backed(a, f)
        PROVE  Backed(b, f)
    BY <1>1, <1>2, <1>3 DEF Backed
  <1>4. ASSUME NEW state, Latest(a, f, state)
        PROVE  Latest(b, f, state)
    BY <1>1, <1>2, <1>4 DEF Latest
  <1>5. ASSUME Blurred(a, f)
        PROVE  Blurred(b, f)
    BY <1>1, <1>5 DEF Blurred
  <1>. QED
    BY <1>3, <1>4, <1>5

LEMMA BlurredHolds ==
    ASSUME NEW s, NEW f, Blurred(s, f)
    PROVE  Backed(s, f) /\ \A state : Latest(s, f, state)
BY DEF Blurred, Backed, Latest

LEMMA UnsureHolds ==
    ASSUME NEW s, NEW f, Latest(s, f, Unsure)
    PROVE  \A state : Latest(s, f, state)
BY DEF Latest, Unsure, Skipped

LEMMA BlurIs ==
    ASSUME NEW a \in Seq(Event), NEW F
    PROVE  /\ Fainter(a, Blur(a, F))
           /\ \A f \in Files \cap F : Blurred(Blur(a, F), f)
  <1>1. SameFiles(a, Blur(a, F))
    BY BlurSame
  <1>2. DOMAIN a = 1 .. Len(a) /\ \A i \in 1 .. Len(a) : a[i] \in Event
    OBVIOUS
  <1>3. ASSUME NEW i \in 1 .. Len(a), NEW f \in Files
        PROVE  Blur(a, F)[i].before[f] = IF f \in F THEN Unsure ELSE a[i].before[f]
    <2>. DEFINE was == [g \in Files |-> IF g \in F THEN Unsure ELSE a[i].before[g]]
    <2>1. Blur(a, F)[i] = [a[i] EXCEPT !.before = was]
      BY <1>2 DEF Blur
    <2>2. was[f] = IF f \in F THEN Unsure ELSE a[i].before[f]
      OBVIOUS
    <2>. HIDE DEF was
    <2>. QED
      BY <1>2, <2>1, <2>2 DEF Event
  <1>4. DOMAIN Blur(a, F) = 1 .. Len(a)
    BY <1>2 DEF Blur
  <1>. QED
    BY <1>1, <1>3, <1>4 DEF Fainter, Blurred

LEMMA BlurLatestIs ==
    ASSUME NEW a \in Seq(Event), NEW F
    PROVE  /\ Fainter(a, BlurLatest(a, F))
           /\ \A f \in Files \cap F : \A state : Latest(BlurLatest(a, F), f, state)
  <1>1. SameFiles(a, BlurLatest(a, F))
    BY BlurLatestSame
  <1>2. /\ DOMAIN a = 1 .. Len(a) /\ Len(a) \in Nat
        /\ \A i \in 1 .. Len(a) : a[i] \in Event
    OBVIOUS
  <1>3. ASSUME NEW i \in 1 .. Len(a), NEW f \in Files
        PROVE  BlurLatest(a, F)[i].before[f]
                   = IF f \in F /\ Bare(a, f, i) THEN Unsure ELSE a[i].before[f]
    <2>. DEFINE was == [g \in Files |->
                           IF g \in F /\ \A j \in i .. Len(a) : a[j].files[g] = None
                           THEN Unsure ELSE a[i].before[g]]
    <2>1. BlurLatest(a, F)[i] = [a[i] EXCEPT !.before = was]
      BY <1>2 DEF BlurLatest
    <2>2. was[f] = IF f \in F /\ Bare(a, f, i) THEN Unsure ELSE a[i].before[f]
      BY DEF Bare
    <2>. HIDE DEF was
    <2>. QED
      BY <1>2, <2>1, <2>2 DEF Event
  <1>4. DOMAIN BlurLatest(a, F) = 1 .. Len(a)
    BY <1>2 DEF BlurLatest
  <1>5. Fainter(a, BlurLatest(a, F))
    BY <1>1, <1>3 DEF Fainter
  <1>6. ASSUME NEW f \in Files \cap F, NEW state
        PROVE  Latest(BlurLatest(a, F), f, state)
    <2>0. \A i \in 1 .. Len(a) : i \in Nat \ {0}
      OBVIOUS
    <2>1. \A i \in 1 .. Len(a) : Bare(a, f, i) <=> Bare(BlurLatest(a, F), f, i)
      BY <1>1, <2>0, SameBare
    <2>. QED
      BY <1>3, <1>4, <2>1 DEF Latest
  <1>. QED
    BY <1>5, <1>6

-----------------------------------------------------------------------------
(* What is left of a log that is cut, and of two that are joined.            *)

\* An event of two sequences is one of the first or one of the second.
LEMMA Joined ==
    ASSUME NEW a \in Seq(Event), NEW b \in Seq(Event)
    PROVE  /\ a \o b \in Seq(Event) /\ Len(a \o b) = Len(a) + Len(b)
           /\ Len(a) \in Nat /\ Len(b) \in Nat
           /\ DOMAIN (a \o b) = 1 .. Len(a) + Len(b)
           /\ \A i \in 1 .. Len(a) : (a \o b)[i] = a[i]
           /\ \A i \in 1 .. Len(b) : (a \o b)[Len(a) + i] = b[i]
  <1>1. Len(a) \in Nat /\ Len(b) \in Nat /\ Len(a \o b) = Len(a) + Len(b)
    OBVIOUS
  <1>2. a \o b \in Seq(Event)
    OBVIOUS
  <1>3. DOMAIN (a \o b) = 1 .. Len(a) + Len(b)
    BY <1>1
  <1>4. \A i \in 1 .. Len(a) : (a \o b)[i] = a[i]
    OBVIOUS
  <1>5. \A i \in 1 .. Len(b) : (a \o b)[Len(a) + i] = b[i]
    BY <1>1
  <1>. QED
    BY <1>1, <1>2, <1>3, <1>4, <1>5

LEMMA JoinedBare ==
    ASSUME NEW a \in Seq(Event), NEW b \in Seq(Event), NEW f
    PROVE  /\ \A i \in 1 .. Len(a) + 1 : Bare(a \o b, f, i) <=> Bare(a, f, i) /\ Bare(b, f, 1)
           /\ \A i \in 1 .. Len(b) : Bare(a \o b, f, Len(a) + i) <=> Bare(b, f, i)
  <1>. DEFINE c == a \o b  n == Len(a)  m == Len(b)
  <1>1. /\ Len(c) = n + m /\ n \in Nat /\ m \in Nat
        /\ \A i \in 1 .. n : c[i] = a[i]
        /\ \A i \in 1 .. m : c[n + i] = b[i]
    BY Joined
  <1>. HIDE DEF c
  <1>2. ASSUME NEW i \in 1 .. n + 1
        PROVE  Bare(c, f, i) <=> Bare(a, f, i) /\ Bare(b, f, 1)
    <2>1. ASSUME Bare(c, f, i)  PROVE Bare(a, f, i) /\ Bare(b, f, 1)
      <3>1. \A j \in i .. n : j \in i .. n + m /\ j \in 1 .. n
        BY <1>1
      <3>2. \A j \in 1 .. m : n + j \in i .. n + m
        BY <1>1
      <3>. QED
        BY <1>1, <2>1, <3>1, <3>2 DEF Bare
    <2>2. ASSUME Bare(a, f, i), Bare(b, f, 1)  PROVE Bare(c, f, i)
      <3>1. ASSUME NEW j \in i .. n + m
            PROVE  c[j].files[f] = None
        <4>1. CASE j <= n
          <5>1. j \in i .. n /\ j \in 1 .. n
            BY <1>1, <4>1
          <5>. QED
            BY <1>1, <2>2, <5>1 DEF Bare
        <4>2. CASE j > n
          <5>1. j - n \in 1 .. m /\ j = n + (j - n)
            BY <1>1, <4>2
          <5>2. b[j - n].files[f] = None
            BY <2>2, <5>1 DEF Bare
          <5>3. c[j] = b[j - n]
            BY <1>1, <5>1
          <5>. QED
            BY <5>2, <5>3
        <4>. QED
          BY <1>1, <4>1, <4>2
      <3>. QED
        BY <1>1, <3>1 DEF Bare
    <2>. QED
      BY <2>1, <2>2
  <1>3. ASSUME NEW i \in 1 .. m
        PROVE  Bare(c, f, n + i) <=> Bare(b, f, i)
    <2>1. ASSUME Bare(c, f, n + i)  PROVE Bare(b, f, i)
      <3>1. \A j \in i .. m : j \in 1 .. m /\ n + j \in n + i .. n + m
        BY <1>1
      <3>. QED
        BY <1>1, <2>1, <3>1 DEF Bare
    <2>2. ASSUME Bare(b, f, i)  PROVE Bare(c, f, n + i)
      <3>1. ASSUME NEW j \in n + i .. n + m
            PROVE  c[j].files[f] = None
        <4>1. j - n \in i .. m /\ j - n \in 1 .. m /\ j = n + (j - n)
          BY <1>1
        <4>2. b[j - n].files[f] = None
          BY <2>2, <4>1 DEF Bare
        <4>3. c[j] = b[j - n]
          BY <1>1, <4>1
        <4>. QED
          BY <4>2, <4>3
      <3>. QED
        BY <1>1, <3>1 DEF Bare
    <2>. QED
      BY <2>1, <2>2
  <1>. QED
    BY <1>2, <1>3 DEF c

\* The closest checkpoint is in the first sequence, or there is none in it.
LEMMA JoinedClosest ==
    ASSUME NEW a \in Seq(Event), NEW b \in Seq(Event), NEW f, NEW j \in 1 .. Len(a) + Len(b)
    PROVE  /\ \A i \in 1 .. Len(a) + 1 : Closest(a \o b, f, i, j) =>
                 \/ j \in 1 .. Len(a) /\ Closest(a, f, i, j)
                 \/ j - Len(a) \in 1 .. Len(b) /\ Bare(a, f, i) /\ Closest(b, f, 1, j - Len(a))
           /\ \A i \in 1 .. Len(b) : Closest(a \o b, f, Len(a) + i, j) =>
                 j - Len(a) \in 1 .. Len(b) /\ Closest(b, f, i, j - Len(a))
           /\ j \in 1 .. Len(a) => (a \o b)[j] = a[j]
           /\ j - Len(a) \in 1 .. Len(b) => (a \o b)[j] = b[j - Len(a)]
  <1>. DEFINE c == a \o b  n == Len(a)  m == Len(b)
  <1>1. /\ Len(c) = n + m /\ n \in Nat /\ m \in Nat
        /\ \A i \in 1 .. n : c[i] = a[i]
        /\ \A i \in 1 .. m : c[n + i] = b[i]
    BY Joined
  <1>. HIDE DEF c
  <1>4. ASSUME j - n \in 1 .. m
        PROVE  c[j] = b[j - n]
    <2>1. j = n + (j - n)
      BY <1>1
    <2>. QED
      BY <1>1, <1>4, <2>1
  <1>2. ASSUME NEW i \in 1 .. n + 1, Closest(c, f, i, j)
        PROVE  \/ j \in 1 .. n /\ Closest(a, f, i, j)
               \/ j - n \in 1 .. m /\ Bare(a, f, i) /\ Closest(b, f, 1, j - n)
    <2>1. j \in i .. n + m /\ c[j].files[f] # None /\ \A k \in i .. j - 1 : c[k].files[f] = None
      BY <1>1, <1>2 DEF Closest
    <2>2. CASE j <= n
      <3>1. j \in 1 .. n /\ j \in i .. n /\ \A k \in i .. j - 1 : k \in 1 .. n
        BY <1>1, <2>1, <2>2
      <3>. QED
        BY <1>1, <2>1, <3>1 DEF Closest
    <2>3. CASE j > n
      <3>1. j - n \in 1 .. m /\ j = n + (j - n)
        BY <1>1, <2>3
      <3>2. \A k \in i .. n : k \in i .. j - 1 /\ k \in 1 .. n
        BY <1>1, <2>3
      <3>3. \A k \in 1 .. (j - n) - 1 : n + k \in i .. j - 1 /\ k \in 1 .. m
        BY <1>1, <2>3
      <3>4. Bare(a, f, i)
        BY <1>1, <2>1, <3>2 DEF Bare
      <3>6. \A k \in 1 .. (j - n) - 1 : b[k].files[f] = None
        BY <1>1, <2>1, <3>3
      <3>. QED
        BY <1>4, <2>1, <3>1, <3>4, <3>6 DEF Closest
    <2>. QED
      BY <1>1, <2>2, <2>3
  <1>3. ASSUME NEW i \in 1 .. m, Closest(c, f, n + i, j)
        PROVE  j - n \in 1 .. m /\ Closest(b, f, i, j - n)
    <2>1. /\ j \in n + i .. n + m /\ c[j].files[f] # None
          /\ \A k \in n + i .. j - 1 : c[k].files[f] = None
      BY <1>1, <1>3 DEF Closest
    <2>2. j - n \in 1 .. m /\ j - n \in i .. m /\ j = n + (j - n)
      BY <1>1, <2>1
    <2>3. \A k \in i .. (j - n) - 1 : n + k \in n + i .. j - 1 /\ k \in 1 .. m
      BY <1>1, <2>2
    <2>5. \A k \in i .. (j - n) - 1 : b[k].files[f] = None
      BY <1>1, <2>1, <2>3
    <2>. QED
      BY <1>4, <2>1, <2>2, <2>5 DEF Closest
  <1>. QED
    BY <1>1, <1>2, <1>3, <1>4 DEF c

\* Two sequences agree when the first agrees with what the second starts from.
LEMMA JoinFits ==
    ASSUME NEW a \in Seq(Event), NEW b \in Seq(Event), NEW f
    PROVE  /\ Backed(a, f) /\ Backed(b, f)
              /\ (\A j \in DOMAIN b : Closest(b, f, 1, j) => Latest(a, f, b[j].files[f]))
                 => Backed(a \o b, f)
           /\ \A state : Latest(b, f, state) /\ (Bare(b, f, 1) => Latest(a, f, state))
                 => Latest(a \o b, f, state)
           /\ Bare(a \o b, f, 1) <=> Bare(a, f, 1) /\ Bare(b, f, 1)
  <1>. DEFINE c == a \o b  n == Len(a)  m == Len(b)
  <1>1. /\ n \in Nat /\ m \in Nat /\ DOMAIN c = 1 .. n + m
        /\ DOMAIN a = 1 .. n /\ DOMAIN b = 1 .. m
        /\ \A i \in 1 .. n : c[i] = a[i]
        /\ \A i \in 1 .. m : c[n + i] = b[i]
    BY Joined
  <1>2. \A i \in 1 .. n + m : \/ i \in 1 .. n /\ i \in 1 .. n + 1
                              \/ i - n \in 1 .. m /\ i = n + (i - n)
    BY <1>1
  <1>3. ASSUME Backed(a, f), Backed(b, f),
               \A j \in DOMAIN b : Closest(b, f, 1, j) => Latest(a, f, b[j].files[f])
        PROVE  Backed(c, f)
    <2>1. ASSUME NEW i \in 1 .. n + m, NEW j \in 1 .. n + m, Closest(c, f, i, j)
          PROVE  c[j].files[f] = Skipped \/ c[i].before[f] \in {Unsure, c[j].files[f]}
      <3>1. CASE i \in 1 .. n /\ i \in 1 .. n + 1
        <4>1. \/ j \in 1 .. n /\ Closest(a, f, i, j) /\ c[j] = a[j]
              \/ /\ j - n \in 1 .. m /\ Bare(a, f, i) /\ Closest(b, f, 1, j - n)
                 /\ c[j] = b[j - n]
          BY <2>1, <3>1, JoinedClosest
        <4>2. CASE j \in 1 .. n /\ Closest(a, f, i, j) /\ c[j] = a[j]
          BY <1>1, <1>3, <3>1, <4>2 DEF Backed
        <4>3. CASE /\ j - n \in 1 .. m /\ Bare(a, f, i) /\ Closest(b, f, 1, j - n)
                   /\ c[j] = b[j - n]
          <5>1. Latest(a, f, c[j].files[f])
            BY <1>1, <1>3, <4>3
          <5>. QED
            BY <1>1, <3>1, <4>3, <5>1 DEF Latest
        <4>. QED
          BY <4>1, <4>2, <4>3
      <3>2. CASE i - n \in 1 .. m /\ i = n + (i - n)
        <4>1. /\ j - n \in 1 .. m /\ Closest(b, f, i - n, j - n)
              /\ c[j] = b[j - n]
          <5>. DEFINE k == i - n
          <5>1. k \in 1 .. m /\ Closest(c, f, n + k, j)
            BY <2>1, <3>2
          <5>. HIDE DEF k
          <5>2. j - n \in 1 .. m /\ Closest(b, f, k, j - n) /\ c[j] = b[j - n]
            BY <5>1, JoinedClosest
          <5>. QED
            BY <5>2 DEF k
        <4>2. c[i] = b[i - n]
          BY <1>1, <3>2
        <4>. QED
          BY <1>1, <1>3, <3>2, <4>1, <4>2 DEF Backed
      <3>. QED
        BY <1>2, <3>1, <3>2
    <2>. QED
      BY <1>1, <2>1 DEF Backed
  <1>4. ASSUME NEW state, Latest(b, f, state), Bare(b, f, 1) => Latest(a, f, state)
        PROVE  Latest(c, f, state)
    <2>1. ASSUME state # Skipped, NEW i \in 1 .. n + m, Bare(c, f, i)
          PROVE  c[i].before[f] \in {Unsure, state}
      <3>1. CASE i \in 1 .. n /\ i \in 1 .. n + 1
        <4>1. Bare(a, f, i) /\ Bare(b, f, 1)
          BY <2>1, <3>1, JoinedBare
        <4>. QED
          BY <1>1, <1>4, <2>1, <3>1, <4>1 DEF Latest
      <3>2. CASE i - n \in 1 .. m /\ i = n + (i - n)
        <4>. DEFINE k == i - n
        <4>1. k \in 1 .. m /\ Bare(c, f, n + k) /\ c[i] = b[k]
          BY <1>1, <2>1, <3>2
        <4>. HIDE DEF k
        <4>2. Bare(b, f, k)
          BY <4>1, JoinedBare
        <4>. QED
          BY <1>1, <1>4, <2>1, <4>1, <4>2 DEF Latest
      <3>. QED
        BY <1>2, <2>1, <3>1, <3>2
    <2>. QED
      BY <1>1, <2>1 DEF Latest
  <1>5. Bare(c, f, 1) <=> Bare(a, f, 1) /\ Bare(b, f, 1)
    <2>1. 1 \in 1 .. n + 1
      BY <1>1
    <2>. QED
      BY <2>1, JoinedBare
  <1>. QED
    BY <1>3, <1>4, <1>5

\* The first checkpoint of two sequences is that of the first, if it has one.
LEMMA JoinFirst ==
    ASSUME NEW a \in Seq(Event), NEW b \in Seq(Event), NEW f,
           NEW j \in DOMAIN (a \o b), Closest(a \o b, f, 1, j)
    PROVE  \/ j \in DOMAIN a /\ Closest(a, f, 1, j) /\ (a \o b)[j] = a[j]
           \/ /\ j - Len(a) \in DOMAIN b /\ Closest(b, f, 1, j - Len(a)) /\ Bare(a, f, 1)
              /\ (a \o b)[j] = b[j - Len(a)]
  <1>1. /\ j \in 1 .. Len(a) + Len(b) /\ 1 \in 1 .. Len(a) + 1
        /\ DOMAIN a = 1 .. Len(a) /\ DOMAIN b = 1 .. Len(b)
    BY Joined
  <1>. QED
    BY <1>1, JoinedClosest

\* One event is appended: it is no checkpoint of the file, or it is one.
LEMMA OneMore ==
    ASSUME NEW s \in Seq(Event), NEW e \in Event, NEW f
    PROVE  /\ s \o <<e>> \in Seq(Event)
           /\ e.files[f] = None =>
                 /\ Bare(s \o <<e>>, f, 1) <=> Bare(s, f, 1)
                 /\ Backed(s, f) => Backed(s \o <<e>>, f)
                 /\ \A state : Latest(s, f, state) /\ e.before[f] \in {Unsure, state}
                       => Latest(s \o <<e>>, f, state)
           /\ e.files[f] # None =>
                 /\ ~ Bare(s \o <<e>>, f, 1)
                 /\ \A state : Latest(s \o <<e>>, f, state)
                 /\ Backed(s, f) /\ Latest(s, f, e.files[f])
                       /\ (e.files[f] = Skipped \/ e.before[f] \in {Unsure, e.files[f]})
                       => Backed(s \o <<e>>, f)
           /\ \A j \in DOMAIN (s \o <<e>>) : Closest(s \o <<e>>, f, 1, j) =>
                 \/ j \in DOMAIN s /\ Closest(s, f, 1, j) /\ (s \o <<e>>)[j] = s[j]
                 \/ Bare(s, f, 1) /\ e.files[f] # None /\ (s \o <<e>>)[j] = e
  <1>. DEFINE b == <<e>>
  <1>1. b \in Seq(Event) /\ DOMAIN b = {1} /\ b[1] = e /\ Len(b) = 1
    OBVIOUS
  <1>. HIDE DEF b
  <1>2. Bare(b, f, 1) <=> e.files[f] = None
    BY <1>1 DEF Bare
  <1>3. \A j \in DOMAIN b : Closest(b, f, 1, j) => j = 1 /\ b[j] = e /\ e.files[f] # None
    BY <1>1 DEF Closest
  <1>4. \A state : e.files[f] # None \/ e.before[f] \in {Unsure, state} => Latest(b, f, state)
    BY <1>1, <1>2 DEF Latest
  <1>5. e.files[f] \in {None, Skipped} \/ e.before[f] \in {Unsure, e.files[f]} => Backed(b, f)
    BY <1>1, <1>3 DEF Backed
  <1>6. s \o b \in Seq(Event)
    BY <1>1, Joined
  <1>7. ASSUME e.files[f] = None
        PROVE  /\ Bare(s \o b, f, 1) <=> Bare(s, f, 1)
               /\ Backed(s, f) => Backed(s \o b, f)
               /\ \A state : Latest(s, f, state) /\ e.before[f] \in {Unsure, state}
                     => Latest(s \o b, f, state)
    <2>1. Bare(b, f, 1) /\ Backed(b, f) /\ \A j \in DOMAIN b : ~ Closest(b, f, 1, j)
      BY <1>2, <1>3, <1>5, <1>7
    <2>. QED
      BY <1>1, <1>4, <2>1, JoinFits
  <1>8. ASSUME e.files[f] # None
        PROVE  /\ ~ Bare(s \o b, f, 1)
               /\ \A state : Latest(s \o b, f, state)
               /\ Backed(s, f) /\ Latest(s, f, e.files[f])
                     /\ (e.files[f] = Skipped \/ e.before[f] \in {Unsure, e.files[f]})
                     => Backed(s \o b, f)
    <2>1. ~ Bare(b, f, 1) /\ \A state : Latest(b, f, state)
      BY <1>2, <1>4, <1>8
    <2>2. ~ Bare(s \o b, f, 1) /\ \A state : Latest(s \o b, f, state)
      BY <1>1, <2>1, JoinFits
    <2>3. ASSUME Backed(s, f), Latest(s, f, e.files[f]),
                 e.files[f] = Skipped \/ e.before[f] \in {Unsure, e.files[f]}
          PROVE  Backed(s \o b, f)
      <3>1. \A j \in DOMAIN b : Closest(b, f, 1, j) => Latest(s, f, b[j].files[f])
        BY <1>3, <2>3
      <3>2. Backed(b, f)
        BY <1>5, <2>3
      <3>. QED
        BY <1>1, <2>3, <3>1, <3>2, JoinFits
    <2>. QED
      BY <2>2, <2>3
  <1>9. ASSUME NEW j \in DOMAIN (s \o b), Closest(s \o b, f, 1, j)
        PROVE  \/ j \in DOMAIN s /\ Closest(s, f, 1, j) /\ (s \o b)[j] = s[j]
               \/ Bare(s, f, 1) /\ e.files[f] # None /\ (s \o b)[j] = e
    <2>1. \/ j \in DOMAIN s /\ Closest(s, f, 1, j) /\ (s \o b)[j] = s[j]
          \/ /\ j - Len(s) \in DOMAIN b /\ Closest(b, f, 1, j - Len(s)) /\ Bare(s, f, 1)
             /\ (s \o b)[j] = b[j - Len(s)]
      BY <1>1, <1>9, JoinFirst
    <2>. QED
      BY <1>3, <2>1
  <1>. QED
    BY <1>6, <1>7, <1>8, <1>9 DEF b

\* The log is cut where a rewind looked from.
LEMMA Prefix ==
    ASSUME NEW a \in Seq(Event), NEW n \in Nat, n < Len(a), NEW f
    PROVE  /\ SubSeq(a, 1, n) \in Seq(Event)
           /\ Backed(a, f) => Backed(SubSeq(a, 1, n), f)
           /\ \A state : Found(a, f, n + 1, state) /\ state # None /\ Backed(a, f)
                 => Latest(SubSeq(a, 1, n), f, state)
           /\ \A state : Bare(a, f, n + 1) /\ Latest(a, f, state)
                 => Latest(SubSeq(a, 1, n), f, state)
  <1>. DEFINE s == SubSeq(a, 1, n)
  <1>1. /\ s \in Seq(Event) /\ Len(s) = n /\ DOMAIN s = 1 .. n
        /\ Len(a) \in Nat /\ DOMAIN a = 1 .. Len(a)
        /\ \A i \in 1 .. n : s[i] = a[i]
    OBVIOUS
  <1>. HIDE DEF s
  <1>2. \A i \in 1 .. n : i \in 1 .. Len(a)
    BY <1>1
  <1>3. ASSUME Backed(a, f)
        PROVE  Backed(s, f)
    <2>1. ASSUME NEW i \in 1 .. n, NEW j \in 1 .. n, Closest(s, f, i, j)
          PROVE  Closest(a, f, i, j)
      <3>1. j \in i .. Len(a) /\ \A k \in i .. j - 1 : k \in 1 .. n
        BY <1>1, <2>1 DEF Closest
      <3>. QED
        BY <1>1, <2>1, <3>1 DEF Closest
    <2>. QED
      BY <1>1, <1>2, <1>3, <2>1 DEF Backed
  <1>4. ASSUME NEW state, Found(a, f, n + 1, state), state # None, Backed(a, f)
        PROVE  Latest(s, f, state)
    <2>1. PICK j \in DOMAIN a : Closest(a, f, n + 1, j) /\ state = a[j].files[f]
      BY <1>4 DEF Found
    <2>2. ASSUME NEW i \in 1 .. n, Bare(s, f, i)
          PROVE  Closest(a, f, i, j)
      <3>1. /\ j \in n + 1 .. Len(a) /\ a[j].files[f] # None
            /\ \A k \in n + 1 .. j - 1 : a[k].files[f] = None
        BY <2>1 DEF Closest
      <3>2. j \in i .. Len(a)
        BY <1>1, <3>1
      <3>3. \A k \in i .. j - 1 : (k \in i .. n /\ k \in 1 .. n) \/ k \in n + 1 .. j - 1
        BY <1>1
      <3>4. \A k \in i .. n : s[k].files[f] = None
        BY <1>1, <2>2 DEF Bare
      <3>5. \A k \in i .. j - 1 : a[k].files[f] = None
        BY <1>1, <3>1, <3>3, <3>4
      <3>. QED
        BY <3>1, <3>2, <3>5 DEF Closest
    <2>. QED
      BY <1>1, <1>2, <1>4, <2>1, <2>2 DEF Backed, Latest
  <1>5. ASSUME NEW state, Bare(a, f, n + 1), Latest(a, f, state)
        PROVE  Latest(s, f, state)
    <2>1. ASSUME NEW i \in 1 .. n, Bare(s, f, i)
          PROVE  Bare(a, f, i)
      <3>1. \A k \in i .. Len(a) : (k \in i .. n /\ k \in 1 .. n) \/ k \in n + 1 .. Len(a)
        BY <1>1
      <3>2. \A k \in i .. n : s[k].files[f] = None
        BY <1>1, <2>1 DEF Bare
      <3>. QED
        BY <1>1, <1>5, <3>1, <3>2 DEF Bare
    <2>. QED
      BY <1>1, <1>2, <1>5, <2>1 DEF Latest
  <1>. QED
    BY <1>1, <1>3, <1>4, <1>5 DEF s

LEMMA ClosestIsFound ==
    ASSUME TypeOK, NEW keep \in Nat, NEW f \in Files
    PROVE  Found(log, f, keep + 1, ClosestAfter(keep)[f])
  <1>. DEFINE of == {i \in DOMAIN log : i > keep /\ log[i].files[f] # None}
              first == CHOOSE i \in of : \A j \in of : i <= j
  <1>1. ClosestAfter(keep)[f] = IF of = {} THEN None ELSE log[first].files[f]
    BY DEF ClosestAfter
  <1>2. DOMAIN log = 1 .. Len(log) /\ Len(log) \in Nat
    BY DEF TypeOK
  <1>3. CASE of = {}
    <2>1. \A i \in keep + 1 .. Len(log) : i \in DOMAIN log /\ i > keep
      BY <1>2
    <2>2. Bare(log, f, keep + 1)
      BY <1>3, <2>1 DEF Bare
    <2>. QED
      BY <1>1, <1>3, <2>2 DEF Found
  <1>4. CASE of # {}
    <2>1. PICK m \in of : \A j \in of : m <= j
      <3>1. of \in SUBSET Nat
        BY <1>2
      <3>. HIDE DEF of
      <3>. QED
        BY <1>4, <3>1, Least
    <2>2. first \in of /\ \A j \in of : first <= j
      BY <2>1
    <2>. HIDE DEF first
    <2>3. first \in 1 .. Len(log) /\ first \in keep + 1 .. Len(log) /\ log[first].files[f] # None
      BY <1>2, <2>2
    <2>4. ASSUME NEW k \in keep + 1 .. first - 1
          PROVE  log[k].files[f] = None
      <3>1. k \in DOMAIN log /\ k > keep /\ ~ (first <= k)
        BY <1>2, <2>3
      <3>. QED
        BY <2>2, <3>1
    <2>5. Closest(log, f, keep + 1, first)
      BY <2>3, <2>4 DEF Closest
    <2>. QED
      BY <1>1, <1>2, <1>4, <2>3, <2>5 DEF Found
  <1>. QED
    BY <1>3, <1>4

LEMMA SameFound ==
    ASSUME NEW a \in Seq(Event), NEW b, SameFiles(a, b), NEW f, NEW i \in Nat \ {0}, NEW state
    PROVE  Found(a, f, i, state) <=> Found(b, f, i, state)
  <1>1. /\ DOMAIN a = 1 .. Len(a) /\ DOMAIN b = 1 .. Len(a)
        /\ \A k \in 1 .. Len(a) : b[k].files = a[k].files
    BY DEF SameFiles
  <1>. QED
    BY <1>1, SameBare DEF Found

-----------------------------------------------------------------------------
(* What runs have open, and what an event then says.                         *)

LEMMA States ==
    ASSUME TypeOK, NEW f \in Files
    PROVE  ws[f] \in State /\ ws[f] \notin {None, Skipped, Unsure}
BY ContentsAssumption DEF TypeOK, State, Absent, None, Skipped, Unsure

LEMMA OpenIs ==
    ASSUME TypeOK, CallInv, NEW f \in Files
    PROVE  /\ \A x \in Execs : f \in Open(x) <=> f \in todo[x]
           /\ \A t \in Turns : f \in Open(t) <=> Keeps(t, f)
           /\ \A r \in Runs : Open(r) \subseteq OpenNow
  <1>1. \A t \in Turns : Keeps(t, f) <=> \E i \in DOMAIN batch[t] : batch[t][i].files[f] # None
    <2>1. \A t \in Turns : DOMAIN batch[t] = 1 .. Len(batch[t])
      BY DEF TypeOK
    <2>. QED
      BY <2>1 DEF Keeps, Bare
  <1>. QED
    BY <1>1, Actors DEF Open, OpenNow, CallInv

LEMMA BeforeIs ==
    ASSUME TypeOK, CallInv, NEW others, NEW f \in Files
    PROVE  /\ Before(others)[f] \in {Unsure, ws[f]}
           /\ \A x \in Execs \cap others : f \in todo[x] => Before(others)[f] = Unsure
           /\ \A t \in Turns \cap others : Keeps(t, f) => Before(others)[f] = Unsure
  <1>1. Before(others)[f] = IF \E r \in others : f \in Open(r) THEN Unsure ELSE ws[f]
    BY DEF Before
  <1>. QED
    BY <1>1, OpenIs

-----------------------------------------------------------------------------
(* A step that leaves a file and its events alone, but for fewer claims.     *)

LEMMA CalmKeeps ==
    ASSUME TypeOK, \A t \in Turns : SameFiles(batch[t], batch'[t]), NEW f
    PROVE  /\ \A t \in Turns : /\ Keeps(t, f)' <=> Keeps(t, f)
                               /\ Alone(t, f)' <=> Alone(t, f)
           /\ Free(f)' <=> Free(f)
  <1>1. \A t \in Turns : Keeps(t, f)' <=> Keeps(t, f)
    <2>1. ASSUME NEW t \in Turns
          PROVE  Bare(batch'[t], f, 1) <=> Bare(batch[t], f, 1)
      <3>1. batch[t] \in Seq(Event) /\ SameFiles(batch[t], batch'[t])
        BY DEF TypeOK
      <3>. QED
        BY <3>1, SameBare
    <2>. QED
      BY <2>1 DEF Keeps
  <1>. QED
    BY <1>1 DEF Alone, Free

\* A turn whose events lose claims has what it had to write.
LEMMA CalmBatch ==
    ASSUME TypeOK, NEW t \in Turns, NEW f \in Files, BatchFits(t, f),
           Fainter(batch[t], batch'[t]), Latest(batch'[t], f, ws'[f]),
           Alone(t, f)' => Alone(t, f),
           \A state : Latest(log, f, state) /\ ~ Bare(batch[t], f, 1) => Latest(log', f, state)
    PROVE  BatchFits(t, f)'
  <1>1. batch[t] \in Seq(Event) /\ SameFiles(batch[t], batch'[t])
    BY DEF TypeOK, Fainter
  <1>2. Backed(batch'[t], f)
    BY <1>1, FainterHolds DEF BatchFits
  <1>3. ASSUME Alone(t, f)', NEW j \in DOMAIN batch'[t], Closest(batch'[t], f, 1, j)
        PROVE  Latest(log', f, batch'[t][j].files[f])
    <2>0. \A k : Closest(batch[t], f, 1, k) <=> Closest(batch'[t], f, 1, k)
      <3>1. 1 \in Nat \ {0}
        OBVIOUS
      <3>. QED
        BY <1>1, <3>1, SameBare, Zenon
    <2>1. Closest(batch[t], f, 1, j)
      BY <1>3, <2>0
    <2>2. j \in DOMAIN batch[t] /\ batch'[t][j].files = batch[t][j].files
      BY <1>1, <1>3 DEF SameFiles
    <2>3. Latest(log, f, batch[t][j].files[f])
      BY <1>3, <2>1, <2>2 DEF BatchFits
    <2>4. ~ Bare(batch[t], f, 1)
      BY <2>1 DEF Closest, Bare
    <2>. QED
      BY <2>2, <2>3, <2>4
  <1>. QED
    BY <1>2, <1>3 DEF BatchFits

LEMMA Calm ==
    ASSUME TypeOK, ExactInv, NEW f \in Files, ws'[f] = ws[f], Fainter(log, log'),
           \A t \in Turns : Fainter(batch[t], batch'[t])
    PROVE  LogFits(f)' /\ \A t \in Turns : BatchFits(t, f)'
  <1>1. log \in Seq(Event) /\ \A t \in Turns : batch[t] \in Seq(Event)
    BY DEF TypeOK
  <1>2. \A t \in Turns : SameFiles(batch[t], batch'[t])
    BY DEF Fainter
  <1>3. LogFits(f)'
    <2>1. Backed(log, f) /\ (Free(f) => Latest(log, f, ws[f]))
      BY DEF ExactInv, LogFits
    <2>2. Backed(log', f) /\ (Free(f) => Latest(log', f, ws'[f]))
      BY <1>1, <2>1, FainterHolds
    <2>3. Free(f)' <=> Free(f)
      BY <1>2, CalmKeeps
    <2>. QED
      BY <2>2, <2>3 DEF LogFits
  <1>4. ASSUME NEW t \in Turns
        PROVE  BatchFits(t, f)'
    <2>1. BatchFits(t, f)
      BY DEF ExactInv
    <2>2. Alone(t, f)' <=> Alone(t, f)
      BY <1>2, CalmKeeps
    <2>3. Latest(batch'[t], f, ws'[f])
      BY <1>1, <2>1, FainterHolds DEF BatchFits
    <2>4. \A state : Latest(log, f, state) => Latest(log', f, state)
      BY <1>1, FainterHolds
    <2>. QED
      BY <2>1, <2>2, <2>3, <2>4, CalmBatch
  <1>. QED
    BY <1>3, <1>4

LEMMA CalmExec ==
    ASSUME TypeOK, NEW f \in Files, NEW x \in Execs, ExecFits(x, f),
           pc'[x] = pc[x], todo'[x] = todo[x], image'[x] = image[x],
           \A state : Latest(log, f, state) => Latest(log', f, state),
           Free(f)' => Free(f)
    PROVE  ExecFits(x, f)'
BY DEF ExecFits, Covered

LEMMA CalmGoal ==
    ASSUME TypeOK, NEW f \in Files, NEW r \in Rewinds, GoalFits(r, f), Fainter(log, log'),
           ws'[f] = ws[f], goal'[r][f] = goal[r][f], todo'[r] = todo[r],
           image'[r] = image[r], target'[r] = target[r], skipped'[r] = skipped[r]
    PROVE  GoalFits(r, f)'
  <1>1. log \in Seq(Event) /\ SameFiles(log, log') /\ target[r] + 1 \in Nat \ {0}
    BY DEF TypeOK, Fainter
  <1>2. Found(log', f, target[r] + 1, image[r][f])
    BY <1>1, SameFound DEF GoalFits
  <1>3. Blurred(log, f) => Blurred(log', f)
    BY <1>1, FainterHolds
  <1>. QED
    BY <1>2, <1>3 DEF GoalFits

\* An event that is no checkpoint of the file is appended.
LEMMA PlainEvent ==
    ASSUME TypeOK, ExactInv, NEW f \in Files, NEW others, Turns \subseteq others,
           NEW a \in Seq(Event), Fainter(log, a), NEW e \in Event, e.files[f] = None,
           e.before[f] \in {Unsure, Before(others)[f]},
           log' = a \o <<e>>, ws' = ws, batch' = batch
    PROVE  /\ LogFits(f)' /\ \A t \in Turns : BatchFits(t, f)'
           /\ \A x \in Execs \cap others : f \in todo[x] /\ Latest(log, f, Unsure)
                 => Latest(log', f, Unsure)
  <1>1. log \in Seq(Event) /\ \A t \in Turns : batch[t] \in Seq(Event)
    BY DEF TypeOK
  <1>2. /\ Before(others)[f] \in {Unsure, ws[f]}
        /\ \A x \in Execs \cap others : f \in todo[x] => Before(others)[f] = Unsure
        /\ \A t \in Turns : Keeps(t, f) => Before(others)[f] = Unsure
    BY BeforeIs DEF ExactInv
  <1>3. /\ Backed(log, f) => Backed(a, f)
        /\ \A state : Latest(log, f, state) => Latest(a, f, state)
    BY <1>1, FainterHolds
  <1>4. /\ Backed(a, f) => Backed(log', f)
        /\ \A state : Latest(a, f, state) /\ e.before[f] \in {Unsure, state}
              => Latest(log', f, state)
    BY OneMore
  <1>5. LogFits(f) /\ \A t \in Turns : BatchFits(t, f)
    BY DEF ExactInv
  <1>6. Free(f)' = Free(f)
    BY DEF Free, Keeps
  <1>7. LogFits(f)'
    <2>1. Backed(log', f)
      BY <1>3, <1>4, <1>5 DEF LogFits
    <2>2. Free(f) => Latest(log', f, ws[f])
      BY <1>2, <1>3, <1>4, <1>5 DEF LogFits
    <2>. QED
      BY <1>6, <2>1, <2>2 DEF LogFits
  <1>8. ASSUME NEW t \in Turns
        PROVE  BatchFits(t, f)'
    <2>1. Fainter(batch[t], batch'[t]) /\ Latest(batch'[t], f, ws'[f])
      BY <1>1, <1>5, SameIsFainter DEF BatchFits
    <2>2. Alone(t, f)' => Alone(t, f)
      BY DEF Alone, Keeps
    <2>3. \A state : Latest(log, f, state) /\ ~ Bare(batch[t], f, 1) => Latest(log', f, state)
      BY <1>2, <1>3, <1>4 DEF Keeps
    <2>. QED
      BY <1>5, <2>1, <2>2, <2>3, CalmBatch
  <1>9. ASSUME NEW x \in Execs \cap others, f \in todo[x], Latest(log, f, Unsure)
        PROVE  Latest(log', f, Unsure)
    BY <1>2, <1>3, <1>4, <1>9
  <1>. QED
    BY <1>7, <1>8, <1>9

\* The same, of a file no run but the others has open.
LEMMA PlainRecord ==
    ASSUME TypeOK, ExactInv, NEW others, Turns \subseteq others,
           Append1(NewEvent(others, Nothing)), ws' = ws, batch' = batch, NEW f \in Files
    PROVE  /\ LogFits(f)' /\ \A t \in Turns : BatchFits(t, f)'
           /\ \A x \in Execs \cap others : f \in todo[x] /\ Latest(log, f, Unsure)
                 => Latest(log', f, Unsure)
  <1>. DEFINE e == NewEvent(others, Nothing)
  <1>1. e \in Event /\ e.files = Nothing /\ e.before = Before(others)
    BY NothingReferred, NewEventType DEF NewEvent
  <1>2. log \in Seq(Event) /\ log' = Append(log, e)
    BY DEF TypeOK, Append1
  <1>. HIDE DEF e
  <1>3. log' = log \o <<e>>
    BY <1>1, <1>2
  <1>4. e.files[f] = None /\ e.before[f] \in {Unsure, Before(others)[f]}
    BY <1>1 DEF Nothing
  <1>. QED
    BY <1>1, <1>2, <1>3, <1>4, SameIsFainter, PlainEvent

-----------------------------------------------------------------------------
(* Steps of exec runs.                                                       *)

\* Nobody restores while a run has the lock or nobody has it.
LEMMA NobodyRestores ==
    ASSUME RewindInv, holder \notin Rewinds
    PROVE  \A r \in Rewinds : pc[r] # "restore"
BY DEF RewindInv, LockInv

LEMMA NobodyCaptures ==
    ASSUME RewindInv, holder \notin Execs
    PROVE  \A x \in Execs : pc[x] # "captured"
BY DEF RewindInv, LockInv

\* The exec runs stay, or are idle, or have none of what they have checkpointed
\* to change.
LEMMA QuietExec ==
    ASSUME RewindInv, ExactInv, UNCHANGED <<ws, log, batch>>, NEW f \in Files
    PROVE  /\ LogFits(f)' /\ \A t \in Turns : BatchFits(t, f)'
           /\ \A x \in Execs : pc'[x] = pc[x] /\ todo'[x] = todo[x] /\ image'[x] = image[x]
                 => ExecFits(x, f)'
           /\ \A r \in Rewinds :
                 /\ pc[r] = "restore" /\ goal'[r] = goal[r] /\ todo'[r] = todo[r]
                 /\ image'[r] = image[r] /\ target'[r] = target[r] /\ skipped'[r] = skipped[r]
                 => GoalFits(r, f)'
  <1>1. log \in Seq(Event) /\ \A t \in Turns : batch[t] \in Seq(Event)
    BY DEF RewindInv, TypeOK
  <1>2. Fainter(log, log') /\ \A t \in Turns : Fainter(batch[t], batch'[t])
    BY <1>1, SameIsFainter
  <1>3. LogFits(f)' /\ \A t \in Turns : BatchFits(t, f)'
    BY <1>2, Calm DEF RewindInv
  <1>4. Free(f)' => Free(f)
    BY DEF Free, Keeps
  <1>5. ASSUME NEW x \in Execs, pc'[x] = pc[x], todo'[x] = todo[x], image'[x] = image[x]
        PROVE  ExecFits(x, f)'
    <2>1. ExecFits(x, f)
      BY DEF ExactInv
    <2>. QED
      BY <1>4, <1>5, <2>1, CalmExec DEF RewindInv
  <1>6. ASSUME NEW r \in Rewinds, pc[r] = "restore", goal'[r] = goal[r], todo'[r] = todo[r],
               image'[r] = image[r], target'[r] = target[r], skipped'[r] = skipped[r]
        PROVE  GoalFits(r, f)'
    <2>1. GoalFits(r, f)
      BY <1>6 DEF ExactInv
    <2>. QED
      BY <1>2, <1>6, <2>1, CalmGoal DEF RewindInv
  <1>. QED
    BY <1>3, <1>5, <1>6

\* What a snapshot has of a file.
LEMMA SnapshotIs ==
    ASSUME TypeOK, NEW r \in Runs, Snapshot(r)
    PROVE  /\ \A f \in Files : /\ image'[r][f] \in {None, Skipped, ws[f]}
                               /\ f \in todo'[r] <=> image'[r][f] # None
           /\ todo'[r] = Captured(image'[r])
           /\ \A a \in (Runs \cup Rewinds) \ {r} : image'[a] = image[a] /\ todo'[a] = todo[a]
  <1>0. PICK files \in SUBSET Files \ {{}} : \E lost \in SUBSET files :
            /\ image' = [image EXCEPT ![r] = [f \in Files |->
                            IF f \in lost THEN Skipped ELSE IF f \in files THEN ws[f] ELSE None]]
            /\ blobs' = blobs \cup BlobsOf(image'[r])
            /\ todo' = [todo EXCEPT ![r] = files]
    BY DEF Snapshot
  <1>1. PICK lost \in SUBSET files :
            /\ image' = [image EXCEPT ![r] = [f \in Files |->
                            IF f \in lost THEN Skipped ELSE IF f \in files THEN ws[f] ELSE None]]
            /\ blobs' = blobs \cup BlobsOf(image'[r])
            /\ todo' = [todo EXCEPT ![r] = files]
    BY <1>0
  <1>2. \A f \in Files :
            image'[r][f] = IF f \in lost THEN Skipped ELSE IF f \in files THEN ws[f] ELSE None
    BY <1>1 DEF TypeOK
  <1>3. todo'[r] = files
    BY <1>1 DEF TypeOK
  <1>4. \A f \in Files : f \in todo'[r] <=> image'[r][f] # None
    BY <1>2, <1>3, States DEF Skipped, None
  <1>5. \A a \in (Runs \cup Rewinds) \ {r} : image'[a] = image[a] /\ todo'[a] = todo[a]
    BY <1>1 DEF TypeOK
  <1>6. todo'[r] = Captured(image'[r])
    BY <1>3, <1>4 DEF Captured
  <1>. QED
    BY <1>2, <1>4, <1>5, <1>6

\* The other runs and the rewinds stay as they are.
OthersIdle(r) ==
    \A a \in (Runs \cup Rewinds) \ {r} :
        pc'[a] = pc[a] /\ todo'[a] = todo[a] /\ image'[a] = image[a]

LEMMA CallStep ==
    ASSUME TypeOK, CallInv, batch' = batch, NEW x \in Execs, OthersIdle(x),
           pc'[x] \notin {"captured", "mutate"} => todo'[x] = {},
           pc'[x] = "captured" => todo'[x] = Captured(image'[x])
    PROVE  CallInv'
  <1>1. \A a \in Runs \ {x} : pc'[a] = pc[a] /\ todo'[a] = todo[a] /\ image'[a] = image[a]
    BY DEF OthersIdle
  <1>2. \A t \in Turns : t \in Runs \ {x}
    BY Actors
  <1>3. \A t \in Turns : \A f : Keeps(t, f)' <=> Keeps(t, f)
    BY DEF Keeps
  <1>. QED
    BY <1>1, <1>2, <1>3, Actors DEF CallInv

LEMMA ExecExact ==
    ASSUME RewindInv, ExactInv, NEW x \in Execs, ExecStep(x)
    PROVE  ExactInv'
  <1>. x \in Runs /\ x \in Runs \cup Rewinds /\ x \notin Turns /\ x \notin Rewinds
    BY Actors
  <1>. TypeOK /\ CallInv
    BY DEF RewindInv, ExactInv
  <1>0. /\ \A y \in Execs \ {x} : y \in (Runs \cup Rewinds) \ {x}
        /\ \A r \in Rewinds : r \in (Runs \cup Rewinds) \ {x}
    BY Actors
  <1>1. CASE ExecCall(x)
    <2>1. /\ pc' = [pc EXCEPT ![x] = "capture"] /\ pc[x] = "idle" /\ holder = NoOne
          /\ UNCHANGED <<ws, todo, image, batch>>
      BY <1>1 DEF ExecCall, Goto, run
    <2>2. OthersIdle(x) /\ pc'[x] = "capture" /\ todo'[x] = {}
      BY <2>1 DEF OthersIdle, TypeOK, CallInv
    <2>3. CallInv'
      BY <2>1, <2>2, CallStep
    <2>4. /\ \A r \in Rewinds : pc'[r] # "restore"
          /\ \A y \in Execs : pc'[y] # "captured"
      BY <1>0, <2>1, <2>2, Actors, NobodyRestores, NobodyCaptures DEF OthersIdle
    <2>5. Append1(NewEvent(Runs \ {x}, Nothing)) /\ Turns \subseteq Runs \ {x}
      BY <1>1, Actors DEF ExecCall
    <2>6. ASSUME NEW f \in Files
          PROVE  /\ LogFits(f)' /\ \A t \in Turns : BatchFits(t, f)'
                 /\ \A y \in Execs : ExecFits(y, f)'
      <3>1. /\ LogFits(f)' /\ \A t \in Turns : BatchFits(t, f)'
            /\ \A y \in Execs \cap (Runs \ {x}) : f \in todo[y] /\ Latest(log, f, Unsure)
                  => Latest(log', f, Unsure)
        BY <2>1, <2>5, PlainRecord
      <3>2. ASSUME NEW y \in Execs
            PROVE  ExecFits(y, f)'
        <4>1. ExecFits(y, f)
          BY DEF ExactInv
        <4>2. Covered(y, f)' => Covered(y, f) /\ f \in todo[y] /\ y # x
          BY <1>0, <2>1, <2>2 DEF Covered, OthersIdle
        <4>. QED
          BY <2>4, <3>1, <4>1, <4>2, Actors DEF ExecFits
      <3>. QED
        BY <3>1, <3>2
    <2>. QED
      BY <2>3, <2>4, <2>6 DEF ExactInv
  <1>2. CASE Capture(x)
    <2>1. /\ Snapshot(x) /\ pc' = [pc EXCEPT ![x] = "captured"]
          /\ UNCHANGED <<ws, log, batch, target, skipped, goal>>
      BY <1>2 DEF Capture, Goto, run, rewind
    <2>2. OthersIdle(x) /\ todo'[x] = Captured(image'[x]) /\ pc'[x] = "captured"
      BY <2>1, SnapshotIs DEF OthersIdle, TypeOK
    <2>3. CallInv'
      BY <2>1, <2>2, CallStep
    <2>4. ASSUME NEW f \in Files
          PROVE  ExecFits(x, f)'
      <3>1. image'[x][f] \in {None, Skipped, ws[f]}
        BY <2>1, SnapshotIs
      <3>2. Free(f)' => Free(f)
        BY <2>1 DEF Free, Keeps
      <3>3. Free(f) => Latest(log, f, ws[f])
        BY DEF ExactInv, LogFits
      <3>4. Latest(log, f, Skipped)
        BY DEF Latest
      <3>. QED
        BY <2>1, <2>2, <3>1, <3>2, <3>3, <3>4 DEF ExecFits, Covered
    <2>5. \A f \in Files : LogFits(f)' /\ \A t \in Turns : BatchFits(t, f)'
      BY <2>1, QuietExec
    <2>6. \A f \in Files : \A y \in Execs : ExecFits(y, f)'
      BY <1>0, <2>1, <2>2, <2>4, QuietExec DEF OthersIdle
    <2>7. \A r \in Rewinds : pc'[r] = "restore" => \A f \in Files : GoalFits(r, f)'
      BY <1>0, <2>1, <2>2, QuietExec DEF OthersIdle
    <2>. QED
      BY <2>3, <2>5, <2>6, <2>7 DEF ExactInv
  <1>4. CASE CaptureFails(x) \/ KillExec(x)
    <2>1. /\ pc' = [pc EXCEPT ![x] = pc'[x]] /\ image' = [image EXCEPT ![x] = Nothing]
          /\ todo' = [todo EXCEPT ![x] = todo'[x]]
          /\ pc'[x] = "mutate" \/ (pc'[x] = "idle" /\ todo'[x] = {})
          /\ UNCHANGED <<ws, log, batch, target, skipped, goal>>
      BY <1>4 DEF CaptureFails, KillExec, Goto, run, rewind, TypeOK
    <2>2. OthersIdle(x) /\ \A f \in Files : image'[x][f] = None
      BY <2>1 DEF OthersIdle, Nothing, TypeOK
    <2>3. CallInv'
      BY <2>1, <2>2, CallStep
    <2>4. ASSUME NEW f \in Files
          PROVE  ExecFits(x, f)'
      BY <2>1, <2>2 DEF ExecFits, Covered
    <2>5. \A f \in Files : LogFits(f)' /\ \A t \in Turns : BatchFits(t, f)'
      BY <2>1, QuietExec
    <2>6. \A f \in Files : \A y \in Execs : ExecFits(y, f)'
      BY <1>0, <2>1, <2>2, <2>4, QuietExec DEF OthersIdle
    <2>7. \A r \in Rewinds : pc'[r] = "restore" => \A f \in Files : GoalFits(r, f)'
      BY <1>0, <2>1, <2>2, QuietExec DEF OthersIdle
    <2>. QED
      BY <2>3, <2>5, <2>6, <2>7 DEF ExactInv
  <1>3. CASE Record(x)
    <2>1. /\ pc[x] = "captured" /\ pc' = [pc EXCEPT ![x] = "mutate"]
          /\ UNCHANGED <<ws, todo, image, batch>>
      BY <1>3 DEF Record, Goto, run
    <2>2. OthersIdle(x) /\ pc'[x] = "mutate" /\ holder = x
      BY <2>1 DEF OthersIdle, TypeOK, RewindInv, LockInv
    <2>3. CallInv'
      BY <2>1, <2>2, CallStep
    <2>4. /\ \A r \in Rewinds : pc'[r] # "restore"
          /\ \A y \in Execs : pc'[y] # "captured"
      <3>1. \A y \in Execs \ {x} : pc[y] # "captured"
        BY <2>2 DEF RewindInv, LockInv
      <3>. QED
        BY <1>0, <2>2, <3>1, NobodyRestores DEF OthersIdle
    <2>5. /\ todo[x] = Captured(image[x]) /\ image[x] \in Image
          /\ Turns \subseteq Runs \ {x}
      BY <2>1, Actors DEF CallInv, TypeOK
    <2>. DEFINE e == NewEvent(Runs \ {x}, image[x])
                late == {f \in Files : image[x][f] \notin {None, Skipped, ws[f]}}
                a == Blur(log, Overtaking(x))
                b == Blur(<<e>>, late)
    <2>6. log' = a \o b
      BY <1>3 DEF Record
    <2>7. e \in Event /\ e.files = image[x] /\ e.before = Before(Runs \ {x})
      BY <2>5, NewEventType DEF NewEvent
    <2>. HIDE DEF e
    <2>8. <<e>> \in Seq(Event) /\ Len(<<e>>) = 1 /\ <<e>>[1] = e
      BY <2>7
    <2>9. /\ b = <<b[1]>> /\ b[1] \in Event /\ b[1].files = image[x]
          /\ \A f \in Files : /\ b[1].before[f] \in {Unsure, Before(Runs \ {x})[f]}
                              /\ f \in late => b[1].before[f] = Unsure
      <3>1. Fainter(<<e>>, b) /\ \A f \in Files \cap late : Blurred(b, f)
        BY <2>8, BlurIs
      <3>. HIDE DEF b
      <3>2. b \in Seq(Event) /\ Len(b) = 1 /\ b[1].files = e.files
            /\ \A f \in Files : b[1].before[f] \in {Unsure, e.before[f]}
        BY <2>8, <3>1 DEF Fainter, SameFiles
      <3>3. b = <<b[1]>> /\ b[1] \in Event /\ 1 \in DOMAIN b
        BY <3>2
      <3>4. \A f \in Files : f \in late => b[1].before[f] = Unsure
        BY <3>1, <3>3 DEF Blurred
      <3>. QED
        BY <2>7, <3>2, <3>3, <3>4
    <2>10. a \in Seq(Event) /\ Fainter(log, a)
           /\ \A f \in Files \cap Overtaking(x) : Blurred(a, f)
      BY BlurIs DEF TypeOK, Fainter, SameFiles
    <2>. HIDE DEF a, b, late
    <2>11. ASSUME NEW f \in Files
           PROVE  /\ LogFits(f)' /\ \A t \in Turns : BatchFits(t, f)'
                  /\ \A y \in Execs : ExecFits(y, f)'
      <3>1. CASE image[x][f] = None
        <4>1. /\ LogFits(f)' /\ \A t \in Turns : BatchFits(t, f)'
              /\ \A y \in Execs \cap (Runs \ {x}) : f \in todo[y] /\ Latest(log, f, Unsure)
                    => Latest(log', f, Unsure)
          <5>1. b[1] \in Event /\ b[1].files[f] = None
                /\ b[1].before[f] \in {Unsure, Before(Runs \ {x})[f]} /\ log' = a \o <<b[1]>>
            BY <2>6, <2>9, <3>1
          <5>. QED
            BY <2>1, <2>5, <2>10, <5>1, PlainEvent
        <4>2. ASSUME NEW y \in Execs
              PROVE  ExecFits(y, f)'
          <5>1. ExecFits(y, f)
            BY DEF ExactInv
          <5>2. Covered(y, f)' => Covered(y, f) /\ f \in todo[y] /\ y # x
            BY <1>0, <2>1, <2>2, <3>1 DEF Covered, OthersIdle
          <5>. QED
            BY <2>4, <4>1, <5>1, <5>2, Actors DEF ExecFits
        <4>. QED
          BY <4>1, <4>2
      <3>2. CASE image[x][f] # None
        <4>1. f \in todo[x] /\ f \in Open(x)
          BY <2>5, <3>2, OpenIs DEF Captured
        <4>2. Latest(a, f, image[x][f])
          <5>1. CASE Free(f)
            <6>1. Latest(log, f, image[x][f])
              BY <2>1, <3>2, <5>1 DEF ExactInv, ExecFits
            <6>. QED
              BY <2>10, <6>1, FainterHolds DEF TypeOK
          <5>2. CASE ~ Free(f)
            <6>1. PICK t \in Turns : Keeps(t, f)
              BY <5>2 DEF Free
            <6>2. f \in Open(t) /\ t # x
              BY <6>1, OpenIs
            <6>3. f \in Overtaking(x)
              BY <4>1, <6>2 DEF Overtaking
            <6>. QED
              BY <2>10, <6>3, BlurredHolds
          <5>. QED
            BY <5>1, <5>2
        <4>3. /\ Backed(log, f) /\ \A t \in Turns : BatchFits(t, f)
          BY DEF ExactInv, LogFits
        <4>4. Backed(a, f)
          BY <2>10, <4>3, FainterHolds DEF TypeOK
        <4>5. image[x][f] = Skipped \/ b[1].before[f] \in {Unsure, image[x][f]}
          <5>1. Before(Runs \ {x})[f] \in {Unsure, ws[f]}
            BY BeforeIs
          <5>2. f \in late \/ image[x][f] \in {Skipped, ws[f]}
            BY <3>2 DEF late
          <5>. QED
            BY <2>9, <5>1, <5>2
        <4>6. Backed(log', f) /\ \A state : Latest(log', f, state)
          <5>1. log' = a \o <<b[1]>> /\ b[1] \in Event /\ b[1].files[f] = image[x][f]
            BY <2>6, <2>9
          <5>. QED
            BY <2>10, <3>2, <4>2, <4>4, <4>5, <5>1, OneMore
        <4>7. LogFits(f)' /\ \A y \in Execs : ExecFits(y, f)'
          BY <4>6 DEF LogFits, ExecFits
        <4>8. \A t \in Turns : BatchFits(t, f)'
          BY <2>1, <4>3, <4>6 DEF BatchFits
        <4>. QED
          BY <4>7, <4>8
      <3>. QED
        BY <3>1, <3>2
    <2>. QED
      BY <2>3, <2>4, <2>11 DEF ExactInv
  <1>. QED
    BY <1>1, <1>2, <1>3, <1>4 DEF ExecStep

-----------------------------------------------------------------------------
(* Steps of turns.                                                           *)

LEMMA TwoMore ==
    ASSUME NEW s \in Seq(Event), NEW e \in Event, NEW g \in Event
    PROVE  s \o <<e, g>> = (s \o <<e>>) \o <<g>>
  <1>. DEFINE a == s \o <<e, g>>  b == s \o <<e>>  c == b \o <<g>>
  <1>1. /\ a \in Seq(Event) /\ b \in Seq(Event)
        /\ Len(a) = Len(s) + 2 /\ Len(b) = Len(s) + 1 /\ Len(s) \in Nat
        /\ a[Len(s) + 1] = e /\ a[Len(s) + 2] = g
        /\ \A i \in 1 .. Len(s) : a[i] = s[i] /\ b[i] = s[i]
        /\ b[Len(s) + 1] = e
    OBVIOUS
  <1>. HIDE DEF a, b
  <1>2. /\ c \in Seq(Event) /\ Len(c) = Len(b) + 1 /\ c[Len(b) + 1] = g
        /\ \A i \in 1 .. Len(b) : c[i] = b[i]
    BY <1>1
  <1>. HIDE DEF c
  <1>3. Len(c) = Len(a) /\ \A i \in 1 .. Len(a) : c[i] = a[i]
    BY <1>1, <1>2
  <1>4. c = a
    BY <1>1, <1>2, <1>3
  <1>. QED
    BY <1>4 DEF a, b, c

\* The turn has a call more to write, and a checkpoint of some files.
LEMMA CallFits ==
    ASSUME TypeOK, ExactInv, NEW t \in Turns, TurnCall(t), NEW f \in Files
    PROVE  /\ BatchFits(t, f)'
           /\ Keeps(t, f)' <=> Keeps(t, f) \/ image'[t][f] # None
  <1>. DEFINE e == NewEvent(Runs \ {t}, Nothing)
              g == NewEvent(Runs \ {t}, image'[t])
              s == batch[t] \o <<e>>
  <1>1. Snapshot(t) /\ UNCHANGED <<ws, log>> /\ t \in Runs
    BY Actors DEF TurnCall
  <1>2. image'[t] \in Image /\ image'[t][f] \in {None, Skipped, ws[f]}
    BY <1>1, SnapshotTypes, SnapshotIs
  <1>3. /\ e \in Event /\ e.files = Nothing /\ e.before = Before(Runs \ {t})
        /\ g \in Event /\ g.files = image'[t] /\ g.before = Before(Runs \ {t})
    BY <1>2, NothingReferred, NewEventType DEF NewEvent
  <1>4. batch[t] \in Seq(Event) /\ batch'[t] = batch[t] \o <<e, g>>
    BY DEF TurnCall, TypeOK
  <1>. HIDE DEF e, g
  <1>5. s \in Seq(Event) /\ batch'[t] = s \o <<g>>
    BY <1>3, <1>4, TwoMore, OneMore
  <1>6. e.files[f] = None /\ {e.before[f], g.before[f]} \subseteq {Unsure, ws[f]}
    BY <1>3, BeforeIs DEF Nothing, ExactInv
  <1>7. BatchFits(t, f) /\ LogFits(f)
    BY DEF ExactInv
  <1>8. /\ Backed(s, f) /\ Latest(s, f, ws[f])
        /\ Bare(s, f, 1) <=> Bare(batch[t], f, 1)
    BY <1>3, <1>4, <1>6, <1>7, OneMore DEF BatchFits
  <1>. HIDE DEF s
  <1>9. Keeps(t, f)' <=> Keeps(t, f) \/ image'[t][f] # None
    BY <1>3, <1>5, <1>8, OneMore DEF Keeps
  <1>10. Backed(batch'[t], f) /\ Latest(batch'[t], f, ws[f])
    <2>1. CASE image'[t][f] = None
      BY <1>3, <1>5, <1>6, <1>8, <2>1, OneMore
    <2>2. CASE image'[t][f] # None
      <3>1. Latest(s, f, g.files[f])
        <4>1. CASE image'[t][f] = ws[f]
          BY <1>3, <1>8, <4>1
        <4>2. CASE image'[t][f] = Skipped
          BY <1>3, <4>2 DEF Latest
        <4>. QED
          BY <1>2, <2>2, <4>1, <4>2
      <3>2. g.files[f] = Skipped \/ g.before[f] \in {Unsure, g.files[f]}
        BY <1>2, <1>3, <1>6, <2>2
      <3>. QED
        BY <1>3, <1>5, <1>8, <2>2, <3>1, <3>2, OneMore
    <2>. QED
      BY <2>1, <2>2
  <1>11. ASSUME Alone(t, f), NEW j \in DOMAIN batch'[t], Closest(batch'[t], f, 1, j)
         PROVE  Latest(log, f, batch'[t][j].files[f])
    <2>1. \/ j \in DOMAIN s /\ Closest(s, f, 1, j) /\ batch'[t][j] = s[j]
          \/ Bare(s, f, 1) /\ g.files[f] # None /\ batch'[t][j] = g
      <3>1. j \in DOMAIN (s \o <<g>>) /\ Closest(s \o <<g>>, f, 1, j)
        BY <1>5, <1>11
      <3>2. \/ j \in DOMAIN s /\ Closest(s, f, 1, j) /\ (s \o <<g>>)[j] = s[j]
            \/ Bare(s, f, 1) /\ g.files[f] # None /\ (s \o <<g>>)[j] = g
        BY <1>3, <1>5, <3>1, OneMore
      <3>. QED
        BY <1>5, <3>2
    <2>2. CASE j \in DOMAIN s /\ Closest(s, f, 1, j) /\ batch'[t][j] = s[j]
      <3>1. j \in DOMAIN batch[t] /\ Closest(batch[t], f, 1, j) /\ s[j] = batch[t][j]
        BY <1>3, <1>4, <1>6, <2>2, OneMore DEF s
      <3>. QED
        BY <1>7, <1>11, <2>2, <3>1 DEF BatchFits
    <2>3. CASE Bare(s, f, 1) /\ g.files[f] # None /\ batch'[t][j] = g
      <3>1. Free(f)
        BY <1>8, <1>11, <2>3 DEF Alone, Free, Keeps
      <3>2. Latest(log, f, ws[f])
        BY <1>7, <3>1 DEF LogFits
      <3>. QED
        BY <1>2, <1>3, <2>3, <3>2 DEF Latest
    <2>. QED
      BY <2>1, <2>2, <2>3
  <1>12. Alone(t, f)' => Alone(t, f)
    <2>1. \A u \in Turns \ {t} : batch'[u] = batch[u]
      BY DEF TurnCall, TypeOK
    <2>. QED
      BY <2>1 DEF Alone, Keeps
  <1>13. BatchFits(t, f)'
    BY <1>1, <1>10, <1>11, <1>12 DEF BatchFits
  <1>. QED
    BY <1>9, <1>13

LEMMA TurnCallExact ==
    ASSUME RewindInv, ExactInv, NEW t \in Turns, TurnCall(t)
    PROVE  ExactInv'
  <1>1. /\ t \in Runs /\ t \in Runs \cup Rewinds /\ t \notin Execs /\ t \notin Rewinds
        /\ \A a \in Execs \cup Rewinds : a \in (Runs \cup Rewinds) \ {t}
    BY Actors
  <1>2. TypeOK /\ CallInv
    BY DEF RewindInv, ExactInv
  <1>3. /\ Snapshot(t) /\ pc' = [pc EXCEPT ![t] = "mutate"]
        /\ UNCHANGED <<ws, log, target, skipped, goal>>
    BY DEF TurnCall, Goto, rewind
  <1>4. OthersIdle(t) /\ pc'[t] = "mutate"
    BY <1>1, <1>2, <1>3, SnapshotIs DEF OthersIdle, TypeOK
  <1>5. \A u \in Turns \ {t} : batch'[u] = batch[u]
    BY <1>2 DEF TurnCall, TypeOK
  <1>6. \A f \in Files : /\ BatchFits(t, f)'
                         /\ Keeps(t, f)' <=> Keeps(t, f) \/ image'[t][f] # None
    BY <1>2, CallFits
  <1>7. \A f \in Files : \A u \in Turns : Keeps(u, f) => Keeps(u, f)'
    BY <1>5, <1>6 DEF Keeps
  <1>8. CallInv'
    <2>1. ASSUME NEW u \in Turns, NEW f \in todo'[u]
          PROVE  Keeps(u, f)'
      <3>1. CASE u = t
        BY <1>1, <1>2, <1>3, <1>6, <2>1, <3>1, SnapshotIs DEF Captured
      <3>2. CASE u # t
        <4>1. u \in Runs /\ f \in todo[u] /\ todo[u] \subseteq Files
          BY <1>2, <1>4, <2>1, <3>2, Actors DEF OthersIdle, TypeOK
        <4>. QED
          BY <1>2, <1>7, <4>1 DEF CallInv
      <3>. QED
        BY <3>1, <3>2
    <2>. QED
      BY <1>1, <1>2, <1>4, <2>1 DEF CallInv, OthersIdle
  <1>9. ASSUME NEW f \in Files
        PROVE  LogFits(f)'
    BY <1>3, <1>7 DEF ExactInv, LogFits, Free
  <1>10. ASSUME NEW f \in Files, NEW u \in Turns
         PROVE  BatchFits(u, f)'
    <2>1. CASE u # t
      <3>1. Alone(u, f)' => Alone(u, f)
        BY <1>7 DEF Alone
      <3>2. BatchFits(u, f) /\ batch'[u] = batch[u]
        BY <1>5, <2>1 DEF ExactInv
      <3>. QED
        BY <1>3, <3>1, <3>2 DEF BatchFits
    <2>. QED
      BY <1>6, <2>1
  <1>11. ASSUME NEW f \in Files, NEW x \in Execs
         PROVE  ExecFits(x, f)'
    <2>1. Free(f)' => Free(f)
      BY <1>7 DEF Free
    <2>2. ExecFits(x, f)
      BY DEF ExactInv
    <2>. QED
      BY <1>1, <1>2, <1>3, <1>4, <2>1, <2>2, CalmExec DEF OthersIdle
  <1>12. ASSUME NEW r \in Rewinds, pc'[r] = "restore", NEW f \in Files
         PROVE  GoalFits(r, f)'
    <2>1. pc[r] = "restore" /\ todo'[r] = todo[r] /\ image'[r] = image[r]
      BY <1>1, <1>4, <1>12 DEF OthersIdle
    <2>2. GoalFits(r, f) /\ Fainter(log, log')
      BY <1>2, <1>3, <2>1, SameIsFainter DEF ExactInv, TypeOK
    <2>. QED
      BY <1>2, <1>3, <2>1, <2>2, CalmGoal
  <1>. QED
    BY <1>8, <1>9, <1>10, <1>11, <1>12 DEF ExactInv

LEMMA CancelExact ==
    ASSUME RewindInv, ExactInv, NEW t \in Turns, Cancel(t)
    PROVE  ExactInv'
  <1>1. TypeOK /\ CallInv
    BY DEF RewindInv, ExactInv
  <1>2. /\ Append1(NewEvent(Runs, Nothing)) /\ holder = NoOne
        /\ UNCHANGED <<ws, pc, todo, image, batch>>
    BY DEF Cancel
  <1>3. \A f \in Files :
            /\ LogFits(f)' /\ \A u \in Turns : BatchFits(u, f)'
            /\ \A x \in Execs : f \in todo[x] /\ Latest(log, f, Unsure) => Latest(log', f, Unsure)
    BY <1>1, <1>2, PlainRecord, Actors
  <1>4. /\ \A r \in Rewinds : pc'[r] # "restore"
        /\ \A x \in Execs : pc'[x] # "captured"
    BY <1>2, Actors, NobodyRestores, NobodyCaptures
  <1>5. ASSUME NEW f \in Files, NEW x \in Execs
        PROVE  ExecFits(x, f)'
    <2>1. ExecFits(x, f)
      BY DEF ExactInv
    <2>. QED
      BY <1>2, <1>3, <1>4, <2>1 DEF ExecFits, Covered
  <1>6. CallInv'
    BY <1>1, <1>2 DEF CallInv, Keeps
  <1>. QED
    BY <1>3, <1>4, <1>5, <1>6 DEF ExactInv

\* The events of a turn take their place.
LEMMA PlacedIs ==
    ASSUME TypeOK, NEW t \in Turns, NEW f \in Files
    PROVE  /\ Placed(t) \in Seq(Event)
           /\ Bare(Placed(t), f, 1) <=> Bare(batch[t], f, 1)
           /\ Backed(batch[t], f) => Backed(Placed(t), f)
           /\ \A state : Before(Runs \ {t})[f] \in {Unsure, state} => Latest(Placed(t), f, state)
           /\ \A j : /\ j \in DOMAIN Placed(t) <=> j \in DOMAIN batch[t]
                     /\ Closest(Placed(t), f, 1, j) <=> Closest(batch[t], f, 1, j)
                     /\ j \in DOMAIN batch[t] => Placed(t)[j].files = batch[t][j].files
  <1>. DEFINE s == batch[t]  p == Placed(t)  now == Before(Runs \ {t})
  <1>1. /\ s \in Seq(Event) /\ Len(s) \in Nat /\ DOMAIN s = 1 .. Len(s)
        /\ \A i \in 1 .. Len(s) : s[i] \in Event
    BY DEF TypeOK
  <1>2. SameFiles(s, p)
    BY PlacedSame
  <1>3. ASSUME NEW i \in 1 .. Len(s)
        PROVE  p[i].before[f] = IF Bare(s, f, i) THEN now[f] ELSE s[i].before[f]
    <2>. DEFINE at == [g \in Files |->
                          IF \E j \in i .. Len(s) : s[j].files[g] # None
                          THEN s[i].before[g] ELSE now[g]]
    <2>1. p[i] = [s[i] EXCEPT !.before = at]
      BY <1>1 DEF Placed
    <2>2. at[f] = IF Bare(s, f, i) THEN now[f] ELSE s[i].before[f]
      BY DEF Bare
    <2>. HIDE DEF at
    <2>. QED
      BY <1>1, <2>1, <2>2 DEF Event
  <1>. HIDE DEF s, p, now
  <1>4. /\ DOMAIN p = 1 .. Len(s) /\ p \in Seq(Event)
        /\ \A i \in 1 .. Len(s) : p[i].files = s[i].files /\ i \in Nat \ {0}
        /\ 1 \in Nat \ {0}
    BY <1>1, <1>2 DEF SameFiles
  <1>5. \A i \in Nat \ {0} : /\ Bare(s, f, i) <=> Bare(p, f, i)
                             /\ \A j : Closest(s, f, i, j) <=> Closest(p, f, i, j)
    BY <1>1, <1>2, SameBare
  <1>6. ASSUME Backed(s, f)
        PROVE  Backed(p, f)
    <2>1. ASSUME NEW i \in 1 .. Len(s), NEW j \in 1 .. Len(s), Closest(p, f, i, j)
          PROVE  p[j].files[f] = Skipped \/ p[i].before[f] \in {Unsure, p[j].files[f]}
      <3>1. Closest(s, f, i, j)
        BY <1>4, <1>5, <2>1
      <3>2. ~ Bare(s, f, i)
        BY <3>1 DEF Closest, Bare
      <3>3. s[j].files[f] = Skipped \/ s[i].before[f] \in {Unsure, s[j].files[f]}
        BY <1>1, <1>6, <3>1 DEF Backed
      <3>. QED
        BY <1>3, <1>4, <3>2, <3>3
    <2>. QED
      BY <1>4, <2>1 DEF Backed
  <1>7. ASSUME NEW state, now[f] \in {Unsure, state}
        PROVE  Latest(p, f, state)
    BY <1>3, <1>4, <1>5, <1>7 DEF Latest
  <1>8. \A j : /\ j \in DOMAIN p <=> j \in DOMAIN s
               /\ Closest(p, f, 1, j) <=> Closest(s, f, 1, j)
               /\ j \in DOMAIN s => p[j].files = s[j].files
    BY <1>1, <1>4, <1>5
  <1>. QED
    BY <1>4, <1>5, <1>6, <1>7, <1>8 DEF s, p, now

\* A file after a turn has written its events.
LEMMA FlushFits ==
    ASSUME RewindInv, ExactInv, NEW t \in Turns, Flush(t), NEW f \in Files
    PROVE  /\ LogFits(f)' /\ \A u \in Turns : BatchFits(u, f)'
           /\ \A x \in Execs : f \in todo[x] /\ Latest(log, f, Unsure) => Latest(log', f, Unsure)
  <1>1. TypeOK /\ CallInv /\ log \in Seq(Event) /\ \A u \in Turns : batch[u] \in Seq(Event)
    BY DEF RewindInv, ExactInv, TypeOK
  <1>2. /\ UNCHANGED <<ws, todo, image>> /\ batch'[t] = <<>>
        /\ \A u \in Turns \ {t} : batch'[u] = batch[u]
    BY <1>1 DEF Flush, TypeOK
  <1>3. LogFits(f) /\ \A u \in Turns : BatchFits(u, f)
    BY DEF ExactInv
  <1>4. /\ ~ Keeps(t, f)'
        /\ \A u \in Turns \ {t} : Keeps(u, f)' <=> Keeps(u, f)
    BY <1>2 DEF Keeps, Bare
  <1>5. BatchFits(t, f)'
    BY <1>2 DEF BatchFits, Backed, Latest
  <1>6. ASSUME NEW u \in Turns \ {t},
               \A state : Latest(log, f, state) /\ Keeps(u, f) => Latest(log', f, state),
               Keeps(t, f) /\ Keeps(u, f) => \A state : Latest(log', f, state)
        PROVE  BatchFits(u, f)'
    <2>1. BatchFits(u, f) /\ batch'[u] = batch[u] /\ ws' = ws
      BY <1>2, <1>3
    <2>2. ASSUME Alone(u, f)', NEW j \in DOMAIN batch[u], Closest(batch[u], f, 1, j)
          PROVE  Latest(log', f, batch[u][j].files[f])
      <3>1. Keeps(u, f)
        BY <2>2 DEF Keeps, Closest, Bare
      <3>2. CASE Keeps(t, f)
        BY <1>6, <3>1, <3>2
      <3>3. CASE ~ Keeps(t, f)
        <4>1. Alone(u, f)
          BY <1>4, <2>2, <3>3 DEF Alone
        <4>2. Latest(log, f, batch[u][j].files[f])
          BY <2>1, <2>2, <4>1 DEF BatchFits
        <4>. QED
          BY <1>6, <3>1, <4>2
      <3>. QED
        BY <3>2, <3>3
    <2>. QED
      BY <2>1, <2>2 DEF BatchFits
  <1>7. CASE log' = Blur(log, Open(t))
    <2>1. Fainter(log, log') /\ (f \in Open(t) => Blurred(log', f))
      BY <1>1, <1>7, BlurIs
    <2>2. CASE Keeps(t, f)
      <3>1. Backed(log', f) /\ \A state : Latest(log', f, state)
        BY <1>1, <2>1, <2>2, OpenIs, BlurredHolds
      <3>. QED
        BY <1>5, <1>6, <3>1 DEF LogFits
    <2>3. CASE ~ Keeps(t, f)
      <3>1. Free(f)' => Free(f)
        BY <1>4, <2>3 DEF Free
      <3>2. Backed(log', f) /\ \A state : Latest(log, f, state) => Latest(log', f, state)
        BY <1>1, <1>3, <2>1, FainterHolds DEF LogFits
      <3>3. Free(f)' => Latest(log', f, ws[f])
        BY <1>3, <3>1, <3>2 DEF LogFits
      <3>4. LogFits(f)'
        BY <1>2, <3>2, <3>3 DEF LogFits
      <3>. QED
        BY <1>5, <1>6, <2>3, <3>2, <3>4
    <2>. QED
      BY <2>2, <2>3
  <1>8. CASE log' = Blur(log, Overtaking(t)) \o Placed(t)
    <2>. DEFINE a == Blur(log, Overtaking(t))  p == Placed(t)  now == Before(Runs \ {t})[f]
    <2>1. Fainter(log, a) /\ (f \in Overtaking(t) => Blurred(a, f)) /\ a \in Seq(Event)
      BY <1>1, BlurIs DEF Fainter, SameFiles
    <2>. HIDE DEF a
    <2>2. /\ p \in Seq(Event) /\ (Bare(p, f, 1) <=> ~ Keeps(t, f))
          /\ Backed(p, f)
          /\ \A state : now \in {Unsure, state} => Latest(p, f, state)
      BY <1>1, <1>3, PlacedIs DEF Keeps, BatchFits
    <2>3. \A j \in DOMAIN p : Closest(p, f, 1, j) =>
              /\ j \in DOMAIN batch[t] /\ Closest(batch[t], f, 1, j)
              /\ p[j].files[f] = batch[t][j].files[f]
      BY <1>1, PlacedIs
    <2>4. /\ now \in {Unsure, ws[f]}
          /\ \A x \in Execs : f \in todo[x] => now = Unsure
          /\ \A u \in Turns \ {t} : Keeps(u, f) => now = Unsure
      BY <1>1, BeforeIs, Actors
    <2>. HIDE DEF p, now
    <2>5. /\ Backed(a, f)
          /\ \A state : Latest(log, f, state) => Latest(a, f, state)
      BY <1>1, <1>3, <2>1, FainterHolds DEF LogFits
    <2>6. log' = a \o p
      BY <1>8 DEF a, p
    <2>7. \A state : Latest(p, f, state) /\ (~ Keeps(t, f) => Latest(a, f, state))
              => Latest(log', f, state)
      BY <2>1, <2>2, <2>6, JoinFits
    <2>8. Backed(log', f)
      <3>1. ASSUME NEW j \in DOMAIN p, Closest(p, f, 1, j)
            PROVE  Latest(a, f, p[j].files[f])
        <4>1. CASE Alone(t, f)
          BY <1>3, <2>3, <2>5, <3>1, <4>1 DEF BatchFits
        <4>2. CASE ~ Alone(t, f)
          <5>1. PICK u \in Turns \ {t} : Keeps(u, f)
            BY <4>2 DEF Alone
          <5>2. Keeps(t, f)
            BY <2>3, <3>1 DEF Keeps, Closest, Bare
          <5>3. f \in Overtaking(t)
            BY <1>1, <5>1, <5>2, OpenIs DEF Overtaking
          <5>. QED
            BY <2>1, <5>3, BlurredHolds
        <4>. QED
          BY <4>1, <4>2
      <3>. QED
        BY <2>1, <2>2, <2>5, <2>6, <3>1, JoinFits
    <2>9. Free(f)' => Latest(log', f, ws[f])
      <3>1. ASSUME Free(f)', ~ Keeps(t, f)
            PROVE  Latest(a, f, ws[f])
        BY <1>3, <1>4, <2>5, <3>1 DEF Free, LogFits
      <3>. QED
        BY <2>2, <2>4, <2>7, <3>1
    <2>10. LogFits(f)'
      BY <1>2, <2>8, <2>9 DEF LogFits
    <2>11. ASSUME NEW u \in Turns \ {t}
           PROVE  BatchFits(u, f)'
      <3>1. ASSUME Keeps(u, f)
            PROVE  \A state : Latest(p, f, state)
        BY <2>2, <2>4, <3>1
      <3>2. ASSUME Keeps(t, f), Keeps(u, f)
            PROVE  \A state : Latest(log', f, state)
        BY <2>7, <3>1, <3>2
      <3>3. ASSUME NEW state, Latest(log, f, state), Keeps(u, f)
            PROVE  Latest(log', f, state)
        BY <2>5, <2>7, <3>1, <3>3
      <3>. QED
        BY <1>6, <3>2, <3>3
    <2>12. ASSUME NEW x \in Execs, f \in todo[x], Latest(log, f, Unsure)
           PROVE  Latest(log', f, Unsure)
      BY <2>2, <2>4, <2>5, <2>7, <2>12
    <2>. QED
      BY <1>5, <2>10, <2>11, <2>12
  <1>. QED
    BY <1>7, <1>8 DEF Flush

LEMMA FlushExact ==
    ASSUME RewindInv, ExactInv, NEW t \in Turns, Flush(t)
    PROVE  ExactInv'
  <1>1. TypeOK /\ CallInv /\ t \in Runs /\ t \notin Execs /\ t \notin Rewinds
    BY Actors DEF RewindInv, ExactInv
  <1>2. /\ pc[t] = "turn" /\ pc' = [pc EXCEPT ![t] = "idle"] /\ holder = NoOne
        /\ UNCHANGED <<ws, todo, image>>
        /\ \A u \in Turns \ {t} : batch'[u] = batch[u]
    BY <1>1 DEF Flush, Goto, TypeOK
  <1>3. pc'[t] = "idle" /\ todo[t] = {} /\ \A a \in (Runs \cup Rewinds) \ {t} : pc'[a] = pc[a]
    BY <1>1, <1>2 DEF TypeOK, CallInv
  <1>4. /\ \A r \in Rewinds : pc'[r] # "restore"
        /\ \A x \in Execs : pc'[x] # "captured"
    BY <1>1, <1>2, <1>3, Actors, NobodyRestores, NobodyCaptures
  <1>5. CallInv'
    <2>1. ASSUME NEW u \in Turns, NEW f \in todo'[u]
          PROVE  Keeps(u, f)'
      BY <1>1, <1>2, <1>3, <2>1 DEF CallInv, Keeps
    <2>2. \A r \in Runs : pc'[r] \notin {"captured", "mutate"} => todo'[r] = {}
      BY <1>1, <1>2, <1>3 DEF CallInv
    <2>3. \A x \in Execs : pc'[x] = "captured" => todo'[x] = Captured(image'[x])
      BY <1>4
    <2>. QED
      BY <2>1, <2>2, <2>3 DEF CallInv
  <1>6. ASSUME NEW f \in Files
        PROVE  /\ LogFits(f)' /\ \A u \in Turns : BatchFits(u, f)'
               /\ \A x \in Execs : ExecFits(x, f)'
    <2>1. /\ LogFits(f)' /\ \A u \in Turns : BatchFits(u, f)'
          /\ \A x \in Execs : f \in todo[x] /\ Latest(log, f, Unsure) => Latest(log', f, Unsure)
      BY FlushFits
    <2>2. ASSUME NEW x \in Execs
          PROVE  ExecFits(x, f)'
      <3>1. ExecFits(x, f) /\ x \in (Runs \cup Rewinds) \ {t}
        BY <1>1, Actors DEF ExactInv
      <3>2. Covered(x, f)' => Covered(x, f) /\ f \in todo[x]
        BY <1>2, <1>3, <3>1 DEF Covered
      <3>. QED
        BY <1>4, <2>1, <3>1, <3>2 DEF ExecFits
    <2>. QED
      BY <2>1, <2>2
  <1>. QED
    BY <1>4, <1>5, <1>6 DEF ExactInv

\* The interface dies: what its turns had open is out of reach.
LEMMA KillTuiExact ==
    ASSUME RewindInv, ExactInv, KillTui
    PROVE  ExactInv'
  <1>. DEFINE lost == UNION {Open(t) : t \in Turns}
  <1>1. TypeOK /\ CallInv /\ log \in Seq(Event)
    BY DEF RewindInv, ExactInv, TypeOK
  <1>2. /\ log' = Blur(log, lost)
        /\ UNCHANGED <<ws, target, skipped, goal>>
        /\ \A t \in Turns : batch'[t] = <<>> /\ todo'[t] = {} /\ pc'[t] = "idle"
        /\ \A a \in Execs \cup Rewinds :
               pc'[a] = pc[a] /\ todo'[a] = todo[a] /\ image'[a] = image[a]
    BY <1>1, Actors DEF KillTui, TypeOK, rewind
  <1>3. Fainter(log, log') /\ \A f \in Files \cap lost : Blurred(log', f)
    BY <1>1, <1>2, BlurIs
  <1>. HIDE DEF lost
  <1>4. CallInv'
    <2>1. \A r \in Runs : r \in Turns \/ r \in Execs
      BY DEF Runs
    <2>. QED
      BY <1>1, <1>2, <2>1, Actors DEF CallInv
  <1>5. ASSUME NEW f \in Files
        PROVE  Free(f) \/ Blurred(log', f)
    <2>1. ASSUME ~ Free(f)
          PROVE  f \in lost
      BY <1>1, <2>1, OpenIs DEF Free, lost
    <2>. QED
      BY <1>3, <2>1
  <1>6. ASSUME NEW f \in Files
        PROVE  LogFits(f)' /\ \A t \in Turns : BatchFits(t, f)'
    <2>1. Backed(log', f) /\ Latest(log', f, ws[f])
      <3>1. CASE Free(f)
        BY <1>1, <1>3, <3>1, FainterHolds DEF ExactInv, LogFits
      <3>2. CASE Blurred(log', f)
        BY <3>2, BlurredHolds
      <3>. QED
        BY <1>5, <3>1, <3>2
    <2>2. LogFits(f)'
      BY <1>2, <2>1 DEF LogFits
    <2>3. \A t \in Turns : BatchFits(t, f)'
      BY <1>2 DEF BatchFits, Backed, Latest
    <2>. QED
      BY <2>2, <2>3
  <1>7. ASSUME NEW f \in Files, NEW x \in Execs
        PROVE  ExecFits(x, f)'
    <2>1. ExecFits(x, f)
      BY DEF ExactInv
    <2>2. CASE Free(f)
      <3>1. \A state : Latest(log, f, state) => Latest(log', f, state)
        BY <1>1, <1>3, FainterHolds
      <3>. QED
        BY <1>1, <1>2, <2>1, <2>2, <3>1, CalmExec
    <2>3. CASE Blurred(log', f)
      BY <2>3, BlurredHolds DEF ExecFits
    <2>. QED
      BY <1>5, <2>2, <2>3
  <1>8. ASSUME NEW r \in Rewinds, pc'[r] = "restore", NEW f \in Files
        PROVE  GoalFits(r, f)'
    <2>1. GoalFits(r, f)
      BY <1>2, <1>8 DEF ExactInv
    <2>. QED
      BY <1>1, <1>2, <1>3, <2>1, CalmGoal
  <1>. QED
    BY <1>4, <1>6, <1>7, <1>8 DEF ExactInv

-----------------------------------------------------------------------------
(* A tool changes files.                                                     *)

LEMMA DisturbIs ==
    ASSUME TypeOK, NEW F, Disturb(F)
    PROVE  \A t \in Turns : /\ Fainter(batch[t], batch'[t])
                            /\ \A f \in Files \cap F : \A state : Latest(batch'[t], f, state)
  <1>1. ASSUME NEW t \in Turns
        PROVE  batch[t] \in Seq(Event) /\ batch'[t] = BlurLatest(batch[t], F)
    BY DEF Disturb, TypeOK
  <1>. QED
    BY <1>1, BlurLatestIs

LEMMA ToolExact ==
    ASSUME RewindInv, ExactInv, NEW r \in Runs, Tool(r)
    PROVE  ExactInv'
  <1>. DEFINE bare == {f \in todo[r] : image[r][f] = None \/ holder \in Rewinds}
  <1>1. TypeOK /\ CallInv /\ log \in Seq(Event)
    BY DEF RewindInv, ExactInv, TypeOK
  <1>2. /\ pc[r] = "mutate" /\ log' = Blur(log, bare) /\ Disturb(todo[r])
        /\ \A f \in Files \ todo[r] : ws'[f] = ws[f]
        /\ \A w \in Rewinds : \A f \in Files :
               goal'[w][f] = IF f \in todo[r] THEN Unsure ELSE goal[w][f]
        /\ todo'[r] = {} /\ pc'[r] = IF r \in Execs THEN "idle" ELSE "turn"
        /\ UNCHANGED <<target, skipped>>
    <2>1. \E new \in [todo[r] -> State] :
              ws' = [f \in Files |-> IF f \in todo[r] THEN new[f] ELSE ws[f]]
      BY DEF Tool
    <2>2. \A f \in Files \ todo[r] : ws'[f] = ws[f]
      BY <2>1
    <2>. QED
      BY <1>1, <2>2 DEF Tool, Goto, TypeOK, rewind
  <1>3. OthersIdle(r)
    BY <1>1 DEF OthersIdle, Tool, Goto, TypeOK
  <1>4. Fainter(log, log') /\ \A f \in Files \cap bare : Blurred(log', f)
    BY <1>1, <1>2, BlurIs
  <1>5. \A t \in Turns : /\ Fainter(batch[t], batch'[t]) /\ SameFiles(batch[t], batch'[t])
                         /\ \A f \in Files \cap todo[r] : \A state : Latest(batch'[t], f, state)
    BY <1>1, <1>2, DisturbIs DEF Fainter
  <1>6. \A f : /\ \A t \in Turns : /\ Keeps(t, f)' <=> Keeps(t, f)
                                   /\ Alone(t, f)' <=> Alone(t, f)
               /\ Free(f)' <=> Free(f)
    BY <1>1, <1>5, CalmKeeps
  <1>7. \A f \in Files : /\ Backed(log, f) => Backed(log', f)
                         /\ \A state : Latest(log, f, state) => Latest(log', f, state)
    BY <1>1, <1>4, FainterHolds
  <1>8. CallInv'
    <2>1. \A a \in Runs \ {r} : pc'[a] = pc[a] /\ todo'[a] = todo[a] /\ image'[a] = image[a]
      BY <1>3 DEF OthersIdle
    <2>2. \A x \in Execs : pc'[x] = "captured" => todo'[x] = Captured(image'[x])
      BY <1>1, <1>2, <2>1, Actors DEF CallInv
    <2>3. \A a \in Runs : pc'[a] \notin {"captured", "mutate"} => todo'[a] = {}
      BY <1>1, <1>2, <2>1 DEF CallInv
    <2>4. \A t \in Turns : \A f \in todo'[t] : Keeps(t, f)'
      BY <1>1, <1>2, <1>6, <2>1, Actors DEF CallInv
    <2>. QED
      BY <2>2, <2>3, <2>4 DEF CallInv
  <1>9. ASSUME NEW f \in Files
        PROVE  LogFits(f)' /\ \A t \in Turns : BatchFits(t, f)'
    <2>1. CASE f \notin todo[r]
      BY <1>1, <1>2, <1>4, <1>5, <2>1, Calm
    <2>2. CASE f \in todo[r]
      <3>1. \A t \in Turns : BatchFits(t, f)'
        <4>1. ASSUME NEW t \in Turns
              PROVE  BatchFits(t, f)'
          <5>1. BatchFits(t, f) /\ Latest(batch'[t], f, ws'[f]) /\ Fainter(batch[t], batch'[t])
            BY <1>5, <2>2 DEF ExactInv
          <5>2. Alone(t, f)' => Alone(t, f)
            BY <1>6
          <5>. QED
            BY <1>1, <1>7, <5>1, <5>2, CalmBatch
        <4>. QED
          BY <4>1
      <3>2. ASSUME Free(f)
            PROVE  Latest(log', f, ws'[f])
        <4>1. CASE f \in bare
          BY <1>4, <4>1, BlurredHolds
        <4>2. CASE f \notin bare
          <5>1. image[r][f] # None
            BY <2>2, <4>2
          <5>2. r \notin Turns
            BY <1>1, <2>2, <3>2 DEF CallInv, Free
          <5>3. r \in Execs
            BY <5>2 DEF Runs
          <5>4. Latest(log, f, Unsure)
            BY <1>2, <2>2, <5>1, <5>3 DEF ExactInv, ExecFits, Covered
          <5>5. Latest(log', f, Unsure)
            BY <1>7, <5>4
          <5>. QED
            BY <5>5, UnsureHolds
        <4>. QED
          BY <4>1, <4>2
      <3>3. LogFits(f)'
        BY <1>6, <1>7, <3>2 DEF LogFits, ExactInv
      <3>. QED
        BY <3>1, <3>3
    <2>. QED
      BY <2>1, <2>2
  <1>10. ASSUME NEW f \in Files, NEW x \in Execs
         PROVE  ExecFits(x, f)'
    <2>1. CASE x = r
      BY <1>2, <2>1 DEF ExecFits, Covered
    <2>2. CASE x # r
      <3>1. ExecFits(x, f) /\ x \in (Runs \cup Rewinds) \ {r}
        BY <2>2, Actors DEF ExactInv
      <3>. QED
        BY <1>1, <1>3, <1>6, <1>7, <3>1, CalmExec DEF OthersIdle
    <2>. QED
      BY <2>1, <2>2
  <1>11. ASSUME NEW w \in Rewinds, pc'[w] = "restore", NEW f \in Files
         PROVE  GoalFits(w, f)'
    <2>1. /\ w \in (Runs \cup Rewinds) \ {r} /\ pc[w] = "restore"
          /\ todo'[w] = todo[w] /\ image'[w] = image[w]
      <3>1. w \in (Runs \cup Rewinds) \ {r}
        BY Actors DEF Runs
      <3>. QED
        BY <1>3, <1>11, <3>1 DEF OthersIdle
    <2>2. GoalFits(w, f) /\ holder = w
      BY <2>1 DEF ExactInv, RewindInv, LockInv
    <2>3. CASE f \notin todo[r]
      BY <1>1, <1>2, <1>4, <2>1, <2>2, <2>3, CalmGoal
    <2>4. CASE f \in todo[r]
      <3>1. Blurred(log', f) /\ goal'[w][f] = Unsure
        BY <1>2, <1>4, <2>2, <2>4
      <3>2. Found(log', f, target[w] + 1, image[w][f])
        <4>1. SameFiles(log, log') /\ target[w] + 1 \in Nat \ {0}
          BY <1>1, <1>4 DEF Fainter, TypeOK
        <4>. QED
          BY <1>1, <2>2, <4>1, SameFound DEF GoalFits
      <3>. QED
        BY <1>2, <2>1, <2>2, <3>1, <3>2 DEF GoalFits
    <2>. QED
      BY <2>3, <2>4
  <1>. QED
    BY <1>8, <1>9, <1>10, <1>11 DEF ExactInv

-----------------------------------------------------------------------------
(* Steps of a rewind.                                                        *)

\* Runs do not take part in the steps of a rewind.
RunsStay ==
    \A a \in Runs : pc'[a] = pc[a] /\ todo'[a] = todo[a] /\ image'[a] = image[a]

\* A rewind stays as it is.
RewindStays(r) ==
    /\ pc'[r] = pc[r] /\ todo'[r] = todo[r] /\ image'[r] = image[r]
    /\ goal'[r] = goal[r] /\ target'[r] = target[r] /\ skipped'[r] = skipped[r]

\* What a rewind that writes nothing leaves, if it is not about to restore.
LEMMA QuietRewind ==
    ASSUME RewindInv, ExactInv, UNCHANGED <<ws, log, batch>>, RunsStay,
           \A r \in Rewinds : \/ RewindStays(r) \/ pc'[r] # "restore"
                              \/ \A f \in Files : GoalFits(r, f)'
    PROVE  ExactInv'
  <1>1. \A x \in Execs : x \in Runs
    BY Actors
  <1>2. \A f \in Files : LogFits(f)' /\ \A t \in Turns : BatchFits(t, f)'
    BY QuietExec
  <1>3. \A f \in Files : \A x \in Execs : ExecFits(x, f)'
    BY <1>1, QuietExec DEF RunsStay
  <1>4. ASSUME NEW r \in Rewinds, pc'[r] = "restore"
        PROVE  \A f \in Files : GoalFits(r, f)'
    <2>1. CASE RewindStays(r)
      <3>1. pc[r] = "restore" /\ UNCHANGED <<ws, log, batch>>
        BY <1>4, <2>1 DEF RewindStays
      <3>. QED
        BY <2>1, <3>1, QuietExec DEF RewindStays
    <2>. QED
      BY <1>4, <2>1
  <1>5. CallInv'
    BY <1>1, Actors DEF ExactInv, CallInv, RunsStay, Keeps
  <1>. QED
    BY <1>2, <1>3, <1>4, <1>5 DEF ExactInv

\* A rewind has read what it is going to restore.
LEMMA ApplyFits ==
    ASSUME RewindInv, ExactInv, NEW r \in Rewinds, ApplyRewind(r), NEW f \in Files
    PROVE  GoalFits(r, f)'
  <1>1. TypeOK /\ CallInv /\ target[r] \in Nat /\ log \in Seq(Event)
    BY DEF RewindInv, ExactInv, TypeOK
  <1>2. /\ image'[r] = ClosestAfter(target[r]) /\ todo'[r] = Captured(image'[r])
        /\ UNCHANGED <<ws, log, target>>
        /\ goal'[r][f] = IF \E t \in Turns : f \in Open(t) THEN Unsure
                         ELSE IF target[r] < Len(log) THEN log[target[r] + 1].before[f] ELSE ws[f]
    BY <1>1 DEF ApplyRewind, TypeOK
  <1>3. Found(log, f, target[r] + 1, image'[r][f])
    BY <1>1, <1>2, ClosestIsFound
  <1>4. f \in todo'[r] <=> image'[r][f] # None
    BY <1>2 DEF Captured
  <1>5. \/ goal'[r][f] = Unsure \/ image'[r][f] = Skipped
        \/ image'[r][f] = None /\ goal'[r][f] = ws[f]
        \/ goal'[r][f] = image'[r][f]
    <2>1. CASE \E t \in Turns : f \in Open(t)
      BY <1>2, <2>1
    <2>2. CASE /\ ~ \E t \in Turns : f \in Open(t)
               /\ target[r] < Len(log)
      <3>1. Free(f)
        BY <1>1, <2>2, OpenIs DEF Free
      <3>2. Backed(log, f) /\ Latest(log, f, ws[f]) /\ ws[f] # Skipped
        BY <1>1, <3>1, States DEF ExactInv, LogFits
      <3>3. target[r] + 1 \in DOMAIN log
        BY <1>1, <2>2
      <3>4. CASE image'[r][f] = None /\ Bare(log, f, target[r] + 1)
        BY <1>2, <2>2, <3>2, <3>3, <3>4 DEF Latest
      <3>5. CASE \E j \in DOMAIN log : /\ Closest(log, f, target[r] + 1, j)
                                       /\ image'[r][f] = log[j].files[f]
        BY <1>2, <2>2, <3>2, <3>3, <3>5 DEF Backed
      <3>. QED
        BY <1>3, <3>4, <3>5 DEF Found
    <2>3. CASE /\ ~ \E t \in Turns : f \in Open(t)
               /\ ~ (target[r] < Len(log))
      <3>1. goal'[r][f] = ws[f]
        BY <1>2, <2>3
      <3>2. \A j : ~ Closest(log, f, target[r] + 1, j)
        BY <1>1, <2>3 DEF Closest
      <3>. QED
        BY <1>3, <3>1, <3>2 DEF Found
    <2>. QED
      BY <2>1, <2>2, <2>3
  <1>6. Found(log', f, target'[r] + 1, image'[r][f])
    BY <1>2, <1>3
  <1>. QED
    BY <1>2, <1>4, <1>5, <1>6 DEF GoalFits

LEMMA RestoreExact ==
    ASSUME RewindInv, ExactInv, NEW r \in Rewinds, Restore(r)
    PROVE  ExactInv'
  <1>1. TypeOK /\ CallInv /\ log \in Seq(Event) /\ r \notin Runs
    BY Actors DEF RewindInv, ExactInv, TypeOK, Runs
  <1>2. PICK g \in todo[r] :
            /\ todo' = [todo EXCEPT ![r] = @ \ {g}]
            /\ \/ /\ image[r][g] \in blobs \cup {Absent}
                  /\ ws' = [ws EXCEPT ![g] = image[r][g]]
                  /\ log' = BlurLatest(log, {g}) /\ Disturb({g})
                  /\ UNCHANGED skipped
               \/ /\ skipped' = [skipped EXCEPT ![r] = @ \cup {g}]
                  /\ UNCHANGED <<ws, log, batch>>
    BY DEF Restore
  <1>3. pc[r] = "restore" /\ UNCHANGED <<pc, image, target, goal>>
    BY DEF Restore
  <1>4. /\ RunsStay /\ todo'[r] = todo[r] \ {g}
        /\ \A w \in Rewinds \ {r} : RewindStays(w) /\ pc[w] # "restore"
    <2>1. \A w \in Rewinds \ {r} : pc[w] # "restore"
      BY <1>3 DEF RewindInv, LockInv
    <2>2. todo'[r] = todo[r] \ {g} /\ \A a \in (Runs \cup Rewinds) \ {r} : todo'[a] = todo[a]
      BY <1>1, <1>2 DEF TypeOK
    <2>3. \A w \in Rewinds \ {r} : skipped'[w] = skipped[w]
      BY <1>1, <1>2 DEF TypeOK
    <2>. QED
      BY <1>1, <1>3, <2>1, <2>2, <2>3 DEF RunsStay, RewindStays
  <1>5. \A f \in Files : GoalFits(r, f)
    BY <1>3 DEF ExactInv
  <1>6. CASE skipped' = [skipped EXCEPT ![r] = skipped[r] \cup {g}] /\ UNCHANGED <<ws, log, batch>>
    <2>1. skipped'[r] = skipped[r] \cup {g}
      BY <1>1, <1>6 DEF TypeOK
    <2>2. \A f \in Files : GoalFits(r, f)'
      <3>1. ASSUME NEW f \in Files
            PROVE  GoalFits(r, f)'
        <4>1. GoalFits(r, f)
          BY <1>5
        <4>. QED
          BY <1>3, <1>4, <1>6, <2>1, <4>1 DEF GoalFits
      <3>. QED
        BY <3>1
    <2>. QED
      BY <1>4, <1>6, <2>2, QuietRewind
  <1>7. CASE /\ image[r][g] \in blobs \cup {Absent}
             /\ ws' = [ws EXCEPT ![g] = image[r][g]]
             /\ log' = BlurLatest(log, {g}) /\ Disturb({g})
             /\ UNCHANGED skipped
    <2>1. g \in Files /\ ws'[g] = image[r][g] /\ \A f \in Files \ {g} : ws'[f] = ws[f]
      BY <1>1, <1>7 DEF TypeOK
    <2>2. image[r][g] # Skipped
      BY <1>1, <1>7, ContentsAssumption DEF TypeOK, Skipped, Absent
    <2>3. Fainter(log, log') /\ \A state : Latest(log', g, state)
      BY <1>1, <1>7, <2>1, BlurLatestIs
    <2>4. \A t \in Turns : /\ Fainter(batch[t], batch'[t]) /\ SameFiles(batch[t], batch'[t])
                           /\ \A state : Latest(batch'[t], g, state)
      BY <1>1, <1>7, <2>1, DisturbIs DEF Fainter
    <2>5. \A f : /\ \A t \in Turns : /\ Keeps(t, f)' <=> Keeps(t, f)
                                     /\ Alone(t, f)' <=> Alone(t, f)
                 /\ Free(f)' <=> Free(f)
      BY <1>1, <2>4, CalmKeeps
    <2>6. CallInv'
      BY <1>1, <1>4, <2>5, Actors DEF CallInv, RunsStay
    <2>7. ASSUME NEW f \in Files
          PROVE  LogFits(f)' /\ \A t \in Turns : BatchFits(t, f)'
      <3>1. CASE f # g
        BY <1>1, <2>1, <2>3, <2>4, <3>1, Calm
      <3>2. CASE f = g
        <4>1. Backed(log', g)
          BY <1>1, <2>1, <2>3, FainterHolds DEF ExactInv, LogFits
        <4>2. LogFits(g)'
          BY <2>3, <4>1 DEF LogFits
        <4>3. ASSUME NEW t \in Turns
              PROVE  BatchFits(t, g)'
          <5>1. BatchFits(t, g) /\ Latest(batch'[t], g, ws'[g]) /\ Fainter(batch[t], batch'[t])
            BY <2>1, <2>4 DEF ExactInv
          <5>2. Alone(t, g)' => Alone(t, g)
            BY <2>5
          <5>. QED
            BY <1>1, <2>1, <2>3, <5>1, <5>2, CalmBatch
        <4>. QED
          BY <3>2, <4>2, <4>3
      <3>. QED
        BY <3>1, <3>2
    <2>8. ASSUME NEW f \in Files, NEW x \in Execs
          PROVE  ExecFits(x, f)'
      <3>1. ExecFits(x, f) /\ x \in Runs
        BY Actors DEF ExactInv
      <3>2. \A state : Latest(log, f, state) => Latest(log', f, state)
        BY <1>1, <2>3, FainterHolds
      <3>. QED
        BY <1>1, <1>4, <2>5, <3>1, <3>2, CalmExec DEF RunsStay
    <2>9. ASSUME NEW f \in Files
          PROVE  GoalFits(r, f)'
      <3>1. GoalFits(r, f)
        BY <1>5
      <3>2. Found(log', f, target[r] + 1, image[r][f])
        <4>1. SameFiles(log, log') /\ target[r] + 1 \in Nat \ {0}
          BY <1>1, <2>3 DEF Fainter, TypeOK
        <4>. QED
          BY <1>1, <3>1, <4>1, SameFound DEF GoalFits
      <3>3. CASE f = g
        <4>1. image[r][g] # None
          BY <3>1, <3>3 DEF GoalFits
        <4>. QED
          BY <1>3, <1>4, <1>7, <2>1, <2>2, <3>1, <3>2, <3>3, <4>1 DEF GoalFits
      <3>4. CASE f # g
        <4>1. ws'[f] = ws[f] /\ (f \in todo'[r] <=> f \in todo[r])
          BY <1>4, <2>1, <3>4
        <4>2. Blurred(log, f) => Blurred(log', f)
          BY <1>1, <2>3, FainterHolds
        <4>. QED
          BY <1>3, <1>7, <3>1, <3>2, <4>1, <4>2 DEF GoalFits
      <3>. QED
        BY <3>3, <3>4
    <2>. QED
      BY <1>3, <1>4, <2>6, <2>7, <2>8, <2>9 DEF ExactInv, RewindStays
  <1>. QED
    BY <1>2, <1>6, <1>7

\* The log is cut at the target, when every file is what it was there.
LEMMA TruncateExact ==
    ASSUME RewindInv, ExactInv, NEW r \in Rewinds, Truncate(r)
    PROVE  ExactInv'
  <1>. DEFINE kept == IF target[r] < Len(log) THEN SubSeq(log, 1, target[r]) ELSE log
              lost == OpenNow \cup skipped[r]
  <1>1. /\ TypeOK /\ CallInv /\ log \in Seq(Event) /\ r \notin Runs /\ target[r] \in Nat
        /\ Len(log) \in Nat
    BY Actors DEF RewindInv, ExactInv, TypeOK, Runs
  <1>2. /\ pc[r] = "restore" /\ todo[r] = {} /\ log' = Blur(kept, lost)
        /\ pc' = [pc EXCEPT ![r] = "prune"] /\ holder = r
        /\ UNCHANGED <<ws, todo, image, batch>>
    BY DEF Truncate, Goto, run, RewindInv, LockInv
  <1>3. RunsStay /\ pc'[r] = "prune" /\ \A w \in Rewinds \ {r} : pc'[w] = pc[w] /\ pc[w] # "restore"
    BY <1>1, <1>2 DEF RunsStay, TypeOK, RewindInv, LockInv
  <1>4. \A f \in Files : GoalFits(r, f)
    BY <1>2 DEF ExactInv
  <1>5. kept \in Seq(Event) /\ \A f : Backed(log, f) => Backed(kept, f)
    BY <1>1, Prefix
  <1>6. ASSUME NEW f \in Files, f \notin lost
        PROVE  Latest(kept, f, ws[f]) \/ Blurred(kept, f)
    <2>1. Free(f) /\ LogFits(f) /\ GoalFits(r, f)
      <3>1. \A t \in Turns : t \in Runs /\ (Keeps(t, f) => f \in Open(t)) /\ Open(t) \subseteq OpenNow
        BY <1>1, OpenIs, Actors
      <3>2. Free(f)
        BY <1>6, <3>1 DEF Free
      <3>. QED
        BY <1>4, <3>2 DEF ExactInv
    <2>2. Backed(log, f) /\ Latest(log, f, ws[f])
      BY <2>1 DEF LogFits
    <2>3. CASE ~ (target[r] < Len(log))
      BY <2>2, <2>3
    <2>4. CASE target[r] < Len(log) /\ image[r][f] = None
      <3>1. Bare(log, f, target[r] + 1)
        BY <2>1, <2>4 DEF GoalFits, Found, Closest
      <3>. QED
        BY <1>1, <2>2, <2>4, <3>1, Prefix
    <2>5. CASE target[r] < Len(log) /\ image[r][f] # None
      <3>1. ws[f] = image[r][f] \/ Blurred(log, f)
        BY <1>2, <1>6, <2>1, <2>5 DEF GoalFits
      <3>2. CASE ws[f] = image[r][f]
        <4>1. Found(log, f, target[r] + 1, ws[f])
          BY <2>1, <3>2 DEF GoalFits
        <4>. QED
          BY <1>1, <2>2, <2>5, <3>2, <4>1, Prefix
      <3>3. CASE Blurred(log, f)
        <4>1. /\ DOMAIN kept = 1 .. target[r] /\ DOMAIN log = 1 .. Len(log)
              /\ \A i \in 1 .. target[r] : kept[i] = log[i] /\ i \in 1 .. Len(log)
          BY <1>1, <2>5
        <4>. HIDE DEF kept
        <4>. QED
          BY <3>3, <4>1 DEF Blurred
      <3>. QED
        BY <3>1, <3>2, <3>3
    <2>. QED
      BY <2>3, <2>4, <2>5
  <1>. HIDE DEF kept
  <1>7. Fainter(kept, log') /\ \A f \in Files \cap lost : Blurred(log', f)
    BY <1>2, <1>5, BlurIs
  <1>. HIDE DEF lost
  <1>8. \A f \in Files : Backed(log', f) /\ Latest(log', f, ws[f])
    <2>1. ASSUME NEW f \in Files
          PROVE  Backed(log', f) /\ Latest(log', f, ws[f])
      <3>1. CASE f \in lost
        BY <1>7, <3>1, BlurredHolds
      <3>2. CASE f \notin lost
        <4>1. Backed(kept, f) /\ Latest(kept, f, ws[f])
          BY <1>5, <1>6, <3>2, BlurredHolds DEF ExactInv, LogFits
        <4>. QED
          BY <1>5, <1>7, <4>1, FainterHolds
      <3>. QED
        BY <3>1, <3>2
    <2>. QED
      BY <2>1
  <1>9. ASSUME NEW f \in Files, NEW a \in Runs, f \in Open(a)
        PROVE  \A state : Latest(log', f, state)
    <2>1. f \in lost
      BY <1>1, <1>9, OpenIs DEF lost
    <2>. QED
      BY <1>7, <2>1, BlurredHolds
  <1>10. ASSUME NEW f \in Files
         PROVE  LogFits(f)' /\ \A t \in Turns : BatchFits(t, f)'
    <2>1. LogFits(f)'
      BY <1>2, <1>8 DEF LogFits
    <2>2. ASSUME NEW t \in Turns
          PROVE  BatchFits(t, f)'
      <3>1. BatchFits(t, f)
        BY DEF ExactInv
      <3>2. ASSUME NEW j \in DOMAIN batch[t], Closest(batch[t], f, 1, j)
            PROVE  Latest(log', f, batch[t][j].files[f])
        <4>1. Keeps(t, f)
          BY <3>2 DEF Keeps, Closest, Bare
        <4>. QED
          BY <1>1, <1>9, <4>1, OpenIs, Actors
      <3>. QED
        BY <1>2, <3>1, <3>2 DEF BatchFits
    <2>. QED
      BY <2>1, <2>2
  <1>11. ASSUME NEW f \in Files, NEW x \in Execs
         PROVE  ExecFits(x, f)'
    <2>1. x \in Runs /\ pc[x] # "captured"
      BY <1>2, Actors DEF RewindInv, LockInv
    <2>2. ASSUME f \in todo[x]
          PROVE  Latest(log', f, Unsure)
      BY <1>1, <1>9, <2>1, <2>2, OpenIs
    <2>. QED
      BY <1>2, <1>3, <2>1, <2>2 DEF ExecFits, Covered, RunsStay
  <1>12. CallInv'
    BY <1>1, <1>2, <1>3, Actors DEF CallInv, RunsStay, Keeps
  <1>. QED
    BY <1>3, <1>10, <1>11, <1>12 DEF ExactInv

LEMMA OverStays ==
    ASSUME TypeOK, NEW r \in Rewinds, Over(r)
    PROVE  /\ RunsStay /\ pc'[r] = "idle"
           /\ \A w \in Rewinds \ {r} : RewindStays(w)
  <1>1. r \notin Runs
    BY Actors DEF Runs
  <1>2. \A a \in (Runs \cup Rewinds) \ {r} :
            pc'[a] = pc[a] /\ todo'[a] = todo[a] /\ image'[a] = image[a]
    BY DEF Over, Goto, TypeOK
  <1>3. \A w \in Rewinds \ {r} :
            goal'[w] = goal[w] /\ target'[w] = target[w] /\ skipped'[w] = skipped[w]
    BY DEF Over, TypeOK
  <1>4. pc'[r] = "idle"
    BY DEF Over, Goto, TypeOK
  <1>. QED
    BY <1>1, <1>2, <1>3, <1>4 DEF RunsStay, RewindStays

LEMMA RewindExactStep ==
    ASSUME RewindInv, ExactInv, NEW r \in Rewinds, RewindStep(r)
    PROVE  ExactInv'
  <1>0. TypeOK /\ CallInv /\ r \notin Runs
    BY Actors DEF RewindInv, ExactInv, Runs
  <1>1. CASE AskRewind(r)
    <2>1. /\ pc' = [pc EXCEPT ![r] = "wait"]
          /\ \E keep \in 0 .. Len(log) : target' = [target EXCEPT ![r] = keep]
          /\ UNCHANGED <<ws, log, batch, todo, image, skipped, goal>>
      BY <1>1 DEF AskRewind, Goto, store, run
    <2>2. RunsStay /\ pc'[r] = "wait" /\ \A w \in Rewinds \ {r} : RewindStays(w)
      BY <1>0, <2>1 DEF RunsStay, RewindStays, TypeOK
    <2>. QED
      BY <2>1, <2>2, QuietRewind
  <1>2. CASE ApplyRewind(r)
    <2>1. /\ UNCHANGED <<ws, log, batch, target>> /\ holder = NoOne
          /\ pc' = [pc EXCEPT ![r] = "restore"]
          /\ todo' = [todo EXCEPT ![r] = todo'[r]] /\ image' = [image EXCEPT ![r] = image'[r]]
      BY <1>0, <1>2 DEF ApplyRewind, Goto, run, TypeOK
    <2>2. RunsStay /\ \A w \in Rewinds \ {r} : pc'[w] = pc[w] /\ pc[w] # "restore"
      BY <1>0, <2>1, Actors, NobodyRestores DEF RunsStay, TypeOK
    <2>. QED
      BY <1>2, <2>1, <2>2, ApplyFits, QuietRewind
  <1>3. CASE Restore(r)
    BY <1>3, RestoreExact
  <1>4. CASE Truncate(r)
    BY <1>4, TruncateExact
  <1>5. CASE Prune(r)
    <2>1. /\ pc' = [pc EXCEPT ![r] = "mark"]
          /\ UNCHANGED <<ws, log, batch, todo, image, target, skipped, goal>>
      BY <1>5 DEF Prune, Goto, run, rewind
    <2>2. RunsStay /\ pc'[r] = "mark" /\ \A w \in Rewinds \ {r} : RewindStays(w)
      BY <1>0, <2>1 DEF RunsStay, RewindStays, TypeOK
    <2>. QED
      BY <2>1, <2>2, QuietRewind
  <1>6. CASE Mark(r)
    <2>1. /\ pc[r] = "mark" /\ Over(r) /\ UNCHANGED <<ws, batch>>
          /\ Append1(NewEvent(Runs, Nothing))
      BY <1>6 DEF Mark, run
    <2>2. RunsStay /\ pc'[r] = "idle" /\ \A w \in Rewinds \ {r} : RewindStays(w)
      BY <1>0, <2>1, OverStays
    <2>3. /\ \A w \in Rewinds : pc'[w] # "restore"
          /\ \A x \in Execs : pc'[x] # "captured"
      BY <2>1, <2>2, Actors DEF RewindInv, LockInv, RunsStay, RewindStays
    <2>4. \A f \in Files :
              /\ LogFits(f)' /\ \A t \in Turns : BatchFits(t, f)'
              /\ \A x \in Execs : f \in todo[x] /\ Latest(log, f, Unsure)
                    => Latest(log', f, Unsure)
      BY <1>0, <2>1, PlainRecord, Actors
    <2>5. ASSUME NEW f \in Files, NEW x \in Execs
          PROVE  ExecFits(x, f)'
      <3>1. ExecFits(x, f) /\ x \in Runs
        BY Actors DEF ExactInv
      <3>. QED
        BY <2>2, <2>3, <2>4, <3>1 DEF ExecFits, Covered, RunsStay
    <2>6. CallInv'
      BY <1>0, <2>1, <2>2, Actors DEF CallInv, RunsStay, Keeps
    <2>. QED
      BY <2>3, <2>4, <2>5, <2>6 DEF ExactInv
  <1>7. CASE RewindStops(r)
    <2>1. Over(r) /\ UNCHANGED <<ws, log, batch>>
      BY <1>7 DEF RewindStops, run
    <2>2. RunsStay /\ pc'[r] = "idle" /\ \A w \in Rewinds \ {r} : RewindStays(w)
      BY <1>0, <2>1, OverStays
    <2>. QED
      BY <2>1, <2>2, QuietRewind
  <1>. QED
    BY <1>1, <1>2, <1>3, <1>4, <1>5, <1>6, <1>7 DEF RewindStep

-----------------------------------------------------------------------------
LEMMA InitExact == Init => ExactInv
  <1>. SUFFICES ASSUME Init
                PROVE  ExactInv
    OBVIOUS
  <1>1. /\ log = <<>> /\ \A t \in Turns : batch[t] = <<>>
        /\ \A a \in Runs \cup Rewinds : pc[a] = "idle" /\ todo[a] = {}
    BY DEF Init
  <1>2. CallInv
    BY <1>1, Actors DEF CallInv
  <1>3. \A f : LogFits(f) /\ \A t \in Turns : BatchFits(t, f)
    BY <1>1 DEF LogFits, BatchFits, Backed, Latest
  <1>4. \A f : \A x \in Execs : ExecFits(x, f)
    BY <1>1, Actors DEF ExecFits, Covered
  <1>5. \A r \in Rewinds : pc[r] # "restore"
    BY <1>1
  <1>. QED
    BY <1>2, <1>3, <1>4, <1>5 DEF ExactInv

LEMMA NextExact == RewindInv /\ ExactInv /\ [Next]_vars => ExactInv'
  <1>. SUFFICES ASSUME RewindInv, ExactInv, [Next]_vars
                PROVE  ExactInv'
    OBVIOUS
  <1>1. ASSUME NEW r \in Runs, Tool(r)
        PROVE  ExactInv'
    BY <1>1, ToolExact
  <1>2. ASSUME NEW x \in Execs, ExecStep(x)
        PROVE  ExactInv'
    BY <1>2, ExecExact
  <1>3. ASSUME NEW t \in Turns, TurnStep(t)
        PROVE  ExactInv'
    BY <1>3, TurnCallExact, CancelExact, FlushExact DEF TurnStep
  <1>4. ASSUME NEW r \in Rewinds, RewindStep(r)
        PROVE  ExactInv'
    BY <1>4, RewindExactStep
  <1>5. CASE KillTui
    BY <1>5, KillTuiExact
  <1>6. CASE ForkStep \/ UNCHANGED vars
    <2>1. UNCHANGED <<ws, log, batch, pc, todo, image, goal, target, skipped>>
      BY <1>6 DEF ForkStep, ForkEvents, ForkList, ForkCopy, ForkReturns, ForkStops,
         vars, store, run, rewind
    <2>. QED
      BY <2>1, QuietRewind DEF RunsStay, RewindStays
  <1>. QED
    BY <1>1, <1>2, <1>3, <1>4, <1>5, <1>6, Zenon DEF Next

\* The log, what the turns have yet to write and the files agree in every
\* reachable state, and a rewind with what it found in them (ApplyRewind).
THEOREM ExactInvariant == Spec => []ExactInv
  <1>. QED
    BY InitExact, NextExact, RewindInvariant, PTL DEF Spec

\* A rewind that is done restoring leaves every file it does not report as
\* skipped as it was when the first of the events it drops was recorded
\* (ApplyRewind).
THEOREM RewindsExact == Spec => []RewindExact
  <1>1. ASSUME RewindInv, ExactInv
        PROVE  RewindExact
    <2>1. ASSUME NEW r \in Rewinds, pc[r] = "restore", todo[r] = {},
                 NEW f \in Files \ skipped[r]
          PROVE  goal[r][f] \in {Unsure, ws[f]}
      <3>1. GoalFits(r, f)
        BY <1>1, <2>1 DEF ExactInv
      <3>2. goal[r][f] \in State \cup {Unsure} /\ None \notin State \cup {Unsure}
        BY <1>1, ContentsAssumption DEF RewindInv, TypeOK, State, None, Unsure, Absent
      <3>3. CASE image[r][f] = None
        BY <3>1, <3>2, <3>3 DEF GoalFits, None, Skipped
      <3>4. CASE image[r][f] # None
        <4>1. f \notin todo[r] \cup skipped[r]
          BY <2>1
        <4>. QED
          BY <3>1, <3>4, <4>1 DEF GoalFits
      <3>. QED
        BY <3>3, <3>4
    <2>. QED
      BY <2>1 DEF RewindExact
  <1>. QED
    BY <1>1, RewindInvariant, ExactInvariant, PTL
=============================================================================
