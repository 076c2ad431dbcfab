------------------------- MODULE SessionLog_proofs -------------------------
(***************************************************************************)
(* Proofs about SessionLog, for any number of callers and events:          *)
(*   MetadataSurvives    under the lock nobody undoes another's metadata;   *)
(*   OnceForAll          record-once is once;                               *)
(*   SequencesAlwaysRise a readable log's sequences rise;                   *)
(*   AcknowledgedStays   what is acknowledged is below the last fsync.      *)
(* The last three rest on invariants about the file alone that any prefix  *)
(* of it inherits, since a prefix is what a crash leaves.                   *)
(***************************************************************************)
EXTENDS SessionLog, SequenceTheorems, FiniteSetTheorems, TLAPS

Domains ==
    /\ DOMAIN pc = Callers /\ DOMAIN call = Callers /\ DOMAIN next = Callers
    /\ DOMAIN batch = Callers
    /\ DOMAIN meta = {"count", "title", "spec"}
    /\ \A c \in Callers : DOMAIN next[c] = {"count", "title", "spec"}
    /\ DOMAIN want = {"title", "spec"}

\* Whoever is past lockSession holds the lock.
LockHeld == \A c \in Callers : pc[c] \notin {"idle", "wait"} => holder = c

\* Which operations reach a place, and how an append is told from the
\* metadata write before it.
Places ==
    \A c \in Callers :
        /\ pc[c] \in {"idle", "wait"} => batch[c] = <<>>
        /\ pc[c] = "wait" => call[c].op \in Ops
        /\ pc[c] = "title" => call[c].op = "title"
        /\ pc[c] = "spec" => call[c].op = "spec" /\ batch[c] = <<>>
        /\ pc[c] \in {"truncate", "recount"} => call[c].op = "truncate"
        /\ pc[c] = "check" => call[c].op = "once"
        /\ pc[c] \in {"append", "write", "sync"} => call[c].op \in {"append", "once", "spec"}
        /\ pc[c] # "idle" /\ call[c].op \in {"append", "once", "spec"} => Len(call[c].ids) \in Nat \ {0}
        /\ pc[c] \in {"write", "sync"} => batch[c] # <<>>
        /\ pc[c] = "meta" => Appended(c) \/ call[c].op \in {"title", "spec", "truncate"}

\* What a caller is about to write to metadata.json.
NextMetadata ==
    \A c \in Callers :
        /\ pc[c] \in {"write", "sync"} => next[c].title = meta.title /\ next[c].spec = meta.spec
        /\ pc[c] = "meta" =>
              /\ next[c].title = IF call[c].op = "title" THEN call[c].title ELSE meta.title
              /\ next[c].spec = IF call[c].op = "spec" /\ ~ Appended(c)
                                THEN call[c].ids[1] ELSE meta.spec

MetadataInv == Domains /\ LockHeld /\ Places /\ NextMetadata /\ MetadataKept

LEMMA InitMetadataInv == Init => MetadataInv
BY DEF Init, MetadataInv, Domains, LockHeld, Places, NextMetadata, MetadataKept, NoMeta, NoCall

LEMMA LockSessionStep ==
    ASSUME MetadataInv, NEW c \in Callers, LockSession(c)  PROVE MetadataInv'
  <1>. USE NoOneAssumption DEF LockSession, Ops, Goto, files, local, ghost
  <1>1. Domains'
    BY DEF MetadataInv, Domains
  <1>2. LockHeld'
    BY DEF MetadataInv, Domains, LockHeld
  <1>3. Places'
    BY DEF MetadataInv, Domains, LockHeld, Places, Appended
  <1>4. NextMetadata' /\ MetadataKept'
    BY DEF MetadataInv, Domains, LockHeld, Places, NextMetadata, MetadataKept, Appended
  <1>. QED
    BY <1>1, <1>2, <1>3, <1>4 DEF MetadataInv

LEMMA UnlockStep ==
    ASSUME MetadataInv, NEW c \in Callers, Unlock(c)  PROVE MetadataInv'
  <1>. USE DEF Unlock, Over, NoMeta, Goto, files, local, ghost
  <1>1. Domains'
    BY DEF MetadataInv, Domains
  <1>2. LockHeld'
    BY DEF MetadataInv, Domains, LockHeld
  <1>3. Places'
    BY DEF MetadataInv, Domains, LockHeld, Places, Appended
  <1>4. NextMetadata' /\ MetadataKept'
    BY DEF MetadataInv, Domains, LockHeld, Places, NextMetadata, MetadataKept, Appended
  <1>. QED
    BY <1>1, <1>2, <1>3, <1>4 DEF MetadataInv

LEMMA CheckExistsStep ==
    ASSUME MetadataInv, NEW c \in Callers, CheckExists(c)  PROVE MetadataInv'
  <1>. USE DEF CheckExists, Goto, files, local, ghost
  <1>1. Domains'
    BY DEF MetadataInv, Domains
  <1>2. LockHeld'
    BY DEF MetadataInv, Domains, LockHeld
  <1>3. Places'
    BY DEF MetadataInv, Domains, LockHeld, Places, Appended
  <1>4. NextMetadata' /\ MetadataKept'
    BY DEF MetadataInv, Domains, LockHeld, Places, NextMetadata, MetadataKept, Appended
  <1>. QED
    BY <1>1, <1>2, <1>3, <1>4 DEF MetadataInv

LEMMA PrepareAppendStep ==
    ASSUME MetadataInv, NEW c \in Callers, PrepareAppend(c)  PROVE MetadataInv'
  <1>. USE DEF PrepareAppend, Goto, files, local, ghost
  <1>1. Domains'
    BY DEF MetadataInv, Domains
  <1>2. LockHeld'
    BY DEF MetadataInv, Domains, LockHeld
  <1>3. batch'[c] # <<>>
    <2>1. Len(call[c].ids) \in Nat \ {0}
      BY DEF MetadataInv, Places
    <2>2. DOMAIN batch'[c] = 1 .. 2 * Len(call[c].ids)
      BY DEF MetadataInv, Domains
    <2>3. 1 \in DOMAIN batch'[c]
      BY <2>1, <2>2
    <2>4. 1 \notin DOMAIN << >>
      OBVIOUS
    <2>. QED
      BY <2>3, <2>4, Zenon
  <1>4. Places'
    BY <1>3 DEF MetadataInv, Domains, LockHeld, Places, Appended
  <1>5. NextMetadata' /\ MetadataKept'
    BY DEF MetadataInv, Domains, LockHeld, Places, NextMetadata, MetadataKept, Appended
  <1>. QED
    BY <1>1, <1>2, <1>4, <1>5 DEF MetadataInv

LEMMA WritePartStep ==
    ASSUME MetadataInv, NEW c \in Callers, WritePart(c)  PROVE MetadataInv'
  <1>. USE DEF WritePart, Goto, files, local, ghost
  <1>1. Domains'
    BY DEF MetadataInv, Domains
  <1>2. LockHeld'
    BY DEF MetadataInv, Domains, LockHeld
  <1>3. Places'
    BY DEF MetadataInv, Domains, LockHeld, Places, Appended
  <1>4. NextMetadata' /\ MetadataKept'
    BY DEF MetadataInv, Domains, LockHeld, Places, NextMetadata, MetadataKept, Appended
  <1>. QED
    BY <1>1, <1>2, <1>3, <1>4 DEF MetadataInv

LEMMA WriteStep ==
    ASSUME MetadataInv, NEW c \in Callers, Write(c)  PROVE MetadataInv'
  <1>. USE DEF Write, Goto, files, local, ghost
  <1>1. Domains'
    BY DEF MetadataInv, Domains
  <1>2. LockHeld'
    BY DEF MetadataInv, Domains, LockHeld
  <1>3. Places'
    BY DEF MetadataInv, Domains, LockHeld, Places, Appended
  <1>4. NextMetadata' /\ MetadataKept'
    BY DEF MetadataInv, Domains, LockHeld, Places, NextMetadata, MetadataKept, Appended
  <1>. QED
    BY <1>1, <1>2, <1>3, <1>4 DEF MetadataInv

LEMMA SyncStep ==
    ASSUME MetadataInv, NEW c \in Callers, Sync(c)  PROVE MetadataInv'
  <1>. USE DEF Sync, Goto, files, local, ghost
  <1>1. Domains'
    BY DEF MetadataInv, Domains
  <1>2. LockHeld'
    BY DEF MetadataInv, Domains, LockHeld
  <1>3. Places'
    BY DEF MetadataInv, Domains, LockHeld, Places, Appended
  <1>4. NextMetadata' /\ MetadataKept'
    BY DEF MetadataInv, Domains, LockHeld, Places, NextMetadata, MetadataKept, Appended
  <1>. QED
    BY <1>1, <1>2, <1>3, <1>4 DEF MetadataInv

LEMMA PrepareTitleStep ==
    ASSUME MetadataInv, NEW c \in Callers, PrepareTitle(c)  PROVE MetadataInv'
  <1>. USE DEF PrepareTitle, Goto, files, local, ghost
  <1>1. Domains'
    BY DEF MetadataInv, Domains
  <1>2. LockHeld'
    BY DEF MetadataInv, Domains, LockHeld
  <1>3. Places'
    BY DEF MetadataInv, Domains, LockHeld, Places, Appended
  <1>4. NextMetadata' /\ MetadataKept'
    BY DEF MetadataInv, Domains, LockHeld, Places, NextMetadata, MetadataKept, Appended
  <1>. QED
    BY <1>1, <1>2, <1>3, <1>4 DEF MetadataInv

LEMMA PrepareSpecStep ==
    ASSUME MetadataInv, NEW c \in Callers, PrepareSpec(c)  PROVE MetadataInv'
  <1>. USE DEF PrepareSpec, Goto, files, local, ghost
  <1>1. Domains'
    BY DEF MetadataInv, Domains
  <1>2. LockHeld'
    BY DEF MetadataInv, Domains, LockHeld
  <1>3. Places'
    BY DEF MetadataInv, Domains, LockHeld, Places, Appended
  <1>4. NextMetadata' /\ MetadataKept'
    BY DEF MetadataInv, Domains, LockHeld, Places, NextMetadata, MetadataKept, Appended
  <1>. QED
    BY <1>1, <1>2, <1>3, <1>4 DEF MetadataInv

LEMMA WriteMetadataStep ==
    ASSUME MetadataInv, NEW c \in Callers, WriteMetadata(c)  PROVE MetadataInv'
  <1>. USE DEF WriteMetadata, Replace, Goto, files, local, ghost
  <1>1. Domains'
    BY DEF MetadataInv, Domains
  <1>2. LockHeld'
    BY DEF MetadataInv, Domains, LockHeld
  <1>3. Places'
    BY DEF MetadataInv, Domains, LockHeld, Places, Appended
  <1>4. NextMetadata' /\ MetadataKept'
    BY DEF MetadataInv, Domains, LockHeld, Places, NextMetadata, MetadataKept, Appended
  <1>. QED
    BY <1>1, <1>2, <1>3, <1>4 DEF MetadataInv

LEMMA TruncateStep ==
    ASSUME MetadataInv, NEW c \in Callers, Truncate(c)  PROVE MetadataInv'
  <1>. USE DEF Truncate, Goto, files, local, ghost
  <1>1. Domains'
    BY DEF MetadataInv, Domains
  <1>2. LockHeld'
    BY DEF MetadataInv, Domains, LockHeld
  <1>3. Places'
    BY DEF MetadataInv, Domains, LockHeld, Places, Appended
  <1>4. NextMetadata' /\ MetadataKept'
    BY DEF MetadataInv, Domains, LockHeld, Places, NextMetadata, MetadataKept, Appended
  <1>. QED
    BY <1>1, <1>2, <1>3, <1>4 DEF MetadataInv

LEMMA RecountStep ==
    ASSUME MetadataInv, NEW c \in Callers, Recount(c)  PROVE MetadataInv'
  <1>. USE DEF Recount, Goto, files, local, ghost
  <1>1. Domains'
    BY DEF MetadataInv, Domains
  <1>2. LockHeld'
    BY DEF MetadataInv, Domains, LockHeld
  <1>3. Places'
    BY DEF MetadataInv, Domains, LockHeld, Places, Appended
  <1>4. NextMetadata' /\ MetadataKept'
    BY DEF MetadataInv, Domains, LockHeld, Places, NextMetadata, MetadataKept, Appended
  <1>. QED
    BY <1>1, <1>2, <1>3, <1>4 DEF MetadataInv

LEMMA FailStep ==
    ASSUME MetadataInv, NEW c \in Callers, Fail(c)  PROVE MetadataInv'
  <1>. USE DEF Fail, Goto, files, local, ghost
  <1>1. Domains'
    BY DEF MetadataInv, Domains
  <1>2. LockHeld'
    BY DEF MetadataInv, Domains, LockHeld
  <1>3. Places'
    BY DEF MetadataInv, Domains, LockHeld, Places, Appended
  <1>4. NextMetadata' /\ MetadataKept'
    BY DEF MetadataInv, Domains, LockHeld, Places, NextMetadata, MetadataKept, Appended
  <1>. QED
    BY <1>1, <1>2, <1>3, <1>4 DEF MetadataInv

LEMMA FailLateStep ==
    ASSUME MetadataInv, NEW c \in Callers, FailLate(c)  PROVE MetadataInv'
  <1>. USE DEF FailLate, Replace, Goto, files, local, ghost
  <1>1. Domains'
    BY DEF MetadataInv, Domains
  <1>2. LockHeld'
    BY DEF MetadataInv, Domains, LockHeld
  <1>3. Places'
    BY DEF MetadataInv, Domains, LockHeld, Places, Appended
  <1>4. NextMetadata' /\ MetadataKept'
    BY DEF MetadataInv, Domains, LockHeld, Places, NextMetadata, MetadataKept, Appended
  <1>. QED
    BY <1>1, <1>2, <1>3, <1>4 DEF MetadataInv

LEMMA KillStep ==
    ASSUME MetadataInv, NEW c \in Callers, Kill(c)  PROVE MetadataInv'
  <1>. USE DEF Kill, Over, NoMeta, Goto, files, local, ghost
  <1>1. Domains'
    BY DEF MetadataInv, Domains
  <1>2. LockHeld'
    BY DEF MetadataInv, Domains, LockHeld
  <1>3. Places'
    BY DEF MetadataInv, Domains, LockHeld, Places, Appended
  <1>4. NextMetadata' /\ MetadataKept'
    BY DEF MetadataInv, Domains, LockHeld, Places, NextMetadata, MetadataKept, Appended
  <1>. QED
    BY <1>1, <1>2, <1>3, <1>4 DEF MetadataInv

LEMMA BeginStep ==
    ASSUME MetadataInv, NEW c \in Callers, Begin(c)  PROVE MetadataInv'
  <1>1. ASSUME NEW op \in Ops, NEW n \in Nat, NEW title, NEW keep, Ask(c, op, n, title, keep), n > 0
        PROVE  MetadataInv'
    <2>. USE <1>1 DEF Ask, Goto, files, local
    <2>1. Domains' /\ LockHeld'
      BY DEF MetadataInv, Domains, LockHeld
    <2>2. Places'
      BY DEF MetadataInv, Domains, LockHeld, Places, Appended
    <2>3. NextMetadata' /\ MetadataKept'
      BY DEF MetadataInv, Domains, LockHeld, Places, NextMetadata, MetadataKept, Appended
    <2>. QED
      BY <2>1, <2>2, <2>3 DEF MetadataInv
  <1>2. CASE AppendEvents(c)
    BY <1>1, <1>2, BatchAssumption DEF AppendEvents, Ops
  <1>3. CASE AppendEventUnlessExists(c) \/ RecordSpec(c) \/ UpdateTitle(c) \/ TruncateEvents(c)
    BY <1>1, <1>3 DEF AppendEventUnlessExists, RecordSpec, UpdateTitle, TruncateEvents, Ops
  <1>. QED
    BY <1>2, <1>3 DEF Begin

LEMMA PowerLossStep ==
    ASSUME MetadataInv, PowerLoss  PROVE MetadataInv'
BY DEF PowerLoss, Over, NoMeta, ghost, MetadataInv, Domains, LockHeld, Places, NextMetadata,
   MetadataKept

LEMMA NextMetadataInv == MetadataInv /\ [Next]_vars => MetadataInv'
  <1>. SUFFICES ASSUME MetadataInv, [Next]_vars  PROVE MetadataInv'
    OBVIOUS
  <1>1. CASE UNCHANGED vars
    BY <1>1 DEF vars, files, local, ghost, MetadataInv, Domains, LockHeld, Places, NextMetadata,
       MetadataKept, Appended
  <1>2. ASSUME NEW c \in Callers, Step(c)  PROVE MetadataInv'
    BY <1>2, CheckExistsStep, PrepareAppendStep, WritePartStep, WriteStep, SyncStep,
       PrepareTitleStep, PrepareSpecStep, WriteMetadataStep, TruncateStep, RecountStep,
       FailStep, FailLateStep, UnlockStep DEF Step
  <1>3. ASSUME NEW c \in Callers, Begin(c) \/ LockSession(c) \/ Kill(c)  PROVE MetadataInv'
    BY <1>3, BeginStep, LockSessionStep, KillStep
  <1>. QED
    BY <1>1, <1>2, <1>3, PowerLossStep DEF Next

\* A title or spec recorded in the metadata stays until the next one, whatever
\* appends, rewinds, errors and crashes there are in between (UpdateTitle:
\* "a concurrent append can't clobber the new title").
THEOREM MetadataSurvives == Spec => []MetadataKept
  <1>1. MetadataInv => MetadataKept
    BY DEF MetadataInv
  <1>. QED
    BY <1>1, InitMetadataInv, NextMetadataInv, PTL DEF Spec
-----------------------------------------------------------------------------
(* RecordedOnce.  What makes it inductive is a fact about the file alone that *)
(* any prefix of it inherits: of two record-once events the earlier one never *)
(* ends its line.  A caller appends the second only when no earlier one is    *)
(* followed by a newline, and by then the first one's line goes on.           *)

IsSeq(s) == \E T : s \in Seq(T)

Once(s, i) == s[i].kind = "once"

Alone(s) == \A i, j \in 1 .. Len(s) : i < j /\ Once(s, i) /\ Once(s, j) => s[i + 1] # Newline

\* No record-once event ends its line within the first n pieces.
NoneEnds(s, n) == \A i \in 1 .. n : i < n /\ Once(s, i) => s[i + 1] # Newline

\* The pieces of one append: they begin with an event, and only the batch of a
\* record-once call has a record-once event, its first piece.
BatchOf(s, op) ==
    /\ s # <<>> => s[1].kind # "newline"
    /\ \A j \in 1 .. Len(s) : Once(s, j) => j = 1 /\ op = "once"

OnceInv ==
    /\ IsSeq(file) /\ Alone(file) /\ synced \in Nat
    /\ DOMAIN base = Callers
    /\ \A c \in Callers :
        /\ pc[c] # "idle" /\ call[c].op = "once" => Len(call[c].ids) = 1
        /\ pc[c] = "append" /\ call[c].op = "once" => NoneEnds(file, Len(file))
        /\ pc[c] = "write" =>
              /\ base[c] \in 0 .. Len(file)
              /\ IsSeq(batch[c]) /\ BatchOf(batch[c], call[c].op)
              /\ call[c].op = "once" => NoneEnds(file, base[c])

LEMMA Prefix ==
    ASSUME NEW s, IsSeq(s), NEW k \in 0 .. Len(s)
    PROVE  /\ IsSeq(SubSeq(s, 1, k)) /\ Len(SubSeq(s, 1, k)) = k
           /\ \A i \in 1 .. k : SubSeq(s, 1, k)[i] = s[i]
  <1>1. PICK T : s \in Seq(T)
    BY DEF IsSeq
  <1>2. Len(s) \in Nat /\ \A i \in 1 .. k : s[i] \in T
    BY <1>1, ElementOfSeq, LenProperties
  <1>3. /\ SubSeq(s, 1, k) \in Seq(T)
        /\ Len(SubSeq(s, 1, k)) = IF 1 <= k THEN k - 1 + 1 ELSE 0
        /\ \A i \in 1 .. k - 1 + 1 : SubSeq(s, 1, k)[i] = s[1 + i - 1]
    BY <1>2, SubSeqProperties
  <1>4. IsSeq(SubSeq(s, 1, k))
    BY <1>3 DEF IsSeq
  <1>. QED
    BY <1>2, <1>3, <1>4

\* A function on 1 .. n is a sequence of length n.
LEMMA MadeSeq ==
    ASSUME NEW n \in Nat, NEW g, g = [j \in 1 .. n |-> g[j]]
    PROVE  IsSeq(g) /\ Len(g) = n
  <1>. DEFINE T == {g[j] : j \in 1 .. n}
  <1>1. g \in [1 .. n -> T]
    OBVIOUS
  <1>. HIDE DEF T
  <1>2. g \in Seq(T) /\ Len(g) = n
    BY <1>1
  <1>. QED
    BY <1>2 DEF IsSeq

LEMMA Joined ==
    ASSUME NEW s, NEW t, IsSeq(s), IsSeq(t)
    PROVE  /\ IsSeq(s \o t) /\ Len(s \o t) = Len(s) + Len(t)
           /\ Len(s) \in Nat /\ Len(t) \in Nat
           /\ \A i \in 1 .. Len(s) : (s \o t)[i] = s[i]
           /\ \A i \in 1 .. Len(t) : (s \o t)[Len(s) + i] = t[i]
  <1>1. PICK S : s \in Seq(S)
    BY DEF IsSeq
  <1>2. PICK T : t \in Seq(T)
    BY DEF IsSeq
  <1>3. s \in Seq(S \cup T) /\ t \in Seq(S \cup T)
    BY <1>1, <1>2, SeqMonotonic, S \subseteq S \cup T, T \subseteq S \cup T
  <1>. QED
    BY <1>3, ConcatProperties DEF IsSeq

\* What a cut leaves is a prefix, at most followed by a fragment.
LEMMA CutLeaves ==
    ASSUME NEW s, IsSeq(s), NEW k \in 0 .. Len(s), NEW cut \in Cuts(s, k)
    PROVE  /\ IsSeq(cut) /\ Len(cut) \in Nat
           /\ \A i \in 1 .. Len(cut) : (i \in 1 .. k /\ cut[i] = s[i]) \/ cut[i] = Fragment
           /\ s = <<>> => cut = <<>>
           /\ \A i \in 1 .. Len(cut) : i \in 1 .. Len(s)
  <1>. DEFINE p == SubSeq(s, 1, k)
  <1>1. IsSeq(p) /\ Len(p) = k /\ (\A i \in 1 .. k : p[i] = s[i]) /\ Len(s) \in Nat
    <2>1. Len(s) \in Nat
      BY LenProperties DEF IsSeq
    <2>. QED
      BY Prefix, <2>1
  <1>. HIDE DEF p
  <1>2. CASE cut = p
    <2>1. s = <<>> => p = <<>>
      BY <1>1 DEF IsSeq
    <2>. QED
      BY <1>1, <1>2, <2>1
  <1>3. CASE k < Len(s) /\ cut = Append(p, Fragment)
    <2>1. PICK T : p \in Seq(T)
      BY <1>1 DEF IsSeq
    <2>2. p \in Seq(T \cup {Fragment})
      BY <2>1, SeqMonotonic, T \subseteq T \cup {Fragment}
    <2>3. cut \in Seq(T \cup {Fragment}) /\ Len(cut) = k + 1
          /\ \A i \in 1 .. k + 1 : cut[i] = IF i <= k THEN p[i] ELSE Fragment
      BY <1>1, <1>3, <2>2, AppendProperties
    <2>4. s # <<>>
      BY <1>1, <1>3
    <2>. QED
      BY <1>1, <1>3, <2>3, <2>4 DEF IsSeq
  <1>. QED
    BY <1>2, <1>3 DEF Cuts, p

LEMMA CutAlone ==
    ASSUME NEW s, IsSeq(s), Alone(s), NEW k \in 0 .. Len(s), NEW cut \in Cuts(s, k)
    PROVE  IsSeq(cut) /\ Alone(cut) /\ Len(cut) \in Nat
  <1>1. /\ IsSeq(cut) /\ Len(cut) \in Nat /\ Len(s) \in Nat
        /\ \A i \in 1 .. Len(cut) : (i \in 1 .. k /\ cut[i] = s[i]) \/ cut[i] = Fragment
    BY CutLeaves DEF IsSeq
  <1>2. ASSUME NEW i \in 1 .. Len(cut), NEW j \in 1 .. Len(cut), i < j, Once(cut, i), Once(cut, j)
        PROVE  cut[i + 1] # Newline
    <2>1. j \in 1 .. k /\ cut[j] = s[j] /\ cut[i] = s[i]
      BY <1>1, <1>2 DEF Once, Fragment
    <2>2. i \in 1 .. Len(s) /\ j \in 1 .. Len(s) /\ i + 1 \in 1 .. Len(cut)
      BY <1>1, <1>2, <2>1
    <2>3. s[i + 1] # Newline
      BY <1>2, <2>1, <2>2 DEF Alone, Once
    <2>. QED
      BY <1>1, <2>2, <2>3 DEF Fragment, Newline
  <1>. QED
    BY <1>1, <1>2 DEF Alone

\* Appending (part of) a batch.
LEMMA AppendAlone ==
    ASSUME NEW s, NEW t, IsSeq(s), IsSeq(t), Alone(s), NEW op, BatchOf(t, op),
           op = "once" => NoneEnds(s, Len(s))
    PROVE  Alone(s \o t)
  <1>. DEFINE u == s \o t
  <1>1. /\ Len(u) = Len(s) + Len(t) /\ Len(s) \in Nat /\ Len(t) \in Nat
        /\ \A i \in 1 .. Len(s) : u[i] = s[i]
        /\ \A i \in 1 .. Len(t) : u[Len(s) + i] = t[i]
    BY Joined
  <1>. HIDE DEF u
  <1>2. ASSUME NEW i \in 1 .. Len(u), NEW j \in 1 .. Len(u), i < j, Once(u, i), Once(u, j)
        PROVE  u[i + 1] # Newline
    <2>1. CASE j <= Len(s)
      <3>1. i \in 1 .. Len(s) /\ j \in 1 .. Len(s) /\ i + 1 \in 1 .. Len(s)
        BY <1>1, <1>2, <2>1
      <3>. QED
        BY <1>1, <1>2, <3>1 DEF Alone, Once
    <2>2. CASE j > Len(s)
      <3>1. j - Len(s) \in 1 .. Len(t) /\ u[j] = t[j - Len(s)]
        BY <1>1, <2>2, j = Len(s) + (j - Len(s))
      <3>2. j - Len(s) = 1 /\ op = "once"
        BY <1>2, <3>1 DEF BatchOf, Once
      <3>3. i \in 1 .. Len(s) /\ u[i] = s[i]
        BY <1>1, <1>2, <3>2
      <3>4. CASE i < Len(s)
        BY <1>1, <1>2, <3>2, <3>3, <3>4 DEF NoneEnds, Once
      <3>5. CASE i = Len(s)
        BY <1>2, <3>2, <3>5 DEF Once, Newline
      <3>. QED
        BY <1>1, <3>3, <3>4, <3>5
    <2>. QED
      BY <1>1, <2>1, <2>2
  <1>. QED
    BY <1>2 DEF Alone, u

\* A record-once event that ReadEvents returns ends its line, unless it is last.
LEMMA OneRead ==
    ASSUME IsSeq(file), Alone(file), NEW i \in Read, NEW j \in Read,
           Once(file, i), Once(file, j)
    PROVE  i = j
  <1>1. DOMAIN file = 1 .. Len(file) /\ Len(file) \in Nat
    BY LenProperties DEF IsSeq
  <1>2. ASSUME NEW p \in Read, NEW q \in Read, p < q, Once(file, p), Once(file, q)  PROVE FALSE
    <2>1. p \in 1 .. Len(file) /\ q \in 1 .. Len(file) /\ p # Len(file)
      BY <1>1, <1>2 DEF Read
    <2>2. file[p + 1] = Newline
      BY <1>2, <2>1 DEF Read, Whole
    <2>. QED
      BY <1>2, <2>1, <2>2 DEF Alone
  <1>3. i \in 1 .. Len(file) /\ j \in 1 .. Len(file)
    BY <1>1 DEF Read
  <1>. QED
    BY <1>1, <1>2, <1>3

\* In a finite set of numbers no two have the same rank.
LEMMA RankUnique ==
    ASSUME NEW S \in SUBSET Nat, IsFiniteSet(S), NEW i \in S, NEW k \in S,
           Cardinality({j \in S : j <= i}) = Cardinality({j \in S : j <= k})
    PROVE  i = k
  <1>. DEFINE below(x) == {j \in S : j <= x}
  <1>1. \A x \in S : IsFiniteSet(below(x))
    BY FS_Subset
  <1>2. ASSUME NEW x \in S, NEW y \in S, x < y  PROVE Cardinality(below(x)) # Cardinality(below(y))
    <2>1. x \in Nat /\ y \in Nat /\ \A j \in S : j \in Nat
      OBVIOUS
    <2>2. \A j \in S : j <= x => j <= y
      BY <1>2, <2>1
    <2>3. y <= y /\ ~(y <= x)
      BY <1>2, <2>1
    <2>4. below(x) \subseteq below(y) /\ y \in below(y) /\ y \notin below(x)
      BY <2>2, <2>3
    <2>. QED
      BY <1>1, <2>4, FS_Subset
  <1>. QED
    BY <1>2

\* In a finite set of numbers every rank up to its size is somebody's.
LEMMA Ranked ==
    ASSUME NEW S \in SUBSET Nat, IsFiniteSet(S), NEW n \in 1 .. Cardinality(S)
    PROVE  \E i \in S : Cardinality({j \in S : j <= i}) = n
  <1>. DEFINE below(i) == {j \in S : j <= i}
              rank == [i \in S |-> Cardinality(below(i))]
              N == Cardinality(S)
  <1>1. N \in Nat /\ \A i \in S : IsFiniteSet(below(i)) /\ Cardinality(below(i)) <= N
    BY FS_CardinalityType, FS_Subset
  <1>2. \A i \in S : rank[i] \in 1 .. N
    <2>. SUFFICES ASSUME NEW i \in S  PROVE rank[i] \in 1 .. N
      OBVIOUS
    <2>1. Cardinality(below(i)) \in Nat
      BY <1>1, FS_CardinalityType
    <2>2. i \in below(i)
      OBVIOUS
    <2>3. Cardinality(below(i)) # 0
      BY <1>1, <2>2, FS_EmptySet
    <2>. QED
      BY <1>1, <2>1, <2>3
  <1>4. \A i, k \in S : rank[i] = rank[k] => i = k
    BY RankUnique
  <1>5. rank \in Injection(S, 1 .. N)
    BY <1>2, <1>4 DEF Injection, IsInjective
  <1>6. IsFiniteSet(1 .. N) /\ Cardinality(1 .. N) = N
    BY <1>1, FS_Interval
  <1>7. rank \in Surjection(S, 1 .. N)
    BY <1>5, <1>6, FS_Injection
  <1>8. \E i \in S : rank[i] = n
    BY <1>7 DEF Surjection
  <1>. QED
    BY <1>8

\* What a rewind keeps: at the odd places events that ReadEvents returns, in
\* their order, each followed by a newline.
LEMMA KeptShape ==
    ASSUME IsSeq(file), NEW keep
    PROVE  LET f == Kept(keep) IN
           /\ IsSeq(f) /\ Len(f) \in Nat
           /\ \A j \in 1 .. Len(f) : j % 2 # 1 => f[j] = Newline /\ j - 1 \in 1 .. Len(f) /\ (j - 1) % 2 = 1
           /\ \E h :
                /\ \A j \in 1 .. Len(f) : j % 2 = 1 => h[j] \in Read /\ f[j] = file[h[j]]
                /\ \A i, j \in 1 .. Len(f) : i % 2 = 1 /\ j % 2 = 1 /\ i < j => h[i] < h[j]
           /\ \A i \in Read : file[i].seq <= keep =>
                  \E j \in 1 .. Len(f) : j < Len(f) /\ f[j] = file[i] /\ f[j + 1] = Newline
  <1>. DEFINE places == {i \in Read : file[i].seq <= keep}
              N == Cardinality(places)
              below(i) == {j \in places : j <= i}
              nth(n) == CHOOSE i \in places : Cardinality(below(i)) = n
              f == [j \in 1 .. 2 * N |-> IF j % 2 = 1 THEN file[nth((j + 1) \div 2)] ELSE Newline]
  <1>1. Kept(keep) = f
    BY DEF Kept
  <1>2. places \in SUBSET Nat /\ IsFiniteSet(places) /\ N \in Nat
    <2>1. DOMAIN file = 1 .. Len(file) /\ Len(file) \in Nat
      BY LenProperties DEF IsSeq
    <2>2. places \subseteq 1 .. Len(file)
      BY <2>1 DEF Read
    <2>3. IsFiniteSet(1 .. Len(file))
      BY <2>1, FS_Interval
    <2>4. IsFiniteSet(places)
      BY <2>2, <2>3, FS_Subset
    <2>5. N \in Nat
      BY <2>4, FS_CardinalityType
    <2>6. places \subseteq Nat
      BY <2>1, <2>2
    <2>. QED
      BY <2>4, <2>5, <2>6
  <1>3. \A n \in 1 .. N : nth(n) \in places /\ Cardinality(below(nth(n))) = n
    BY <1>2, Ranked
  <1>. HIDE DEF nth
  <1>4. \A n, m \in 1 .. N : n < m => nth(n) < nth(m)
    <2>. SUFFICES ASSUME NEW n \in 1 .. N, NEW m \in 1 .. N, n < m, ~(nth(n) < nth(m))
                  PROVE  FALSE
      OBVIOUS
    <2>1. nth(n) \in Nat /\ nth(m) \in Nat /\ \A j \in places : j \in Nat
      BY <1>2, <1>3
    <2>2. \A j \in places : j <= nth(m) => j <= nth(n)
      BY <2>1
    <2>3. below(nth(m)) \subseteq below(nth(n))
      BY <2>2
    <2>4. IsFiniteSet(below(nth(n)))
      BY <1>2, FS_Subset
    <2>5. Cardinality(below(nth(m))) <= Cardinality(below(nth(n)))
      BY <2>3, <2>4, FS_Subset
    <2>. QED
      BY <1>3, <2>5
  <1>5. IsSeq(f) /\ Len(f) = 2 * N
    <2>1. 2 * N \in Nat
      BY <1>2
    <2>2. f = [j \in 1 .. 2 * N |-> f[j]]
      OBVIOUS
    <2>. HIDE DEF f, N
    <2>. QED
      BY <2>1, <2>2, MadeSeq
  <1>6. \A j \in 1 .. 2 * N :
            j % 2 # 1 => f[j] = Newline /\ j - 1 \in 1 .. 2 * N /\ (j - 1) % 2 = 1
    <2>1. \A j \in 1 .. 2 * N : j % 2 # 1 => j - 1 \in 1 .. 2 * N /\ (j - 1) % 2 = 1
      BY <1>2
    <2>. QED
      BY <2>1
  <1>7. \E h :
            /\ \A j \in 1 .. 2 * N : j % 2 = 1 => h[j] \in Read /\ f[j] = file[h[j]]
            /\ \A i, j \in 1 .. 2 * N : i % 2 = 1 /\ j % 2 = 1 /\ i < j => h[i] < h[j]
    <2>. DEFINE h == [j \in 1 .. 2 * N |-> nth((j + 1) \div 2)]
    <2>1. ASSUME NEW j \in 1 .. 2 * N, j % 2 = 1  PROVE h[j] \in Read /\ f[j] = file[h[j]]
      <3>1. (j + 1) \div 2 \in 1 .. N
        BY <1>2, <2>1
      <3>2. nth((j + 1) \div 2) \in places
        BY <1>3, <3>1
      <3>. QED
        BY <2>1, <3>2
    <2>2. ASSUME NEW i \in 1 .. 2 * N, NEW j \in 1 .. 2 * N, i % 2 = 1, j % 2 = 1, i < j
          PROVE  h[i] < h[j]
      <3>. DEFINE a == (i + 1) \div 2
                  b == (j + 1) \div 2
      <3>1. a \in 1 .. N /\ b \in 1 .. N /\ a < b
        BY <1>2, <2>2
      <3>2. nth(a) < nth(b)
        BY <1>4, <3>1
      <3>. QED
        BY <3>2
    <2>. HIDE DEF h
    <2>. QED
      BY <2>1, <2>2
  <1>kept. ASSUME NEW i \in Read, file[i].seq <= keep
           PROVE  \E j \in 1 .. 2 * N : j < 2 * N /\ f[j] = file[i] /\ f[j + 1] = Newline
    <2>. DEFINE n == Cardinality(below(i))
                j == 2 * n - 1
    <2>1. i \in places /\ i \in below(i) /\ IsFiniteSet(below(i)) /\ n \in Nat /\ n <= N /\ n # 0
      <3>1. i \in places /\ i \in Nat
        BY <1>2, <1>kept
      <3>2. i \in below(i)
        BY <3>1
      <3>3. IsFiniteSet(below(i)) /\ n <= N
        BY <1>2, FS_Subset
      <3>. QED
        BY <3>1, <3>2, <3>3, FS_CardinalityType, FS_EmptySet
    <2>2. n \in 1 .. N
      BY <1>2, <2>1
    <2>3. nth(n) \in places /\ Cardinality(below(nth(n))) = n
      BY <1>3, <2>2
    <2>4. nth(n) = i
      BY <1>2, <2>1, <2>3, RankUnique
    <2>. HIDE DEF n, N
    <2>5. /\ j \in 1 .. 2 * N /\ j % 2 = 1 /\ (j + 1) \div 2 = n /\ j < 2 * N
          /\ j + 1 \in 1 .. 2 * N /\ (j + 1) % 2 # 1
      BY <1>2, <2>2 DEF N
    <2>6. f[j] = file[nth(n)] /\ f[j + 1] = Newline
      BY <2>5
    <2>. QED
      BY <2>4, <2>5, <2>6
  <1>. DEFINE Shape(g) ==
           /\ IsSeq(g) /\ Len(g) \in Nat
           /\ \A j \in 1 .. Len(g) : j % 2 # 1 => g[j] = Newline /\ j - 1 \in 1 .. Len(g) /\ (j - 1) % 2 = 1
           /\ \E h :
                /\ \A j \in 1 .. Len(g) : j % 2 = 1 => h[j] \in Read /\ g[j] = file[h[j]]
                /\ \A i, j \in 1 .. Len(g) : i % 2 = 1 /\ j % 2 = 1 /\ i < j => h[i] < h[j]
           /\ \A i \in Read : file[i].seq <= keep =>
                  \E j \in 1 .. Len(g) : j < Len(g) /\ g[j] = file[i] /\ g[j + 1] = Newline
  <1>. HIDE DEF f
  <1>8. 2 * N \in Nat
    BY <1>2
  <1>. HIDE DEF N
  <1>9. Shape(f)
    <2>1. Len(f) = 2 * N /\ Len(f) \in Nat
      BY <1>5, <1>8
    <2>2. /\ IsSeq(f)
          /\ \A j \in 1 .. Len(f) : j % 2 # 1 => f[j] = Newline /\ j - 1 \in 1 .. Len(f) /\ (j - 1) % 2 = 1
      BY <1>5, <1>6, <2>1
    <2>3. \E h :
            /\ \A j \in 1 .. Len(f) : j % 2 = 1 => h[j] \in Read /\ f[j] = file[h[j]]
            /\ \A i, j \in 1 .. Len(f) : i % 2 = 1 /\ j % 2 = 1 /\ i < j => h[i] < h[j]
      BY <1>7, <2>1
    <2>4. \A i \in Read : file[i].seq <= keep =>
              \E j \in 1 .. Len(f) : j < Len(f) /\ f[j] = file[i] /\ f[j + 1] = Newline
      BY <1>kept, <2>1
    <2>. QED
      BY <2>1, <2>2, <2>3, <2>4
  <1>. HIDE DEF Shape
  <1>10. Shape(Kept(keep))
    BY <1>1, <1>9
  <1>. QED
    BY <1>10 DEF Shape

\* A rewind keeps each event it returns once.
LEMMA KeptAlone ==
    ASSUME IsSeq(file), Alone(file), NEW keep
    PROVE  IsSeq(Kept(keep)) /\ Alone(Kept(keep)) /\ Len(Kept(keep)) \in Nat
  <1>. DEFINE f == Kept(keep)
  <1>1. /\ IsSeq(f) /\ Len(f) \in Nat
        /\ \A j \in 1 .. Len(f) : j % 2 # 1 => f[j] = Newline
    BY KeptShape
  <1>2. PICK h : /\ \A j \in 1 .. Len(f) : j % 2 = 1 => h[j] \in Read /\ f[j] = file[h[j]]
                 /\ \A i, j \in 1 .. Len(f) : i % 2 = 1 /\ j % 2 = 1 /\ i < j => h[i] < h[j]
    BY KeptShape
  <1>. HIDE DEF f
  <1>3. ASSUME NEW i \in 1 .. Len(f), NEW j \in 1 .. Len(f), i < j, Once(f, i), Once(f, j)
        PROVE  FALSE
    <2>1. i % 2 = 1 /\ j % 2 = 1
      BY <1>1, <1>3 DEF Once, Newline
    <2>2. h[i] \in Read /\ h[j] \in Read /\ Once(file, h[i]) /\ Once(file, h[j]) /\ h[i] < h[j]
      BY <1>2, <1>3, <2>1 DEF Once
    <2>3. h[i] = h[j]
      BY <2>2, OneRead
    <2>4. h[i] \in Nat
      <3>1. DOMAIN file = 1 .. Len(file) /\ Len(file) \in Nat
        BY LenProperties DEF IsSeq
      <3>. QED
        BY <2>2, <3>1 DEF Read
    <2>. QED
      BY <2>2, <2>3, <2>4
  <1>4. Alone(f)
    BY <1>3 DEF Alone
  <1>. QED
    BY <1>1, <1>4 DEF f

LEMMA InitOnceInv == Init => OnceInv
  <1>1. << >> \in Seq({})
    OBVIOUS
  <1>2. Len(<< >>) = 0
    OBVIOUS
  <1>. QED
    BY <1>1, <1>2 DEF Init, OnceInv, IsSeq, Alone

\* Nothing the invariant is about changes but the place of one caller, which
\* comes to neither of the two places it speaks of.
LEMMA OnceQuiet ==
    ASSUME MetadataInv, OnceInv, NEW c \in Callers, UNCHANGED <<file, call, batch, base>>,
           synced' \in Nat, NEW place, Goto(c, place), pc[c] # "idle",
           place \notin {"append", "write"} \/ (place = "append" /\ call[c].op # "once")
    PROVE  OnceInv'
BY DEF OnceInv, Goto, MetadataInv, Domains, NoneEnds, BatchOf, Once

\* So it is when the calls of some callers are over, whatever prefix or cut
\* of the log they leave.
LEMMA OnceOver ==
    ASSUME MetadataInv, OnceInv, NEW those \in SUBSET Callers, Over(those),
           IsSeq(file'), Alone(file)', synced' \in Nat,
           those = Callers \/ UNCHANGED file
    PROVE  OnceInv'
  <1>1. DOMAIN base' = Callers
    BY DEF Over
  <1>2. ASSUME NEW d \in Callers
        PROVE  /\ pc'[d] # "idle" /\ call'[d].op = "once" => Len(call'[d].ids) = 1
               /\ pc'[d] = "append" /\ call'[d].op = "once" => NoneEnds(file', Len(file'))
               /\ pc'[d] = "write" =>
                    /\ base'[d] \in 0 .. Len(file')
                    /\ IsSeq(batch'[d]) /\ BatchOf(batch'[d], call'[d].op)
                    /\ call'[d].op = "once" => NoneEnds(file', base'[d])
    <2>1. CASE d \in those
      BY <2>1 DEF Over
    <2>2. CASE d \notin those
      <3>1. /\ pc'[d] = pc[d] /\ call'[d] = call[d] /\ batch'[d] = batch[d]
            /\ base'[d] = base[d] /\ file' = file
        BY <2>2 DEF Over
      <3>. QED
        BY <3>1 DEF OnceInv
    <2>. QED
      BY <2>1, <2>2
  <1>. QED
    BY <1>1, <1>2 DEF OnceInv, IsSeq, Alone, NoneEnds, BatchOf, Once

LEMMA OnceBegin ==
    ASSUME MetadataInv, OnceInv, NEW c \in Callers, Begin(c)  PROVE OnceInv'
  <1>1. ASSUME NEW op \in Ops, NEW n \in Nat, NEW title, NEW keep, Ask(c, op, n, title, keep),
               op = "once" => n = 1
        PROVE  OnceInv'
    <2>. USE <1>1 DEF Ask, Goto, files, local
    <2>1. Len(call'[c].ids) = n /\ call'[c].op = op /\ pc'[c] = "wait"
      BY DEF MetadataInv, Domains
    <2>2. \A d \in Callers \ {c} : pc'[d] = pc[d] /\ call'[d] = call[d]
      BY DEF MetadataInv, Domains
    <2>3. UNCHANGED <<file, synced, batch, base>>
      OBVIOUS
    <2>. HIDE <1>1 DEF Ask
    <2>4. ASSUME NEW d \in Callers
          PROVE  /\ pc'[d] # "idle" /\ call'[d].op = "once" => Len(call'[d].ids) = 1
                 /\ pc'[d] = "append" /\ call'[d].op = "once" => NoneEnds(file', Len(file'))
                 /\ pc'[d] = "write" =>
                      /\ base'[d] \in 0 .. Len(file')
                      /\ IsSeq(batch'[d]) /\ BatchOf(batch'[d], call'[d].op)
                      /\ call'[d].op = "once" => NoneEnds(file', base'[d])
      <3>1. CASE d = c
        BY <1>1, <2>1, <3>1
      <3>2. CASE d # c
        BY <2>2, <2>3, <3>2 DEF OnceInv
      <3>. QED
        BY <3>1, <3>2
    <2>. QED
      BY <2>3, <2>4 DEF OnceInv, NoneEnds, BatchOf, Once, IsSeq, Alone
  <1>2. CASE AppendEvents(c)
    BY <1>1, <1>2, BatchAssumption DEF AppendEvents, Ops
  <1>3. CASE AppendEventUnlessExists(c) \/ RecordSpec(c) \/ UpdateTitle(c) \/ TruncateEvents(c)
    BY <1>1, <1>3 DEF AppendEventUnlessExists, RecordSpec, UpdateTitle, TruncateEvents, Ops
  <1>. QED
    BY <1>2, <1>3 DEF Begin

LEMMA OnceLockSession ==
    ASSUME MetadataInv, OnceInv, NEW c \in Callers, LockSession(c)  PROVE OnceInv'
  <1>. DEFINE place == IF call[c].op = "once" THEN "check" ELSE call[c].op
  <1>1. pc[c] = "wait" /\ call[c].op \in Ops
    BY DEF LockSession, MetadataInv, Places
  <1>2. place \notin {"append", "write"} \/ (place = "append" /\ call[c].op # "once")
    BY <1>1 DEF Ops
  <1>3. Goto(c, place) /\ UNCHANGED <<file, call, batch, base>> /\ synced' \in Nat
    BY DEF LockSession, files, local, OnceInv
  <1>. QED
    BY <1>1, <1>2, <1>3, OnceQuiet

\* What the predicate has seen: in a log that can be read, a record-once event
\* that ReadEvents does not return has no newline behind it.
LEMMA OnceCheckExists ==
    ASSUME MetadataInv, OnceInv, NEW c \in Callers, CheckExists(c)  PROVE OnceInv'
  <1>. USE DEF CheckExists, Goto, files, local
  <1>1. CASE Readable /\ \A i \in Read : file[i].kind # "once"
    <2>1. NoneEnds(file, Len(file))
      <3>. SUFFICES ASSUME NEW i \in 1 .. Len(file), i < Len(file), Once(file, i),
                           file[i + 1] = Newline
                    PROVE  FALSE
        BY DEF NoneEnds
      <3>1. DOMAIN file = 1 .. Len(file) /\ Len(file) \in Nat
        BY LenProperties DEF OnceInv, IsSeq
      <3>2. ~Whole(i) /\ file[i] # Newline
        BY <1>1, <3>1 DEF Read, Once, Newline
      <3>3. i \in DOMAIN file /\ i + 1 \in i .. Len(file)
        BY <3>1
      <3>. QED
        BY <1>1, <3>2, <3>3 DEF Readable
    <2>2. pc'[c] = "append" /\ \A d \in Callers \ {c} : pc'[d] = pc[d]
      BY <1>1 DEF MetadataInv, Domains
    <2>. QED
      BY <2>1, <2>2 DEF OnceInv, NoneEnds, BatchOf, Once
  <1>2. CASE ~(Readable /\ \A i \in Read : file[i].kind # "once")
    BY <1>2, OnceQuiet DEF OnceInv
  <1>. QED
    BY <1>1, <1>2

LEMMA OncePrepareAppend ==
    ASSUME MetadataInv, OnceInv, NEW c \in Callers, PrepareAppend(c)  PROVE OnceInv'
  <1>. DEFINE ids == call[c].ids
              op == call[c].op
              kind == IF op = "append" THEN "event" ELSE op
              event(i) == [kind |-> kind, seq |-> NextSequence + i - 1, id |-> ids[i]]
              b == [j \in 1 .. 2 * Len(ids) |->
                        IF j % 2 = 1 THEN event((j + 1) \div 2) ELSE Newline]
  <1>1. /\ pc[c] = "append" /\ pc'[c] = "write" /\ batch'[c] = b /\ base'[c] = Len(file)
        /\ \A d \in Callers \ {c} : pc'[d] = pc[d] /\ batch'[d] = batch[d] /\ base'[d] = base[d]
        /\ DOMAIN base' = Callers /\ UNCHANGED <<file, call, synced>>
    BY DEF PrepareAppend, Goto, files, MetadataInv, Domains, OnceInv
  <1>2. op \in {"append", "once", "spec"} /\ Len(ids) \in Nat \ {0}
        /\ (op = "once" => Len(ids) = 1)
    BY <1>1 DEF MetadataInv, Places, OnceInv
  <1>3. IsSeq(b) /\ Len(b) = 2 * Len(ids)
    <2>1. 2 * Len(ids) \in Nat
      BY <1>2
    <2>2. b = [j \in 1 .. 2 * Len(ids) |-> b[j]]
      OBVIOUS
    <2>. HIDE DEF b, ids
    <2>. QED
      BY <2>1, <2>2, MadeSeq
  <1>4. BatchOf(b, op)
    <2>1. 1 \in 1 .. 2 * Len(ids) /\ 1 % 2 = 1
      BY <1>2
    <2>2. b[1].kind = kind /\ kind # "newline"
      BY <1>2, <2>1
    <2>3. ASSUME NEW j \in 1 .. Len(b), Once(b, j)  PROVE j = 1 /\ op = "once"
      <3>1. j \in 1 .. 2 * Len(ids)
        BY <1>3
      <3>2. j % 2 = 1 /\ b[j].kind = kind
        BY <2>3, <3>1 DEF Once, Newline
      <3>3. op = "once"
        BY <1>2, <2>3, <3>2 DEF Once
      <3>4. j \in 1 .. 2
        <4>1. Len(ids) = 1
          BY <1>2, <3>3
        <4>2. 2 * Len(ids) = 2
          BY <4>1
        <4>. QED
          BY <3>1, <4>2
      <3>. QED
        BY <3>2, <3>3, <3>4
    <2>. QED
      BY <2>2, <2>3 DEF BatchOf
  <1>5. Len(file) \in 0 .. Len(file)
    BY LenProperties DEF OnceInv, IsSeq
  <1>. HIDE DEF b
  <1>6. ASSUME NEW d \in Callers
        PROVE  /\ pc'[d] # "idle" /\ call'[d].op = "once" => Len(call'[d].ids) = 1
               /\ pc'[d] = "append" /\ call'[d].op = "once" => NoneEnds(file', Len(file'))
               /\ pc'[d] = "write" =>
                    /\ base'[d] \in 0 .. Len(file')
                    /\ IsSeq(batch'[d]) /\ BatchOf(batch'[d], call'[d].op)
                    /\ call'[d].op = "once" => NoneEnds(file', base'[d])
    BY <1>1, <1>3, <1>4, <1>5 DEF OnceInv
  <1>. QED
    BY <1>1, <1>6 DEF OnceInv, IsSeq, Alone, NoneEnds, BatchOf, Once

\* Nobody but c is at a place the invariant speaks of.
LEMMA AloneUnderLock ==
    ASSUME MetadataInv, NEW c \in Callers, pc[c] \notin {"idle", "wait"}
    PROVE  \A d \in Callers \ {c} : pc[d] \in {"idle", "wait"}
BY DEF MetadataInv, LockHeld

LEMMA OnceWritePart ==
    ASSUME MetadataInv, OnceInv, NEW c \in Callers, WritePart(c)  PROVE OnceInv'
  <1>. DEFINE s == file
              b == batch[c]
  <1>1. /\ pc[c] = "write" /\ Len(s) = base[c] /\ IsSeq(s) /\ Alone(s) /\ IsSeq(b)
        /\ BatchOf(b, call[c].op) /\ (call[c].op = "once" => NoneEnds(s, Len(s)))
        /\ UNCHANGED <<synced, pc, call, batch, base>>
    BY DEF WritePart, OnceInv, local
  <1>2. Len(s) \in Nat /\ Len(b) \in Nat
    BY <1>1, LenProperties DEF IsSeq
  <1>a. PICK k \in 0 .. Len(b) - 1 : \E part \in Cuts(b, k) : file' = s \o part
    BY DEF WritePart
  <1>3. PICK part \in Cuts(b, k) : file' = s \o part
    BY <1>a
  <1>4. k \in 0 .. Len(b)
    BY <1>2, <1>3
  <1>5. /\ IsSeq(part) /\ Len(part) \in Nat
        /\ \A i \in 1 .. Len(part) : (i \in 1 .. k /\ part[i] = b[i]) \/ part[i] = Fragment
        /\ b = <<>> => part = <<>>
        /\ \A i \in 1 .. Len(part) : i \in 1 .. Len(b)
    BY <1>1, <1>3, <1>4, CutLeaves
  <1>6. BatchOf(part, call[c].op)
    <2>1. part # <<>> => part[1].kind # "newline"
      <3>. SUFFICES ASSUME part # <<>>  PROVE part[1].kind # "newline"
        OBVIOUS
      <3>1. 1 \in 1 .. Len(part)
        BY <1>5, EmptySeq DEF IsSeq
      <3>. QED
        BY <1>1, <1>5, <3>1 DEF BatchOf, Fragment
    <2>2. \A j \in 1 .. Len(part) : Once(part, j) => Once(b, j)
      BY <1>5 DEF Once, Fragment
    <2>. QED
      BY <1>1, <1>5, <2>1, <2>2 DEF BatchOf
  <1>7. Alone(s \o part)
    BY <1>1, <1>5, <1>6, AppendAlone
  <1>8. /\ IsSeq(s \o part) /\ Len(s \o part) = Len(s) + Len(part)
        /\ \A i \in 1 .. Len(s) : (s \o part)[i] = s[i]
    BY <1>1, <1>5, Joined
  <1>9. call[c].op = "once" => NoneEnds(file', base[c])
    BY <1>1, <1>2, <1>3, <1>8 DEF NoneEnds, Once
  <1>10. base[c] \in 0 .. Len(file')
    BY <1>1, <1>2, <1>3, <1>5, <1>8
  <1>11. \A d \in Callers \ {c} : pc[d] \in {"idle", "wait"}
    BY <1>1, AloneUnderLock
  <1>12. ASSUME NEW d \in Callers
         PROVE  /\ pc'[d] # "idle" /\ call'[d].op = "once" => Len(call'[d].ids) = 1
                /\ pc'[d] = "append" /\ call'[d].op = "once" => NoneEnds(file', Len(file'))
                /\ pc'[d] = "write" =>
                     /\ base'[d] \in 0 .. Len(file')
                     /\ IsSeq(batch'[d]) /\ BatchOf(batch'[d], call'[d].op)
                     /\ call'[d].op = "once" => NoneEnds(file', base'[d])
    BY <1>1, <1>9, <1>10, <1>11 DEF OnceInv
  <1>. QED
    BY <1>1, <1>3, <1>7, <1>8, <1>12 DEF OnceInv, IsSeq, Alone, NoneEnds, BatchOf, Once

LEMMA OnceWrite ==
    ASSUME MetadataInv, OnceInv, NEW c \in Callers, Write(c)  PROVE OnceInv'
  <1>. DEFINE s == SubSeq(file, 1, base[c])
              b == batch[c]
  <1>1. /\ pc[c] = "write" /\ base[c] \in 0 .. Len(file) /\ IsSeq(file) /\ Alone(file)
        /\ IsSeq(b) /\ BatchOf(b, call[c].op)
        /\ (call[c].op = "once" => NoneEnds(file, base[c]))
        /\ file' = s \o b /\ UNCHANGED <<synced, call, batch, base>>
        /\ \A d \in Callers : pc'[d] = IF d = c THEN "sync" ELSE pc[d]
    BY DEF Write, OnceInv, local, Goto, MetadataInv, Domains
  <1>2. IsSeq(s) /\ Len(s) = base[c] /\ \A i \in 1 .. base[c] : s[i] = file[i]
    BY <1>1, Prefix
  <1>3. Alone(s)
    <2>1. s \in Cuts(file, base[c])
      BY DEF Cuts
    <2>. QED
      BY <1>1, <2>1, CutAlone
  <1>. HIDE DEF s
  <1>4. call[c].op = "once" => NoneEnds(s, Len(s))
    <2>. SUFFICES ASSUME call[c].op = "once", NEW i \in 1 .. Len(s), i < Len(s), Once(s, i)
                  PROVE  s[i + 1] # Newline
      BY DEF NoneEnds
    <2>1. Len(file) \in Nat
      BY <1>1, LenProperties DEF IsSeq
    <2>2. i \in 1 .. base[c] /\ i + 1 \in 1 .. base[c] /\ i < base[c]
      BY <1>1, <1>2, <2>1
    <2>. QED
      BY <1>1, <1>2, <2>2 DEF NoneEnds, Once
  <1>5. IsSeq(s \o b) /\ Alone(s \o b)
    BY <1>1, <1>2, <1>3, <1>4, AppendAlone, Joined
  <1>6. \A d \in Callers : pc'[d] \notin {"append", "write"}
    BY <1>1, AloneUnderLock
  <1>. QED
    BY <1>1, <1>5, <1>6 DEF OnceInv, IsSeq, Alone, NoneEnds, BatchOf, Once

LEMMA OnceTruncate ==
    ASSUME MetadataInv, OnceInv, NEW c \in Callers, Truncate(c)  PROVE OnceInv'
  <1>1. /\ pc[c] = "truncate" /\ UNCHANGED <<call, batch, base>>
        /\ \A d \in Callers \ {c} : pc'[d] = pc[d]
        /\ pc'[c] \in {"recount", "unlock"}
    BY DEF Truncate, Goto, local, MetadataInv, Domains
  <1>2. \A d \in Callers : pc'[d] \notin {"append", "write"} /\ (pc'[d] # "idle" => pc[d] # "idle")
    BY <1>1, AloneUnderLock
  <1>3. IsSeq(file') /\ Alone(file)' /\ synced' \in Nat
    <2>1. CASE Readable
      <3>1. file' = Kept(call[c].keep) /\ synced' = Len(file')
        BY <2>1 DEF Truncate
      <3>. QED
        BY <3>1, KeptAlone DEF OnceInv, Alone, Once
    <2>2. CASE ~Readable
      BY <2>2 DEF Truncate, OnceInv, Alone, Once
    <2>. QED
      BY <2>1, <2>2
  <1>. QED
    BY <1>1, <1>2, <1>3 DEF OnceInv, IsSeq, Alone, NoneEnds, BatchOf, Once

LEMMA OncePowerLoss ==
    ASSUME MetadataInv, OnceInv, PowerLoss  PROVE OnceInv'
  <1>a. PICK k \in synced .. Len(file) :
            \E cut \in Cuts(file, k) : file' = cut /\ synced' = Len(cut)
    BY DEF PowerLoss
  <1>1. PICK cut \in Cuts(file, k) : file' = cut /\ synced' = Len(cut)
    BY <1>a
  <1>2. IsSeq(file) /\ Alone(file) /\ k \in 0 .. Len(file)
    <2>1. Len(file) \in Nat /\ synced \in Nat
      BY LenProperties DEF OnceInv, IsSeq
    <2>. QED
      BY <1>1, <2>1 DEF OnceInv
  <1>3. IsSeq(cut) /\ Alone(cut) /\ Len(cut) \in Nat
    BY <1>1, <1>2, CutAlone
  <1>4. IsSeq(file') /\ Alone(file)' /\ synced' \in Nat
    BY <1>1, <1>3 DEF Alone, Once
  <1>. QED
    BY <1>4, OnceOver DEF PowerLoss

\* WriteMetadata is the only other step that leaves an "append" place or comes
\* to one, and then for a spec's event.
LEMMA OnceWriteMetadata ==
    ASSUME MetadataInv, OnceInv, NEW c \in Callers, WriteMetadata(c)  PROVE OnceInv'
  <1>1. /\ pc[c] = "meta" /\ UNCHANGED <<file, synced, call, base>>
        /\ (\A d \in Callers \ {c} : pc'[d] = pc[d] /\ batch'[d] = batch[d])
        /\ pc'[c] = "unlock" \/ (pc'[c] = "append" /\ call[c].op = "spec")
    BY DEF WriteMetadata, Goto, MetadataInv, Domains
  <1>. QED
    BY <1>1 DEF OnceInv, IsSeq, Alone, NoneEnds, BatchOf, Once

\* Steps that only move their caller on.
LEMMA OnceOthers ==
    ASSUME MetadataInv, OnceInv, NEW c \in Callers,
           Sync(c) \/ PrepareTitle(c) \/ PrepareSpec(c) \/ Recount(c) \/ Fail(c) \/ FailLate(c)
    PROVE  OnceInv'
  <1>1. UNCHANGED <<file, call, batch, base>> /\ pc[c] # "idle"
    BY DEF Sync, PrepareTitle, PrepareSpec, Recount, Fail, FailLate, files, local
  <1>2. synced' \in Nat
    <2>1. Len(file) \in Nat
      BY LenProperties DEF OnceInv, IsSeq
    <2>. QED
      BY <2>1 DEF Sync, PrepareTitle, PrepareSpec, Recount, Fail, FailLate, files, OnceInv
  <1>3. Goto(c, "meta") \/ Goto(c, "unlock")
    BY DEF Sync, PrepareTitle, PrepareSpec, Recount, Fail, FailLate
  <1>. QED
    BY <1>1, <1>2, <1>3, OnceQuiet

LEMMA NextOnceInv == MetadataInv /\ OnceInv /\ [Next]_vars => OnceInv'
  <1>. SUFFICES ASSUME MetadataInv, OnceInv, [Next]_vars  PROVE OnceInv'
    OBVIOUS
  <1>1. CASE UNCHANGED vars
    BY <1>1 DEF vars, files, local, OnceInv, IsSeq, Alone, NoneEnds, BatchOf, Once
  <1>2. ASSUME NEW c \in Callers, Unlock(c) \/ Kill(c)  PROVE OnceInv'
    <2>1. Over({c}) /\ UNCHANGED <<file, synced>>
      BY <1>2 DEF Unlock, Kill, files
    <2>2. IsSeq(file') /\ Alone(file)' /\ synced' \in Nat
      BY <2>1 DEF OnceInv, Alone, Once
    <2>. QED
      BY <2>1, <2>2, OnceOver
  <1>3. ASSUME NEW c \in Callers, Step(c)  PROVE OnceInv'
    BY <1>2, <1>3, OnceCheckExists, OncePrepareAppend, OnceWritePart, OnceWrite, OnceOthers,
       OnceWriteMetadata, OnceTruncate DEF Step
  <1>4. ASSUME NEW c \in Callers, Begin(c) \/ LockSession(c)  PROVE OnceInv'
    BY <1>4, OnceBegin, OnceLockSession
  <1>. QED
    BY <1>1, <1>2, <1>3, <1>4, OncePowerLoss DEF Next

\* However many callers ask for it, retry, fail half-way, die or lose power,
\* what is recorded once is in the log once (AppendEventUnlessExists: its check
\* and its append are one critical section).
THEOREM OnceForAll == Spec => []RecordedOnce
  <1>1. OnceInv => RecordedOnce
    <2>. SUFFICES ASSUME OnceInv  PROVE RecordedOnce
      OBVIOUS
    <2>. DEFINE S == {i \in Read : file[i].kind = "once"}
    <2>1. \A i, j \in S : i = j
      BY OneRead DEF OnceInv, Once
    <2>2. CASE S = {}
      BY <2>2, FS_EmptySet DEF RecordedOnce
    <2>3. CASE S # {}
      <3>1. PICK i \in S : S = {i}
        BY <2>1, <2>3
      <3>2. Cardinality(S) = 1
        BY <3>1, FS_Singleton
      <3>. QED
        BY <3>2 DEF RecordedOnce
    <2>. QED
      BY <2>2, <2>3
  <1>2. Init => MetadataInv /\ OnceInv
    BY InitMetadataInv, InitOnceInv
  <1>3. MetadataInv /\ OnceInv /\ [Next]_vars => MetadataInv' /\ OnceInv'
    BY NextMetadataInv, NextOnceInv
  <1>. QED
    BY <1>1, <1>2, <1>3, PTL DEF Spec

-----------------------------------------------------------------------------
(* SequencesRise.  Again the invariant is about every prefix of the file: up  *)
(* to the first line that does not parse the sequences rise.  An append that  *)
(* finds all lines whole numbers its events after the last of them, whatever  *)
(* the metadata says; one that does not is glued to what it found, and no     *)
(* line after that is read.                                                   *)

Line(s, p) == IsEvent(s[p]) /\ (p = 1 \/ s[p - 1] = Newline) /\ s[p + 1] = Newline

\* Everything before j is whole lines.
Sound(s, j) == \A p \in 1 .. j : p < j /\ s[p] # Newline => Line(s, p)

\* The first n pieces are whole lines.
Terminated(s, n) == \A p \in 1 .. n : s[p] # Newline => p < n /\ Line(s, p)

Rises(s) ==
    \A i, j \in 1 .. Len(s) :
        i < j /\ IsEvent(s[i]) /\ IsEvent(s[j]) /\ Sound(s, j) => s[i].seq < s[j].seq

\* No line is empty.
NoBlank(s) == \A i \in 1 .. Len(s) : s[i] = Newline => i > 1 /\ s[i - 1] # Newline

Numbered(s) == \A i \in 1 .. Len(s) : s[i].seq \in Int

\* The events of t come after those of the first n pieces of s.
Above(s, n, t) ==
    \A i \in 1 .. n, j \in 1 .. Len(t) : IsEvent(s[i]) /\ IsEvent(t[j]) => s[i].seq < t[j].seq

Within(t) ==
    \A i, j \in 1 .. Len(t) : i < j /\ IsEvent(t[i]) /\ IsEvent(t[j]) => t[i].seq < t[j].seq

\* What a caller with a prepared batch relies on.
Ready(s, n, t) ==
    /\ NoBlank(t) /\ Numbered(t) /\ Within(t)
    /\ Terminated(s, n) => Above(s, n, t)

RiseInv ==
    /\ Rises(file) /\ NoBlank(file) /\ Numbered(file)
    /\ meta.count \in Int
    /\ \A c \in Callers : next[c].count \in Int
    /\ \A c \in Callers : pc[c] = "write" => Ready(file, base[c], batch[c])

LEMMA EventIsNoMark == ~IsEvent(Newline) /\ ~IsEvent(Fragment)
BY DEF IsEvent, Kinds, Newline, Fragment

LEMMA CutRises ==
    ASSUME NEW s, IsSeq(s), NEW k \in 0 .. Len(s), NEW cut \in Cuts(s, k)
    PROVE  /\ Rises(s) => Rises(cut)
           /\ NoBlank(s) => NoBlank(cut)
           /\ Numbered(s) => Numbered(cut)
           /\ Within(s) => Within(cut)
  <1>1. /\ IsSeq(cut) /\ Len(cut) \in Nat /\ Len(s) \in Nat
        /\ \A i \in 1 .. Len(cut) : (i \in 1 .. k /\ cut[i] = s[i]) \/ cut[i] = Fragment
        /\ \A i \in 1 .. Len(cut) : i \in 1 .. Len(s)
    BY CutLeaves, LenProperties DEF IsSeq
  <1>2. \A i \in 1 .. Len(cut) : cut[i] = s[i] \/ (i > k /\ cut[i] = Fragment)
    <2>1. CASE cut = SubSeq(s, 1, k)
      BY <1>1, <2>1, Prefix
    <2>2. CASE k < Len(s) /\ cut = Append(SubSeq(s, 1, k), Fragment)
      <3>1. IsSeq(SubSeq(s, 1, k)) /\ Len(SubSeq(s, 1, k)) = k
            /\ \A i \in 1 .. k : SubSeq(s, 1, k)[i] = s[i]
        BY Prefix
      <3>2. PICK T : SubSeq(s, 1, k) \in Seq(T)
        BY <3>1 DEF IsSeq
      <3>3. SubSeq(s, 1, k) \in Seq(T \cup {Fragment})
        BY <3>2, SeqMonotonic, T \subseteq T \cup {Fragment}
      <3>4. Len(cut) = k + 1 /\ \A i \in 1 .. k + 1 :
                cut[i] = IF i <= k THEN SubSeq(s, 1, k)[i] ELSE Fragment
        BY <2>2, <3>1, <3>3, AppendProperties
      <3>. QED
        BY <1>1, <3>1, <3>4
    <2>. QED
      BY <2>1, <2>2 DEF Cuts
  <1>3. ASSUME NEW i \in 1 .. Len(cut), IsEvent(cut[i])
        PROVE  i \in 1 .. Len(s) /\ \A p \in 1 .. i : p \in 1 .. Len(cut) /\ cut[p] = s[p]
    <2>1. i \in 1 .. k /\ i \in 1 .. Len(s)
      BY <1>1, <1>3, EventIsNoMark
    <2>2. \A p \in 1 .. i : p \in 1 .. Len(cut) /\ ~(p > k)
      BY <1>1, <2>1
    <2>. QED
      BY <1>2, <2>1, <2>2
  <1>4. ASSUME Rises(s)  PROVE Rises(cut)
    <2>. SUFFICES ASSUME NEW i \in 1 .. Len(cut), NEW j \in 1 .. Len(cut), i < j,
                         IsEvent(cut[i]), IsEvent(cut[j]), Sound(cut, j)
                  PROVE  cut[i].seq < cut[j].seq
      BY DEF Rises
    <2>1. /\ i \in 1 .. Len(s) /\ j \in 1 .. Len(s) /\ i \in 1 .. j /\ j \in 1 .. j
          /\ \A p \in 1 .. j : cut[p] = s[p]
      BY <1>1, <1>3
    <2>2. Sound(s, j)
      <3>. SUFFICES ASSUME NEW p \in 1 .. j, p < j, s[p] # Newline  PROVE Line(s, p)
        BY DEF Sound
      <3>1. p + 1 \in 1 .. j /\ (p # 1 => p - 1 \in 1 .. j)
        BY <2>1
      <3>2. Line(cut, p)
        BY <2>1 DEF Sound
      <3>. QED
        BY <2>1, <3>1, <3>2 DEF Line
    <2>. QED
      BY <1>4, <2>1, <2>2 DEF Rises
  <1>5. ASSUME NoBlank(s)  PROVE NoBlank(cut)
    <2>. SUFFICES ASSUME NEW i \in 1 .. Len(cut), cut[i] = Newline
                  PROVE  i > 1 /\ cut[i - 1] # Newline
      BY DEF NoBlank
    <2>1. i \in 1 .. Len(s) /\ s[i] = Newline
      BY <1>1, <1>2 DEF Newline, Fragment
    <2>2. i > 1 /\ s[i - 1] # Newline
      BY <1>5, <2>1 DEF NoBlank
    <2>3. i - 1 \in 1 .. Len(cut)
      BY <1>1, <2>2
    <2>. QED
      BY <1>2, <2>2, <2>3 DEF Newline, Fragment
  <1>6. ASSUME Numbered(s)  PROVE Numbered(cut)
    BY <1>1, <1>2, <1>6 DEF Numbered, Fragment
  <1>7. ASSUME Within(s)  PROVE Within(cut)
    <2>. SUFFICES ASSUME NEW i \in 1 .. Len(cut), NEW j \in 1 .. Len(cut), i < j,
                         IsEvent(cut[i]), IsEvent(cut[j])
                  PROVE  cut[i].seq < cut[j].seq
      BY DEF Within
    <2>1. i \in 1 .. Len(s) /\ j \in 1 .. Len(s) /\ cut[i] = s[i] /\ cut[j] = s[j]
      BY <1>1, <1>3
    <2>. QED
      BY <1>7, <2>1 DEF Within
  <1>. QED
    BY <1>4, <1>5, <1>6, <1>7

\* Places in a longer sequence, and the two places of a batch's m-th event.
LEMMA Shifted ==
    ASSUME NEW n \in Nat, NEW l \in Nat, NEW i \in 1 .. n + l, i > n
    PROVE  i - n \in 1 .. l /\ i = n + (i - n)
  OBVIOUS

LEMMA EventPlace ==
    ASSUME NEW k \in Nat, NEW m \in 1 .. k
    PROVE  /\ 2 * m - 1 \in 1 .. 2 * k /\ 2 * m - 1 < 2 * k
           /\ (2 * m - 1) % 2 = 1 /\ ((2 * m - 1) + 1) \div 2 = m
           /\ (2 * m - 1) + 1 \in 1 .. 2 * k /\ ((2 * m - 1) + 1) % 2 # 1
  OBVIOUS

\* Appending a batch, or what there is of it.
LEMMA AppendRises ==
    ASSUME NEW s, NEW t, IsSeq(s), IsSeq(t), Rises(s), NoBlank(s), Numbered(s),
           Ready(s, Len(s), t), t # <<>> => t[1].kind # "newline"
    PROVE  Rises(s \o t) /\ NoBlank(s \o t) /\ Numbered(s \o t)
  <1>. DEFINE u == s \o t
              n == Len(s)
  <1>1. /\ Len(u) = n + Len(t) /\ n \in Nat /\ Len(t) \in Nat
        /\ \A i \in 1 .. n : u[i] = s[i]
        /\ \A i \in 1 .. Len(t) : u[n + i] = t[i]
    BY Joined
  <1>. HIDE DEF u, n
  <1>2. \A i \in 1 .. Len(u) : i > n => i - n \in 1 .. Len(t) /\ u[i] = t[i - n]
    <2>. SUFFICES ASSUME NEW i \in 1 .. Len(u), i > n
                  PROVE  i - n \in 1 .. Len(t) /\ u[i] = t[i - n]
      OBVIOUS
    <2>1. i - n \in 1 .. Len(t) /\ i = n + (i - n)
      BY <1>1, Shifted
    <2>. QED
      BY <1>1, <2>1
  <1>3. \A i \in 1 .. Len(u) : i <= n => i \in 1 .. n
    BY <1>1
  <1>4. ASSUME NEW j \in 1 .. Len(u), j > n  PROVE u[n + 1] # Newline /\ n + 1 \in 1 .. Len(u)
    <2>1. 1 \in 1 .. Len(t) /\ n + 1 \in 1 .. Len(u)
      BY <1>1, <1>4
    <2>2. t # <<>>
      BY <2>1
    <2>. QED
      BY <1>1, <2>1, <2>2 DEF Newline
  <1>5. Rises(u)
    <2>. SUFFICES ASSUME NEW i \in 1 .. Len(u), NEW j \in 1 .. Len(u), i < j,
                         IsEvent(u[i]), IsEvent(u[j]), Sound(u, j)
                  PROVE  u[i].seq < u[j].seq
      BY DEF Rises
    <2>1. CASE j <= n
      <3>1. i \in 1 .. n /\ j \in 1 .. n /\ \A p \in 1 .. j : u[p] = s[p]
        BY <1>1, <2>1
      <3>2. Sound(s, j)
        <4>. SUFFICES ASSUME NEW p \in 1 .. j, p < j, s[p] # Newline  PROVE Line(s, p)
          BY DEF Sound
        <4>1. p + 1 \in 1 .. j /\ (p # 1 => p - 1 \in 1 .. j)
          BY <3>1
        <4>2. Line(u, p)
          BY <3>1 DEF Sound
        <4>. QED
          BY <3>1, <4>1, <4>2 DEF Line
      <3>3. u[i] = s[i] /\ u[j] = s[j]
        BY <1>1, <3>1
      <3>. QED
        BY <3>1, <3>2, <3>3 DEF Rises, n
    <2>2. CASE i > n
      <3>1. j > n
        BY <1>1, <2>2
      <3>2. /\ i - n \in 1 .. Len(t) /\ j - n \in 1 .. Len(t) /\ i - n < j - n
            /\ u[i] = t[i - n] /\ u[j] = t[j - n]
        BY <1>1, <1>2, <2>2, <3>1
      <3>. QED
        BY <3>2 DEF Ready, Within
    <2>3. CASE i <= n /\ j > n
      <3>1. Terminated(s, n)
        <4>. SUFFICES ASSUME NEW p \in 1 .. n, s[p] # Newline  PROVE p < n /\ Line(s, p)
          BY DEF Terminated
        <4>1. p \in 1 .. j /\ p < j /\ u[p] = s[p]
          BY <1>1, <2>3
        <4>2. Line(u, p)
          BY <4>1 DEF Sound
        <4>3. p # n
          BY <1>4, <2>3, <4>2 DEF Line
        <4>4. p < n /\ p + 1 \in 1 .. n /\ (p # 1 => p - 1 \in 1 .. n)
          BY <1>1, <4>3
        <4>. QED
          BY <1>1, <4>1, <4>2, <4>4 DEF Line
      <3>2. i \in 1 .. n /\ j - n \in 1 .. Len(t) /\ u[i] = s[i] /\ u[j] = t[j - n]
        BY <1>1, <1>2, <1>3, <2>3
      <3>. QED
        BY <3>1, <3>2 DEF Ready, Above, n
    <2>. QED
      BY <1>1, <2>1, <2>2, <2>3
  <1>6. NoBlank(u)
    <2>. SUFFICES ASSUME NEW i \in 1 .. Len(u), u[i] = Newline
                  PROVE  i > 1 /\ u[i - 1] # Newline
      BY DEF NoBlank
    <2>1. CASE i <= n
      <3>1. i \in 1 .. n /\ s[i] = Newline
        BY <1>1, <1>3, <2>1
      <3>2. i > 1 /\ s[i - 1] # Newline
        BY <3>1 DEF NoBlank, n
      <3>3. i - 1 \in 1 .. n
        BY <1>1, <3>1, <3>2
      <3>. QED
        BY <1>1, <3>2, <3>3
    <2>2. CASE i > n
      <3>1. i - n \in 1 .. Len(t) /\ t[i - n] = Newline
        BY <1>2, <2>2
      <3>2. i - n > 1 /\ t[(i - n) - 1] # Newline
        BY <3>1 DEF Ready, NoBlank
      <3>3. i - 1 \in 1 .. Len(u) /\ i - 1 > n /\ (i - n) - 1 = (i - 1) - n /\ i > 1
        BY <1>1, <3>1, <3>2
      <3>. QED
        BY <1>2, <3>2, <3>3
    <2>. QED
      BY <1>1, <2>1, <2>2
  <1>7. Numbered(u)
    <2>. SUFFICES ASSUME NEW i \in 1 .. Len(u)  PROVE u[i].seq \in Int
      BY DEF Numbered
    <2>1. CASE i <= n
      BY <1>1, <1>3, <2>1 DEF Numbered, n
    <2>2. CASE i > n
      BY <1>2, <2>2 DEF Numbered, Ready
    <2>. QED
      BY <1>1, <2>1, <2>2
  <1>. QED
    BY <1>5, <1>6, <1>7 DEF u

LEMMA KeptRises ==
    ASSUME IsSeq(file), Readable, NEW keep
    PROVE  /\ Rises(file) => Rises(Kept(keep))
           /\ NoBlank(Kept(keep))
           /\ Numbered(file) => Numbered(Kept(keep))
  <1>. DEFINE f == Kept(keep)
  <1>1. /\ Len(f) \in Nat
        /\ \A j \in 1 .. Len(f) :
               j % 2 # 1 => f[j] = Newline /\ j - 1 \in 1 .. Len(f) /\ (j - 1) % 2 = 1
    BY KeptShape
  <1>2. PICK h : /\ \A j \in 1 .. Len(f) : j % 2 = 1 => h[j] \in Read /\ f[j] = file[h[j]]
                 /\ \A i, j \in 1 .. Len(f) : i % 2 = 1 /\ j % 2 = 1 /\ i < j => h[i] < h[j]
    BY KeptShape
  <1>3. DOMAIN file = 1 .. Len(file) /\ Len(file) \in Nat
    BY LenProperties DEF IsSeq
  <1>4. \A p \in Read : p \in 1 .. Len(file) /\ IsEvent(file[p]) /\ file[p] # Newline
    BY <1>3, EventIsNoMark DEF Read, Whole
  <1>. HIDE DEF f
  <1>5. \A q \in Read : Sound(file, q)
    <2>. SUFFICES ASSUME NEW q \in Read, NEW p \in 1 .. q, p < q, file[p] # Newline
                  PROVE  Line(file, p)
      BY DEF Sound
    <2>a. q \in 1 .. Len(file)
      BY <1>4
    <2>1. q # 1 /\ p \in 1 .. Len(file) /\ p # Len(file) /\ q - 1 \in p .. Len(file)
      <3>1. q \in Int /\ p \in Int /\ 1 <= p /\ p < q /\ q <= Len(file)
        BY <1>3, <2>a
      <3>. DEFINE n == Len(file)
      <3>2. n \in Nat /\ q <= n
        BY <1>3, <3>1
      <3>. HIDE DEF n
      <3>3. q # 1 /\ p \in 1 .. n /\ p # n /\ q - 1 \in p .. n
        BY <3>1, <3>2
      <3>. QED
        BY <3>3 DEF n
    <2>b. Whole(q)
      BY DEF Read
    <2>2. file[q - 1] = Newline
      BY <2>1, <2>b DEF Whole
    <2>3. Whole(p)
      BY <1>3, <2>1, <2>2 DEF Readable
    <2>. QED
      BY <2>1, <2>3 DEF Whole, Line
  <1>6. ASSUME Rises(file)  PROVE Rises(f)
    <2>. SUFFICES ASSUME NEW i \in 1 .. Len(f), NEW j \in 1 .. Len(f), i < j,
                         IsEvent(f[i]), IsEvent(f[j])
                  PROVE  f[i].seq < f[j].seq
      BY DEF Rises
    <2>1. i % 2 = 1 /\ j % 2 = 1
      BY <1>1, EventIsNoMark
    <2>2. h[i] \in Read /\ h[j] \in Read /\ h[i] < h[j] /\ f[i] = file[h[i]] /\ f[j] = file[h[j]]
      BY <1>2, <2>1
    <2>3. file[h[i]].seq < file[h[j]].seq
      BY <1>4, <1>5, <1>6, <2>2 DEF Rises
    <2>. QED
      BY <2>2, <2>3
  <1>7. NoBlank(f)
    <2>. SUFFICES ASSUME NEW i \in 1 .. Len(f), f[i] = Newline
                  PROVE  i > 1 /\ f[i - 1] # Newline
      BY DEF NoBlank
    <2>1. i % 2 # 1
      BY <1>2, <1>4
    <2>2. i - 1 \in 1 .. Len(f) /\ (i - 1) % 2 = 1
      BY <1>1, <2>1
    <2>3. f[i - 1] # Newline
      BY <1>2, <1>4, <2>2
    <2>. QED
      BY <2>2, <2>3
  <1>8. ASSUME Numbered(file)  PROVE Numbered(f)
    <2>. SUFFICES ASSUME NEW i \in 1 .. Len(f)  PROVE f[i].seq \in Int
      BY DEF Numbered
    <2>1. CASE i % 2 = 1
      BY <1>2, <1>4, <1>8, <2>1 DEF Numbered
    <2>2. CASE i % 2 # 1
      BY <1>1, <2>2 DEF Newline
    <2>. QED
      BY <2>1, <2>2
  <1>. QED
    BY <1>6, <1>7, <1>8 DEF f

\* The greatest of finitely many numbers.
LEMMA MaxIs ==
    ASSUME NEW S \in SUBSET Nat, IsFiniteSet(S), S # {}
    PROVE  Max(S) \in S /\ \A y \in S : Max(S) >= y
  <1>. DEFINE N == Cardinality(S)
  <1>1. N \in Nat /\ N # 0
    BY FS_CardinalityType, FS_EmptySet
  <1>2. N \in 1 .. N
    BY <1>1
  <1>3. PICK x \in S : Cardinality({j \in S : j <= x}) = N
    BY <1>2, Ranked
  <1>4. {j \in S : j <= x} = S
    BY <1>3, FS_Subset
  <1>5. x \in Nat /\ \A y \in S : y \in Nat /\ y <= x
    BY <1>4
  <1>6. \A y \in S : x >= y
    BY <1>5
  <1>. QED
    BY <1>6 DEF Max

LEMMA MaxOfTwo ==
    ASSUME NEW a \in Int, NEW b \in Int
    PROVE  Max({a, b}) \in Int /\ Max({a, b}) >= a /\ Max({a, b}) >= b
  <1>1. \E x \in {a, b} : \A y \in {a, b} : x >= y
    <2>1. CASE a >= b
      BY <2>1
    <2>2. CASE b >= a
      BY <2>2
    <2>. QED
      BY <2>1, <2>2
  <1>. QED
    BY <1>1 DEF Max

\* The sequence of the next event is a number, and greater than any in a log
\* of whole lines.
LEMMA NextAbove ==
    ASSUME IsSeq(file), RiseInv
    PROVE  /\ NextSequence \in Int
           /\ Terminated(file, Len(file)) =>
                  \A i \in 1 .. Len(file) : IsEvent(file[i]) => file[i].seq < NextSequence
  <1>. DEFINE n == Len(file)
              ends == {i \in DOMAIN file : file[i] = Newline}
  <1>1. DOMAIN file = 1 .. n /\ n \in Nat
    BY LenProperties DEF IsSeq
  <1>2. ends \in SUBSET Nat /\ IsFiniteSet(ends)
    <2>1. ends \subseteq 1 .. n /\ IsFiniteSet(1 .. n)
      BY <1>1, FS_Interval
    <2>2. ends \subseteq Nat
      BY <1>1
    <2>. QED
      BY <2>1, <2>2, FS_Subset
  <1>3. LastSequence = IF ends = {} THEN 0
                       ELSE IF Whole(Max(ends) - 1) THEN file[Max(ends) - 1].seq ELSE -1
    BY DEF LastSequence
  <1>4. ends # {} => Max(ends) \in 1 .. n /\ file[Max(ends)] = Newline
    BY <1>1, <1>2, MaxIs
  <1>5. ends # {} => Max(ends) - 1 \in 1 .. n
    <2>1. ends # {} => Max(ends) > 1
      BY <1>4 DEF RiseInv, NoBlank
    <2>. QED
      BY <1>1, <1>4, <2>1
  <1>6. LastSequence \in Int
    BY <1>3, <1>5 DEF RiseInv, Numbered
  <1>7. NextSequence \in Int /\ NextSequence >= LastSequence + 1
    BY <1>6, MaxOfTwo DEF NextSequence, RiseInv
  <1>8. ASSUME Terminated(file, n), NEW i \in 1 .. n, IsEvent(file[i])
        PROVE  file[i].seq <= LastSequence
    <2>1. n \in 1 .. n
      BY <1>1
    <2>2. file[n] = Newline
      BY <1>8, <2>1 DEF Terminated
    <2>3. n \in ends
      BY <1>1, <2>1, <2>2
    <2>. DEFINE m == Max(ends)
    <2>4. m \in ends /\ m >= n
      BY <1>2, <2>3, MaxIs
    <2>5. m = n
      BY <1>1, <1>4, <2>3, <2>4
    <2>6. n - 1 \in 1 .. n /\ file[n - 1] # Newline
      <3>1. n > 1 /\ file[n - 1] # Newline
        BY <2>1, <2>2 DEF RiseInv, NoBlank
      <3>. QED
        BY <1>1, <3>1
    <2>7. Line(file, n - 1)
      BY <1>8, <2>6 DEF Terminated
    <2>8. Whole(n - 1)
      BY <2>6, <2>7 DEF Line, Whole
    <2>9. LastSequence = file[n - 1].seq
      <3>1. Max(ends) = n /\ ends # {}
        BY <2>3, <2>5
      <3>. QED
        BY <1>3, <2>8, <3>1
    <2>10. i # n
      BY <1>8, <2>2, EventIsNoMark
    <2>11. CASE i = n - 1
      BY <2>6, <2>9, <2>11 DEF RiseInv, Numbered
    <2>12. CASE i < n - 1
      <3>1. Sound(file, n - 1)
        <4>. SUFFICES ASSUME NEW p \in 1 .. n - 1, p < n - 1, file[p] # Newline
                      PROVE  Line(file, p)
          BY DEF Sound
        <4>1. p \in 1 .. n
          BY <1>1
        <4>. QED
          BY <1>8, <4>1 DEF Terminated
      <3>2. IsEvent(file[n - 1])
        BY <2>7 DEF Line
      <3>3. file[i].seq < file[n - 1].seq
        BY <1>8, <2>6, <2>12, <3>1, <3>2 DEF RiseInv, Rises
      <3>. QED
        BY <2>6, <2>9, <3>3 DEF RiseInv, Numbered
    <2>13. i = n \/ i = n - 1 \/ i < n - 1
      <3>1. n \in Nat
        BY <1>1
      <3>. HIDE DEF n
      <3>. QED
        BY <1>8, <3>1
    <2>. QED
      BY <2>10, <2>11, <2>12, <2>13
  <1>9. ASSUME Terminated(file, n), NEW i \in 1 .. n, IsEvent(file[i])
        PROVE  file[i].seq < NextSequence
    <2>1. file[i].seq \in Int /\ file[i].seq <= LastSequence
      BY <1>8, <1>9 DEF RiseInv, Numbered
    <2>. QED
      BY <1>6, <1>7, <2>1
  <1>. QED
    BY <1>7, <1>9

LEMMA InitRiseInv == Init => RiseInv
  <1>1. Len(<< >>) = 0
    OBVIOUS
  <1>. QED
    BY <1>1 DEF Init, RiseInv, Rises, NoBlank, Numbered, NoMeta

\* A step that leaves the log alone, or what is left of it as good as it was,
\* and brings nobody to the write.
LEMMA RiseMade ==
    ASSUME Rises(file)', NoBlank(file)', Numbered(file)', meta'.count \in Int,
           \A d \in Callers : next'[d].count \in Int,
           \A d \in Callers : pc'[d] = "write" => Ready(file', base'[d], batch'[d])
    PROVE  RiseInv'
BY DEF RiseInv, Rises, NoBlank, Numbered, Ready, Sound, Line, Terminated, Above, Within

LEMMA RiseQuiet ==
    ASSUME RiseInv, Rises(file)', NoBlank(file)', Numbered(file)', meta'.count \in Int,
           \A d \in Callers : next'[d].count \in Int,
           \A d \in Callers : pc'[d] = "write" =>
               pc[d] = "write" /\ UNCHANGED <<file, base[d], batch[d]>>
    PROVE  RiseInv'
  <1>1. ASSUME NEW d \in Callers, pc'[d] = "write"  PROVE Ready(file', base'[d], batch'[d])
    <2>1. Ready(file, base[d], batch[d]) /\ file' = file /\ base'[d] = base[d] /\ batch'[d] = batch[d]
      BY <1>1 DEF RiseInv
    <2>. QED
      BY <2>1
  <1>. QED
    BY <1>1, RiseMade

LEMMA RiseUnchangedFile ==
    ASSUME RiseInv, UNCHANGED file
    PROVE  Rises(file)' /\ NoBlank(file)' /\ Numbered(file)'
BY DEF RiseInv, Rises, NoBlank, Numbered, Sound, Line

LEMMA RiseOver ==
    ASSUME MetadataInv, RiseInv, NEW those \in SUBSET Callers, Over(those),
           Rises(file)', NoBlank(file)', Numbered(file)', UNCHANGED meta,
           those = Callers \/ UNCHANGED file
    PROVE  RiseInv'
  <1>1. \A d \in Callers : next'[d].count \in Int
    BY DEF Over, NoMeta, RiseInv
  <1>2. \A d \in Callers : pc'[d] = "write" =>
            pc[d] = "write" /\ UNCHANGED <<file, base[d], batch[d]>>
    BY DEF Over
  <1>3. meta'.count \in Int
    BY DEF RiseInv
  <1>. QED
    BY <1>1, <1>2, <1>3, RiseQuiet

\* Steps that touch neither the log nor what is to be appended.
LEMMA RiseOthers ==
    ASSUME MetadataInv, OnceInv, RiseInv, NEW c \in Callers,
           \/ Begin(c) \/ LockSession(c) \/ CheckExists(c) \/ Sync(c) \/ PrepareTitle(c)
           \/ PrepareSpec(c) \/ Recount(c) \/ Fail(c) \/ FailLate(c) \/ WriteMetadata(c)
    PROVE  RiseInv'
  <1>1. UNCHANGED file /\ Rises(file)' /\ NoBlank(file)' /\ Numbered(file)'
    <2>1. UNCHANGED file
      BY DEF Begin, AppendEvents, AppendEventUnlessExists, RecordSpec, UpdateTitle, TruncateEvents,
         Ask, LockSession, CheckExists, Sync, PrepareTitle, PrepareSpec, Recount, Fail, FailLate,
         WriteMetadata, files
    <2>. QED
      BY <2>1, RiseUnchangedFile
  <1>2. CASE Begin(c)
    <2>1. UNCHANGED <<meta, next, batch, base>>
          /\ \A d \in Callers : pc'[d] = IF d = c THEN "wait" ELSE pc[d]
      BY <1>2 DEF Begin, AppendEvents, AppendEventUnlessExists, RecordSpec, UpdateTitle,
         TruncateEvents, Ask, files, local, Goto, MetadataInv, Domains
    <2>. QED
      BY <1>1, <2>1, RiseQuiet DEF RiseInv
  <1>3. CASE LockSession(c) \/ CheckExists(c) \/ Sync(c) \/ Fail(c)
    <2>1. UNCHANGED <<meta, next, batch, base>>
      BY <1>3 DEF LockSession, CheckExists, Sync, Fail, files, local
    <2>2. LockSession(c) => call[c].op \in Ops
      BY DEF LockSession, MetadataInv, Places
    <2>3. \A d \in Callers : pc'[d] = "write" => pc[d] = "write"
      BY <1>3, <2>2 DEF LockSession, CheckExists, Sync, Fail, Goto, MetadataInv, Domains, Ops
    <2>. QED
      BY <1>1, <2>1, <2>3, RiseQuiet DEF RiseInv
  <1>4. CASE PrepareTitle(c) \/ PrepareSpec(c) \/ Recount(c)
    <2>1. UNCHANGED <<meta, batch, base>>
      BY <1>4 DEF PrepareTitle, PrepareSpec, Recount, files
    <2>2. \A d \in Callers : pc'[d] = "write" => pc[d] = "write"
      BY <1>4 DEF PrepareTitle, PrepareSpec, Recount, Goto, MetadataInv, Domains
    <2>3. Len(file) \div 2 \in Int
      <3>1. Len(file) \in Nat
        BY LenProperties DEF OnceInv, IsSeq
      <3>. QED
        BY <3>1
    <2>4. next'[c].count \in Int /\ \A d \in Callers \ {c} : next'[d] = next[d]
      BY <1>4, <2>3 DEF PrepareTitle, PrepareSpec, Recount, MetadataInv, Domains, RiseInv
    <2>5. \A d \in Callers : next'[d].count \in Int
      BY <2>4 DEF RiseInv
    <2>. QED
      BY <1>1, <2>1, <2>2, <2>5, RiseQuiet DEF RiseInv
  <1>5. CASE FailLate(c) \/ WriteMetadata(c)
    <2>1. meta' = next[c] /\ UNCHANGED <<next, base>> /\ pc[c] = "meta"
      BY <1>5 DEF FailLate, WriteMetadata, Replace, local
    <2>2. \A d \in Callers : pc'[d] = "write" => pc[d] = "write" /\ batch'[d] = batch[d]
      BY <1>5 DEF FailLate, WriteMetadata, Goto, local, MetadataInv, Domains
    <2>. QED
      BY <1>1, <2>1, <2>2, RiseQuiet DEF RiseInv
  <1>. QED
    BY <1>2, <1>3, <1>4, <1>5

LEMMA RisePrepareAppend ==
    ASSUME MetadataInv, OnceInv, RiseInv, NEW c \in Callers, PrepareAppend(c)  PROVE RiseInv'
  <1>. DEFINE ids == call[c].ids
              op == call[c].op
              kind == IF op = "append" THEN "event" ELSE op
              event(i) == [kind |-> kind, seq |-> NextSequence + i - 1, id |-> ids[i]]
              b == [j \in 1 .. 2 * Len(ids) |->
                        IF j % 2 = 1 THEN event((j + 1) \div 2) ELSE Newline]
              n == Len(file)
  <1>1. /\ pc[c] = "append" /\ batch'[c] = b /\ base'[c] = n
        /\ \A d \in Callers \ {c} : /\ pc'[d] = pc[d] /\ batch'[d] = batch[d]
                                    /\ base'[d] = base[d] /\ next'[d] = next[d]
        /\ next'[c].count = NextSequence + Len(ids) - 1
        /\ UNCHANGED <<file, meta>>
    BY DEF PrepareAppend, Goto, files, MetadataInv, Domains, OnceInv
  <1>2. op \in {"append", "once", "spec"} /\ Len(ids) \in Nat \ {0} /\ kind \in Kinds
    BY <1>1 DEF MetadataInv, Places, Kinds
  <1>3. /\ NextSequence \in Int
        /\ Terminated(file, n) => \A i \in 1 .. n : IsEvent(file[i]) => file[i].seq < NextSequence
    BY NextAbove DEF OnceInv
  <1>4. Len(b) = 2 * Len(ids)
    <2>1. 2 * Len(ids) \in Nat
      BY <1>2
    <2>2. b = [j \in 1 .. 2 * Len(ids) |-> b[j]]
      OBVIOUS
    <2>. HIDE DEF b, ids
    <2>. QED
      BY <2>1, <2>2, MadeSeq
  <1>5. \A j \in 1 .. 2 * Len(ids) :
            IF j % 2 = 1 THEN b[j] = event((j + 1) \div 2) ELSE b[j] = Newline
    OBVIOUS
  <1>6. \A j \in 1 .. 2 * Len(ids) :
            /\ j % 2 = 1 => b[j].seq = NextSequence + (j + 1) \div 2 - 1 /\ b[j] # Newline
            /\ j % 2 # 1 => b[j] = Newline
    BY <1>2, <1>5 DEF Kinds, Newline
  <1>. HIDE DEF b, event, kind, ids
  <1>7. 2 * Len(ids) \in Nat
    BY <1>2
  <1>8. ASSUME NEW i \in 1 .. 2 * Len(ids), i % 2 = 1
        PROVE  /\ (i + 1) \div 2 \in Int /\ (i + 1) \div 2 >= 1
               /\ \A j \in 1 .. 2 * Len(ids) : j % 2 = 1 /\ i < j => (i + 1) \div 2 < (j + 1) \div 2
    BY <1>7, <1>8
  <1>9. NoBlank(b)
    <2>. SUFFICES ASSUME NEW i \in 1 .. 2 * Len(ids), b[i] = Newline
                  PROVE  i > 1 /\ b[i - 1] # Newline
      BY <1>4 DEF NoBlank
    <2>1. i % 2 # 1
      BY <1>6
    <2>2. i > 1 /\ i - 1 \in 1 .. 2 * Len(ids) /\ (i - 1) % 2 = 1
      BY <1>7, <2>1
    <2>. QED
      BY <1>6, <2>2
  <1>10. ASSUME NEW i \in 1 .. 2 * Len(ids), IsEvent(b[i])
         PROVE  i % 2 = 1 /\ b[i].seq = NextSequence + (i + 1) \div 2 - 1
    BY <1>6, <1>10, EventIsNoMark
  <1>11. Numbered(b)
    <2>. SUFFICES ASSUME NEW i \in 1 .. 2 * Len(ids)  PROVE b[i].seq \in Int
      BY <1>4 DEF Numbered
    <2>1. CASE i % 2 = 1
      BY <1>3, <1>6, <1>8, <2>1
    <2>2. CASE i % 2 # 1
      BY <1>6, <2>2 DEF Newline
    <2>. QED
      BY <2>1, <2>2
  <1>12. Within(b)
    <2>. SUFFICES ASSUME NEW i \in 1 .. 2 * Len(ids), NEW j \in 1 .. 2 * Len(ids), i < j,
                         IsEvent(b[i]), IsEvent(b[j])
                  PROVE  b[i].seq < b[j].seq
      BY <1>4 DEF Within
    <2>1. /\ i % 2 = 1 /\ b[i].seq = NextSequence + (i + 1) \div 2 - 1
          /\ j % 2 = 1 /\ b[j].seq = NextSequence + (j + 1) \div 2 - 1
      BY <1>10
    <2>2. /\ (i + 1) \div 2 \in Int /\ (j + 1) \div 2 \in Int
          /\ (i + 1) \div 2 < (j + 1) \div 2
      BY <1>8, <2>1
    <2>. QED
      BY <1>3, <2>1, <2>2
  <1>13. ASSUME Terminated(file, n)  PROVE Above(file, n, b)
    <2>. SUFFICES ASSUME NEW i \in 1 .. n, NEW j \in 1 .. 2 * Len(ids),
                         IsEvent(file[i]), IsEvent(b[j])
                  PROVE  file[i].seq < b[j].seq
      BY <1>4 DEF Above
    <2>1. file[i].seq < NextSequence /\ file[i].seq \in Int
      BY <1>3, <1>13 DEF RiseInv, Numbered
    <2>2. j % 2 = 1 /\ b[j].seq = NextSequence + (j + 1) \div 2 - 1
      BY <1>10
    <2>3. (j + 1) \div 2 \in Int /\ (j + 1) \div 2 >= 1
      BY <1>8, <2>2
    <2>. QED
      BY <1>3, <2>1, <2>2, <2>3
  <1>14. Ready(file', base'[c], batch'[c])
    BY <1>1, <1>9, <1>11, <1>12, <1>13 DEF Ready
  <1>15. \A d \in Callers : pc'[d] = "write" => Ready(file', base'[d], batch'[d])
    BY <1>1, <1>14 DEF RiseInv
  <1>16. \A d \in Callers : next'[d].count \in Int
    <2>1. next'[c].count \in Int
      BY <1>1, <1>2, <1>3
    <2>. QED
      BY <1>1, <2>1 DEF RiseInv
  <1>17. Rises(file)' /\ NoBlank(file)' /\ Numbered(file)'
    BY <1>1, RiseUnchangedFile
  <1>. QED
    BY <1>1, <1>15, <1>16, <1>17 DEF RiseInv, Rises, NoBlank, Numbered, Ready, Sound, Line,
       Terminated, Above, Within

\* A batch stays ready for a file that begins as the one it was prepared for.
LEMMA ReadyAgain ==
    ASSUME NEW s, NEW u, NEW n \in Nat, NEW t, Ready(s, n, t), \A i \in 1 .. n : u[i] = s[i]
    PROVE  Ready(u, n, t)
  <1>1. ASSUME Terminated(u, n)  PROVE Terminated(s, n)
    <2>. SUFFICES ASSUME NEW p \in 1 .. n, s[p] # Newline  PROVE p < n /\ Line(s, p)
      BY DEF Terminated
    <2>1. p < n /\ Line(u, p)
      BY <1>1 DEF Terminated
    <2>2. p + 1 \in 1 .. n /\ (p # 1 => p - 1 \in 1 .. n)
      BY <2>1
    <2>. QED
      BY <2>1, <2>2 DEF Line
  <1>2. Above(s, n, t) => Above(u, n, t)
    BY DEF Above
  <1>. QED
    BY <1>1, <1>2 DEF Ready

LEMMA RiseWritePart ==
    ASSUME MetadataInv, OnceInv, RiseInv, NEW c \in Callers, WritePart(c)  PROVE RiseInv'
  <1>. DEFINE b == batch[c]
              n == Len(file)
  <1>1. /\ pc[c] = "write" /\ base[c] = n /\ IsSeq(file) /\ IsSeq(b) /\ BatchOf(b, call[c].op)
        /\ Ready(file, n, b) /\ UNCHANGED <<meta, next, pc, batch, base>>
    BY DEF WritePart, OnceInv, RiseInv, local
  <1>2. n \in Nat /\ Len(b) \in Nat
    BY <1>1, LenProperties DEF IsSeq
  <1>a. PICK k \in 0 .. Len(b) - 1 : \E part \in Cuts(b, k) : file' = file \o part
    BY DEF WritePart
  <1>3. PICK part \in Cuts(b, k) : file' = file \o part
    BY <1>a
  <1>4. k \in 0 .. Len(b)
    BY <1>2, <1>3
  <1>5. /\ IsSeq(part) /\ Len(part) \in Nat
        /\ \A i \in 1 .. Len(part) : (i \in 1 .. k /\ part[i] = b[i]) \/ part[i] = Fragment
        /\ b = <<>> => part = <<>>
        /\ \A i \in 1 .. Len(part) : i \in 1 .. Len(b)
    BY <1>1, <1>3, <1>4, CutLeaves
  <1>6. part # <<>> => part[1].kind # "newline"
    <2>. SUFFICES ASSUME part # <<>>  PROVE part[1].kind # "newline"
      OBVIOUS
    <2>1. 1 \in 1 .. Len(part)
      BY <1>5, EmptySeq DEF IsSeq
    <2>. QED
      BY <1>1, <1>5, <2>1 DEF BatchOf, Fragment
  <1>7. NoBlank(part) /\ Numbered(part) /\ Within(part)
    BY <1>1, <1>3, <1>4, CutRises DEF Ready
  <1>8. ASSUME Terminated(file, n)  PROVE Above(file, n, part)
    <2>. SUFFICES ASSUME NEW i \in 1 .. n, NEW j \in 1 .. Len(part),
                         IsEvent(file[i]), IsEvent(part[j])
                  PROVE  file[i].seq < part[j].seq
      BY DEF Above
    <2>1. part[j] = b[j] /\ j \in 1 .. Len(b)
      BY <1>5, EventIsNoMark
    <2>. QED
      BY <1>1, <1>8, <2>1 DEF Ready, Above
  <1>9. Ready(file, n, part)
    BY <1>7, <1>8 DEF Ready
  <1>10. Rises(file \o part) /\ NoBlank(file \o part) /\ Numbered(file \o part)
    BY <1>1, <1>5, <1>6, <1>9, AppendRises DEF RiseInv
  <1>11. Ready(file', base[c], b)
    <2>1. \A i \in 1 .. n : file'[i] = file[i]
      BY <1>1, <1>3, <1>5, Joined
    <2>2. n \in Nat /\ base[c] = n /\ Ready(file, n, b)
      BY <1>1, <1>2
    <2>. HIDE DEF n, b
    <2>. QED
      BY <2>1, <2>2, ReadyAgain
  <1>12. \A d \in Callers : pc[d] = "write" => d = c
    BY <1>1, AloneUnderLock
  <1>. DEFINE whole == file \o part
  <1>. HIDE DEF whole
  <1>13. file' = whole /\ Rises(whole) /\ NoBlank(whole) /\ Numbered(whole)
    BY <1>3, <1>10 DEF whole
  <1>14. Rises(file)' /\ NoBlank(file)' /\ Numbered(file)'
    BY <1>13 DEF Rises, NoBlank, Numbered, Sound, Line
  <1>15. meta'.count \in Int /\ \A d \in Callers : next'[d].count \in Int
    BY <1>1 DEF RiseInv
  <1>16. \A d \in Callers : pc'[d] = "write" => Ready(file', base'[d], batch'[d])
    BY <1>1, <1>11, <1>12
  <1>. QED
    BY <1>14, <1>15, <1>16, RiseMade

LEMMA RiseWrite ==
    ASSUME MetadataInv, OnceInv, RiseInv, NEW c \in Callers, Write(c)  PROVE RiseInv'
  <1>. DEFINE s == SubSeq(file, 1, base[c])
              b == batch[c]
  <1>1. /\ pc[c] = "write" /\ base[c] \in 0 .. Len(file) /\ IsSeq(file) /\ IsSeq(b)
        /\ BatchOf(b, call[c].op) /\ Ready(file, base[c], b)
        /\ file' = s \o b /\ UNCHANGED <<meta, next, batch, base>>
        /\ \A d \in Callers : pc'[d] = IF d = c THEN "sync" ELSE pc[d]
    BY DEF Write, OnceInv, RiseInv, local, Goto, MetadataInv, Domains
  <1>2. IsSeq(s) /\ Len(s) = base[c] /\ \A i \in 1 .. base[c] : s[i] = file[i]
    BY <1>1, Prefix
  <1>3. Rises(s) /\ NoBlank(s) /\ Numbered(s)
    <2>1. s \in Cuts(file, base[c])
      BY DEF Cuts
    <2>. QED
      BY <1>1, <2>1, CutRises DEF RiseInv
  <1>. HIDE DEF s
  <1>4. Ready(s, Len(s), b)
    <2>1. Len(file) \in Nat
      BY <1>1, LenProperties DEF IsSeq
    <2>2. base[c] \in Nat
      BY <1>1, <2>1
    <2>. QED
      BY <1>1, <1>2, <2>2, ReadyAgain
  <1>5. Rises(s \o b) /\ NoBlank(s \o b) /\ Numbered(s \o b)
    BY <1>1, <1>2, <1>3, <1>4, AppendRises DEF BatchOf
  <1>6. \A d \in Callers : pc'[d] # "write"
    BY <1>1, AloneUnderLock
  <1>. DEFINE whole == s \o b
  <1>. HIDE DEF whole
  <1>7. file' = whole /\ Rises(whole) /\ NoBlank(whole) /\ Numbered(whole)
    BY <1>1, <1>5 DEF whole, s
  <1>8. Rises(file)' /\ NoBlank(file)' /\ Numbered(file)'
    BY <1>7 DEF Rises, NoBlank, Numbered, Sound, Line
  <1>. QED
    BY <1>1, <1>6, <1>8, RiseQuiet DEF RiseInv

LEMMA RiseTruncate ==
    ASSUME MetadataInv, OnceInv, RiseInv, NEW c \in Callers, Truncate(c)  PROVE RiseInv'
  <1>1. /\ pc[c] = "truncate" /\ UNCHANGED <<meta, next, batch, base>>
        /\ \A d \in Callers \ {c} : pc'[d] = pc[d]
        /\ pc'[c] \in {"recount", "unlock"}
    BY DEF Truncate, Goto, local, MetadataInv, Domains
  <1>2. \A d \in Callers : pc'[d] # "write"
    BY <1>1, AloneUnderLock
  <1>3. Rises(file)' /\ NoBlank(file)' /\ Numbered(file)'
    <2>1. CASE Readable
      <3>1. file' = Kept(call[c].keep)
        BY <2>1 DEF Truncate
      <3>2. Rises(file') /\ NoBlank(file') /\ Numbered(file')
        BY <2>1, <3>1, KeptRises DEF OnceInv, RiseInv
      <3>. QED
        BY <3>2 DEF Rises, NoBlank, Numbered, Sound, Line
    <2>2. CASE ~Readable
      BY <2>2, RiseUnchangedFile DEF Truncate
    <2>. QED
      BY <2>1, <2>2
  <1>. QED
    BY <1>1, <1>2, <1>3, RiseQuiet DEF RiseInv

LEMMA RisePowerLoss ==
    ASSUME MetadataInv, OnceInv, RiseInv, PowerLoss  PROVE RiseInv'
  <1>a. PICK k \in synced .. Len(file) :
            \E cut \in Cuts(file, k) : file' = cut /\ synced' = Len(cut)
    BY DEF PowerLoss
  <1>1. PICK cut \in Cuts(file, k) : file' = cut
    BY <1>a
  <1>2. IsSeq(file) /\ k \in 0 .. Len(file)
    <2>1. Len(file) \in Nat /\ synced \in Nat
      BY LenProperties DEF OnceInv, IsSeq
    <2>. QED
      BY <1>1, <2>1 DEF OnceInv
  <1>3. Rises(file') /\ NoBlank(file') /\ Numbered(file')
    BY <1>1, <1>2, CutRises DEF RiseInv
  <1>4. Rises(file)' /\ NoBlank(file)' /\ Numbered(file)'
    BY <1>3 DEF Rises, NoBlank, Numbered, Sound, Line
  <1>. QED
    BY <1>4, RiseOver DEF PowerLoss

LEMMA NextRiseInv == MetadataInv /\ OnceInv /\ RiseInv /\ [Next]_vars => RiseInv'
  <1>. SUFFICES ASSUME MetadataInv, OnceInv, RiseInv, [Next]_vars  PROVE RiseInv'
    OBVIOUS
  <1>1. CASE UNCHANGED vars
    <2>1. UNCHANGED <<file, meta, next, pc, base, batch>>
      BY <1>1 DEF vars, files, local
    <2>. QED
      BY <2>1, RiseUnchangedFile, RiseQuiet DEF RiseInv
  <1>2. ASSUME NEW c \in Callers, Unlock(c) \/ Kill(c)  PROVE RiseInv'
    <2>1. Over({c}) /\ UNCHANGED <<file, meta>>
      BY <1>2 DEF Unlock, Kill, files
    <2>. QED
      BY <2>1, RiseOver, RiseUnchangedFile
  <1>3. ASSUME NEW c \in Callers, Step(c)  PROVE RiseInv'
    BY <1>2, <1>3, RiseOthers, RisePrepareAppend, RiseWritePart, RiseWrite, RiseTruncate DEF Step
  <1>4. ASSUME NEW c \in Callers, Begin(c) \/ LockSession(c)  PROVE RiseInv'
    BY <1>4, RiseOthers
  <1>. QED
    BY <1>1, <1>2, <1>3, <1>4, RisePowerLoss DEF Next

\* In a log that can be read the sequences rise from line to line, wherever
\* crashes and rewinds have left the metadata's count (appendPreparedEventsLocked
\* takes the next sequence from the log when the count is behind).
THEOREM SequencesAlwaysRise == Spec => []SequencesRise
  <1>1. OnceInv /\ RiseInv => SequencesRise
    <2>. SUFFICES ASSUME OnceInv, RiseInv, Readable, NEW i \in Read, NEW j \in Read, i < j
                  PROVE  file[i].seq < file[j].seq
      BY DEF SequencesRise
    <2>. DEFINE n == Len(file)
    <2>1. DOMAIN file = 1 .. n /\ n \in Nat
      BY LenProperties DEF OnceInv, IsSeq
    <2>2. /\ i \in 1 .. n /\ j \in 1 .. n /\ IsEvent(file[i]) /\ IsEvent(file[j])
          /\ Whole(j)
      BY <2>1 DEF Read, Whole
    <2>3. Sound(file, j)
      <3>. SUFFICES ASSUME NEW p \in 1 .. j, p < j, file[p] # Newline  PROVE Line(file, p)
        BY DEF Sound
      <3>. HIDE DEF n
      <3>1. j # 1 /\ p \in 1 .. n /\ p # n /\ j - 1 \in p .. n
        <4>1. n \in Nat
          BY <2>1
        <4>. QED
          BY <2>2, <4>1
      <3>2. file[j - 1] = Newline
        BY <2>2, <3>1 DEF Whole
      <3>3. Whole(p)
        BY <2>1, <3>1, <3>2 DEF Readable, n
      <3>. QED
        BY <3>1, <3>3 DEF Whole, Line, n
    <2>. QED
      BY <2>2, <2>3 DEF RiseInv, Rises
  <1>2. Init => MetadataInv /\ OnceInv /\ RiseInv
    BY InitMetadataInv, InitOnceInv, InitRiseInv
  <1>3. MetadataInv /\ OnceInv /\ RiseInv /\ [Next]_vars => MetadataInv' /\ OnceInv' /\ RiseInv'
    BY NextMetadataInv, NextOnceInv, NextRiseInv
  <1>. QED
    BY <1>1, <1>2, <1>3, PTL DEF Spec

-----------------------------------------------------------------------------
(* AckedReadable.  An acknowledged event lies, newline included, in the part  *)
(* of the log that the last fsync covered, which no crash takes away.         *)

\* The event is a terminated line within the first n pieces, if lines before
\* it do not matter.
Held(s, n, id) ==
    \E i \in 1 .. Len(s) : i < n /\ n <= Len(s) /\ IsEvent(s[i]) /\ s[i].id = id /\ s[i + 1] = Newline

Carries(t, ids) ==
    \A m \in 1 .. Len(ids) :
        \E i \in 1 .. Len(t) : i < Len(t) /\ IsEvent(t[i]) /\ t[i].id = ids[m] /\ t[i + 1] = Newline

AckInv ==
    /\ synced <= Len(file)
    /\ \A id \in acked : Held(file, synced, id)
    /\ \A c \in Callers :
        /\ DOMAIN call[c].ids = 1 .. Len(call[c].ids)
        /\ call[c].keep \in Int
        /\ pc[c] = "write" => synced <= base[c] /\ Carries(batch[c], call[c].ids)
        /\ pc[c] = "sync" => \A m \in 1 .. Len(call[c].ids) : Held(file, Len(file), call[c].ids[m])
        /\ pc[c] = "meta" /\ Appended(c) =>
               \A m \in 1 .. Len(call[c].ids) : Held(file, synced, call[c].ids[m])

\* AckInv without its part about the callers.
AckFiles == synced <= Len(file) /\ \A id \in acked : Held(file, synced, id)

LEMMA InitAckInv == Init => AckInv
  <1>1. Len(<< >>) = 0 /\ DOMAIN << >> = 1 .. 0
    OBVIOUS
  <1>. QED
    BY <1>1 DEF Init, AckInv, NoCall, Held

\* A step after which nobody is in a place that AckInv speaks of who was not
\* there before, with the same log.
LEMMA AckQuiet ==
    ASSUME AckInv, AckFiles',
           \A d \in Callers : DOMAIN call'[d].ids = 1 .. Len(call'[d].ids) /\ call'[d].keep \in Int,
           \A d \in Callers :
               \/ pc'[d] \notin {"write", "sync", "meta"}
               \/ pc'[d] = "meta" /\ ~Appended(d)'
               \/ UNCHANGED <<file, synced, pc[d], call[d], batch[d], base[d]>>
    PROVE  AckInv'
  <1>1. ASSUME NEW d \in Callers
        PROVE  /\ pc'[d] = "write" => synced' <= base'[d] /\ Carries(batch'[d], call'[d].ids)
               /\ pc'[d] = "sync" =>
                    \A m \in 1 .. Len(call'[d].ids) : Held(file', Len(file'), call'[d].ids[m])
               /\ pc'[d] = "meta" /\ Appended(d)' =>
                    \A m \in 1 .. Len(call'[d].ids) : Held(file', synced', call'[d].ids[m])
    <2>1. CASE UNCHANGED <<file, synced, pc[d], call[d], batch[d], base[d]>>
      BY <2>1 DEF AckInv, Appended
    <2>2. CASE pc'[d] \notin {"write", "sync", "meta"} \/ (pc'[d] = "meta" /\ ~Appended(d)')
      BY <2>2
    <2>. QED
      BY <2>1, <2>2
  <1>. QED
    BY <1>1 DEF AckInv, AckFiles, Held, Carries, Appended

LEMMA AckFilesKept ==
    ASSUME AckInv, UNCHANGED <<file, synced, acked>>
    PROVE  AckFiles'
BY DEF AckInv, AckFiles, Held

LEMMA AckBegin ==
    ASSUME MetadataInv, RiseInv, AckInv, NEW c \in Callers, Begin(c)  PROVE AckInv'
  <1>1. ASSUME NEW op \in Ops, NEW n \in Nat, NEW title, NEW keep \in Int, Ask(c, op, n, title, keep)
        PROVE  AckInv'
    <2>1. /\ UNCHANGED <<file, synced, acked, batch, base>>
          /\ \A d \in Callers \ {c} : pc'[d] = pc[d] /\ call'[d] = call[d]
          /\ pc'[c] = "wait" /\ call'[c].ids = [i \in 1 .. n |-> issued + i]
          /\ call'[c].keep = keep
      BY <1>1 DEF Ask, Goto, files, local, MetadataInv, Domains
    <2>2. DOMAIN call'[c].ids = 1 .. Len(call'[c].ids)
      BY <2>1
    <2>3. \A d \in Callers : DOMAIN call'[d].ids = 1 .. Len(call'[d].ids) /\ call'[d].keep \in Int
      BY <2>1, <2>2 DEF AckInv
    <2>. QED
      BY <2>1, <2>3, AckQuiet, AckFilesKept
  <1>2. CASE AppendEvents(c)
    BY <1>1, <1>2, BatchAssumption DEF AppendEvents, Ops
  <1>3. CASE AppendEventUnlessExists(c) \/ RecordSpec(c) \/ UpdateTitle(c)
    BY <1>1, <1>3 DEF AppendEventUnlessExists, RecordSpec, UpdateTitle, Ops
  <1>4. CASE TruncateEvents(c)
    <2>1. PICK keep \in 0 .. meta.count : Ask(c, "truncate", 1, "none", keep)
      BY <1>4 DEF TruncateEvents
    <2>2. keep \in Int
      BY DEF RiseInv
    <2>. QED
      BY <1>1, <2>1, <2>2 DEF Ops
  <1>. QED
    BY <1>2, <1>3, <1>4 DEF Begin

\* Steps of a call that leave the log, what is synced and acknowledged alone,
\* and do not come to the metadata with a batch.
LEMMA AckOthers ==
    ASSUME MetadataInv, AckInv, NEW c \in Callers,
           \/ LockSession(c) \/ CheckExists(c) \/ PrepareTitle(c) \/ PrepareSpec(c) \/ Recount(c)
           \/ Fail(c) \/ FailLate(c)
    PROVE  AckInv'
  <1>1. UNCHANGED <<file, synced, acked, call, batch, base>>
    BY DEF LockSession, CheckExists, PrepareTitle, PrepareSpec, Recount, Fail, FailLate,
       files, local, ghost
  <1>2. \A d \in Callers \ {c} : pc'[d] = pc[d]
    BY DEF LockSession, CheckExists, PrepareTitle, PrepareSpec, Recount, Fail, FailLate, Goto,
       MetadataInv, Domains
  <1>3. pc'[c] \notin {"write", "sync", "meta"} \/ (pc'[c] = "meta" /\ ~Appended(c))
    <2>1. LockSession(c) => call[c].op \in Ops
      BY DEF LockSession, MetadataInv, Places
    <2>2. PrepareTitle(c) \/ PrepareSpec(c) \/ Recount(c) => ~Appended(c)
      BY DEF PrepareTitle, PrepareSpec, Recount, MetadataInv, Places, Appended
    <2>3. LockSession(c) => pc'[c] \notin {"write", "sync", "meta"}
      BY <2>1 DEF LockSession, Goto, MetadataInv, Domains, Ops
    <2>4. CheckExists(c) \/ Fail(c) \/ FailLate(c) => pc'[c] \notin {"write", "sync", "meta"}
      BY DEF CheckExists, Fail, FailLate, Goto, MetadataInv, Domains
    <2>5. PrepareTitle(c) \/ PrepareSpec(c) \/ Recount(c) => pc'[c] \in {"meta", "unlock"}
      BY DEF PrepareTitle, PrepareSpec, Recount, Goto, MetadataInv, Domains
    <2>. QED
      BY <2>2, <2>3, <2>4, <2>5
  <1>4. Appended(c)' <=> Appended(c)
    BY <1>1 DEF Appended
  <1>5. \A d \in Callers : DOMAIN call'[d].ids = 1 .. Len(call'[d].ids) /\ call'[d].keep \in Int
    BY <1>1 DEF AckInv
  <1>6. AckFiles'
    BY <1>1, AckFilesKept
  <1>7. ASSUME NEW d \in Callers
        PROVE  \/ pc'[d] \notin {"write", "sync", "meta"}
               \/ pc'[d] = "meta" /\ ~Appended(d)'
               \/ UNCHANGED <<file, synced, pc[d], call[d], batch[d], base[d]>>
    <2>1. CASE d = c
      BY <1>3, <1>4, <2>1
    <2>2. CASE d # c
      BY <1>1, <1>2, <2>2
    <2>. QED
      BY <2>1, <2>2
  <1>. QED
    BY <1>5, <1>6, <1>7, AckQuiet

LEMMA AckOver ==
    ASSUME AckInv, NEW those \in SUBSET Callers, Over(those), AckFiles',
           those = Callers \/ UNCHANGED <<file, synced>>
    PROVE  AckInv'
  <1>1. << >> = [i \in 1 .. 0 |-> i] /\ DOMAIN << >> = 1 .. 0 /\ Len(<< >>) = 0
    OBVIOUS
  <1>2. ASSUME NEW d \in Callers
        PROVE  /\ DOMAIN call'[d].ids = 1 .. Len(call'[d].ids) /\ call'[d].keep \in Int
               /\ \/ pc'[d] = "idle"
                  \/ UNCHANGED <<file, synced, pc[d], call[d], batch[d], base[d]>>
    <2>1. CASE d \in those
      BY <1>1, <2>1 DEF Over, NoCall
    <2>2. CASE d \notin those
      BY <2>2 DEF Over, AckInv
    <2>. QED
      BY <2>1, <2>2
  <1>. QED
    BY <1>2, AckQuiet

LEMMA AckPrepareAppend ==
    ASSUME MetadataInv, OnceInv, AckInv, NEW c \in Callers, PrepareAppend(c)  PROVE AckInv'
  <1>. DEFINE ids == call[c].ids
              op == call[c].op
              kind == IF op = "append" THEN "event" ELSE op
              event(i) == [kind |-> kind, seq |-> NextSequence + i - 1, id |-> ids[i]]
              b == [j \in 1 .. 2 * Len(ids) |->
                        IF j % 2 = 1 THEN event((j + 1) \div 2) ELSE Newline]
  <1>1. /\ pc[c] = "append" /\ pc'[c] = "write" /\ batch'[c] = b /\ base'[c] = Len(file)
        /\ \A d \in Callers \ {c} : pc'[d] = pc[d] /\ batch'[d] = batch[d] /\ base'[d] = base[d]
        /\ UNCHANGED <<file, synced, acked, call>>
    BY DEF PrepareAppend, Goto, files, ghost, MetadataInv, Domains, OnceInv
  <1>2. op \in {"append", "once", "spec"} /\ Len(ids) \in Nat \ {0} /\ kind \in Kinds
    BY <1>1 DEF MetadataInv, Places, Kinds
  <1>3. Len(b) = 2 * Len(ids)
    <2>1. 2 * Len(ids) \in Nat
      BY <1>2
    <2>2. b = [j \in 1 .. 2 * Len(ids) |-> b[j]]
      OBVIOUS
    <2>. HIDE DEF b, ids
    <2>. QED
      BY <2>1, <2>2, MadeSeq
  <1>4. Carries(b, ids)
    <2>. SUFFICES ASSUME NEW m \in 1 .. Len(ids)
                  PROVE  \E i \in 1 .. Len(b) : /\ i < Len(b) /\ IsEvent(b[i]) /\ b[i].id = ids[m]
                                               /\ b[i + 1] = Newline
      BY DEF Carries
    <2>. DEFINE i == 2 * m - 1
    <2>1. /\ i \in 1 .. 2 * Len(ids) /\ i < 2 * Len(ids) /\ i % 2 = 1 /\ (i + 1) \div 2 = m
          /\ i + 1 \in 1 .. 2 * Len(ids) /\ (i + 1) % 2 # 1
      BY <1>2, EventPlace
    <2>. HIDE DEF i
    <2>2. b[i] = event(m) /\ b[i + 1] = Newline
      BY <2>1
    <2>. HIDE DEF b, kind, ids
    <2>a. b[i].kind = kind /\ b[i].id = ids[m]
      BY <2>2
    <2>3. IsEvent(b[i]) /\ b[i].id = ids[m]
      BY <1>2, <2>a DEF IsEvent
    <2>. QED
      BY <1>3, <2>1, <2>2, <2>3
  <1>. HIDE DEF b
  <1>5. AckFiles'
    BY <1>1, AckFilesKept
  <1>6. ASSUME NEW d \in Callers
        PROVE  /\ DOMAIN call'[d].ids = 1 .. Len(call'[d].ids)
               /\ call'[d].keep \in Int
               /\ pc'[d] = "write" => synced' <= base'[d] /\ Carries(batch'[d], call'[d].ids)
               /\ pc'[d] = "sync" =>
                    \A m \in 1 .. Len(call'[d].ids) : Held(file', Len(file'), call'[d].ids[m])
               /\ pc'[d] = "meta" /\ Appended(d)' =>
                    \A m \in 1 .. Len(call'[d].ids) : Held(file', synced', call'[d].ids[m])
    <2>1. CASE d = c
      BY <1>1, <1>4, <2>1 DEF AckInv
    <2>2. CASE d # c
      BY <1>1, <2>2 DEF AckInv, Appended
    <2>. QED
      BY <2>1, <2>2
  <1>. QED
    BY <1>5, <1>6 DEF AckInv, AckFiles, Held, Carries, Appended

\* What is held stays held in a file that begins with it.
LEMMA HeldAgain ==
    ASSUME NEW s, NEW u, NEW n \in Nat, NEW id, Held(s, n, id), Len(s) \in Nat, Len(u) \in Nat,
           n <= Len(u), \A i \in 1 .. n : u[i] = s[i]
    PROVE  Held(u, n, id)
  <1>1. PICK i \in 1 .. Len(s) : /\ i < n /\ IsEvent(s[i]) /\ s[i].id = id /\ s[i + 1] = Newline
    BY DEF Held
  <1>2. i \in 1 .. Len(u) /\ i \in 1 .. n /\ i + 1 \in 1 .. n
    BY <1>1
  <1>. QED
    BY <1>1, <1>2 DEF Held

LEMMA AckWritePart ==
    ASSUME MetadataInv, OnceInv, AckInv, NEW c \in Callers, WritePart(c)  PROVE AckInv'
  <1>1. /\ pc[c] = "write" /\ base[c] = Len(file) /\ IsSeq(file) /\ IsSeq(batch[c])
        /\ UNCHANGED <<synced, pc, call, batch, base, acked>>
    BY DEF WritePart, OnceInv, local, ghost
  <1>2. Len(file) \in Nat /\ Len(batch[c]) \in Nat /\ synced \in Nat
    BY <1>1, LenProperties DEF IsSeq, OnceInv
  <1>a. PICK k \in 0 .. Len(batch[c]) - 1 : \E part \in Cuts(batch[c], k) : file' = file \o part
    BY DEF WritePart
  <1>3. PICK part \in Cuts(batch[c], k) : file' = file \o part
    BY <1>a
  <1>4. k \in 0 .. Len(batch[c])
    BY <1>2, <1>3
  <1>5. IsSeq(part)
    BY <1>1, <1>3, <1>4, CutLeaves
  <1>6. /\ Len(file') = Len(file) + Len(part) /\ Len(part) \in Nat
        /\ \A i \in 1 .. Len(file) : file'[i] = file[i]
    BY <1>1, <1>3, <1>5, Joined
  <1>7. synced <= Len(file) /\ synced <= Len(file') /\ Len(file') \in Nat
        /\ \A i \in 1 .. synced : file'[i] = file[i]
    BY <1>2, <1>6 DEF AckInv
  <1>8. \A id \in acked : Held(file', synced, id)
    BY <1>2, <1>7, HeldAgain DEF AckInv
  <1>9. \A d \in Callers \ {c} : pc[d] \in {"idle", "wait"}
    BY <1>1, AloneUnderLock
  <1>10. ASSUME NEW d \in Callers
         PROVE  /\ DOMAIN call'[d].ids = 1 .. Len(call'[d].ids)
                /\ call'[d].keep \in Int
                /\ pc'[d] = "write" => synced' <= base'[d] /\ Carries(batch'[d], call'[d].ids)
                /\ pc'[d] = "sync" =>
                     \A m \in 1 .. Len(call'[d].ids) : Held(file', Len(file'), call'[d].ids[m])
                /\ pc'[d] = "meta" /\ Appended(d)' =>
                     \A m \in 1 .. Len(call'[d].ids) : Held(file', synced', call'[d].ids[m])
    BY <1>1, <1>9 DEF AckInv
  <1>. QED
    BY <1>1, <1>7, <1>8, <1>10 DEF AckInv, Held, Carries, Appended

LEMMA AckWrite ==
    ASSUME MetadataInv, OnceInv, AckInv, NEW c \in Callers, Write(c)  PROVE AckInv'
  <1>. DEFINE s == SubSeq(file, 1, base[c])
              b == batch[c]
              n == base[c]
  <1>1. /\ pc[c] = "write" /\ n \in 0 .. Len(file) /\ IsSeq(file) /\ IsSeq(b)
        /\ synced <= n /\ Carries(b, call[c].ids)
        /\ file' = s \o b /\ UNCHANGED <<synced, acked, call, batch, base>>
        /\ \A d \in Callers : pc'[d] = IF d = c THEN "sync" ELSE pc[d]
    BY DEF Write, OnceInv, AckInv, local, ghost, Goto, MetadataInv, Domains
  <1>2. IsSeq(s) /\ Len(s) = n /\ \A i \in 1 .. n : s[i] = file[i]
    BY <1>1, Prefix
  <1>3. Len(file) \in Nat /\ synced \in Nat
    BY <1>1, LenProperties DEF IsSeq, OnceInv
  <1>. HIDE DEF s
  <1>4. /\ Len(file') = n + Len(b) /\ n \in Nat /\ Len(b) \in Nat
        /\ \A i \in 1 .. n : file'[i] = file[i]
        /\ \A i \in 1 .. Len(b) : file'[n + i] = b[i]
    <2>1. /\ Len(s \o b) = Len(s) + Len(b) /\ Len(s) \in Nat /\ Len(b) \in Nat
          /\ \A i \in 1 .. Len(s) : (s \o b)[i] = s[i]
          /\ \A i \in 1 .. Len(b) : (s \o b)[Len(s) + i] = b[i]
      <3>1. IsSeq(s) /\ IsSeq(b)
        BY <1>1, <1>2
      <3>. HIDE DEF b
      <3>. QED
        BY <3>1, Joined
    <2>. HIDE DEF n, b
    <2>. QED
      BY <1>1, <1>2, <2>1
  <1>. HIDE DEF n, b
  <1>5. synced <= Len(file') /\ Len(file') \in Nat /\ \A i \in 1 .. synced : file'[i] = file[i]
    BY <1>1, <1>3, <1>4
  <1>6. \A id \in acked : Held(file', synced, id)
    BY <1>3, <1>5, HeldAgain DEF AckInv
  <1>7. ASSUME NEW m \in 1 .. Len(call[c].ids)  PROVE Held(file', Len(file'), call[c].ids[m])
    <2>1. PICK i \in 1 .. Len(b) : /\ i < Len(b) /\ IsEvent(b[i]) /\ b[i].id = call[c].ids[m]
                                   /\ b[i + 1] = Newline
      BY <1>1 DEF Carries
    <2>2. /\ n + i \in 1 .. Len(file') /\ n + i < Len(file') /\ i + 1 \in 1 .. Len(b)
          /\ (n + i) + 1 = n + (i + 1)
      BY <1>4, <2>1
    <2>3. file'[n + i] = b[i] /\ file'[(n + i) + 1] = Newline
      BY <1>4, <2>1, <2>2
    <2>4. Len(file') <= Len(file')
      BY <1>5
    <2>. QED
      BY <2>1, <2>2, <2>3, <2>4 DEF Held
  <1>8. \A d \in Callers \ {c} : pc'[d] \in {"idle", "wait"}
    BY <1>1, AloneUnderLock
  <1>9. ASSUME NEW d \in Callers
        PROVE  /\ DOMAIN call'[d].ids = 1 .. Len(call'[d].ids)
               /\ call'[d].keep \in Int
               /\ pc'[d] = "write" => synced' <= base'[d] /\ Carries(batch'[d], call'[d].ids)
               /\ pc'[d] = "sync" =>
                    \A m \in 1 .. Len(call'[d].ids) : Held(file', Len(file'), call'[d].ids[m])
               /\ pc'[d] = "meta" /\ Appended(d)' =>
                    \A m \in 1 .. Len(call'[d].ids) : Held(file', synced', call'[d].ids[m])
    <2>1. CASE d = c
      BY <1>1, <1>7, <2>1 DEF AckInv
    <2>2. CASE d # c
      BY <1>1, <1>8, <2>2 DEF AckInv
    <2>. QED
      BY <2>1, <2>2
  <1>10. AckFiles'
    <2>1. synced' = synced /\ acked' = acked
      BY <1>1
    <2>. QED
      BY <1>5, <1>6, <2>1 DEF AckFiles, Held
  <1>. QED
    BY <1>9, <1>10 DEF AckInv, AckFiles, Held, Carries, Appended

LEMMA AckSync ==
    ASSUME MetadataInv, OnceInv, AckInv, NEW c \in Callers, Sync(c)  PROVE AckInv'
  <1>1. /\ pc[c] = "sync" /\ synced' = Len(file) /\ UNCHANGED <<file, acked, call, batch, base>>
        /\ \A d \in Callers : pc'[d] = IF d = c THEN "meta" ELSE pc[d]
    BY DEF Sync, local, ghost, Goto, MetadataInv, Domains
  <1>2. Len(file) \in Nat /\ synced \in Nat
    BY LenProperties DEF IsSeq, OnceInv
  <1>3. \A id \in acked : Held(file, Len(file), id)
    BY <1>2 DEF AckInv, Held
  <1>4. \A d \in Callers \ {c} : pc'[d] \in {"idle", "wait"}
    BY <1>1, AloneUnderLock
  <1>5. ASSUME NEW d \in Callers
        PROVE  /\ DOMAIN call'[d].ids = 1 .. Len(call'[d].ids)
               /\ call'[d].keep \in Int
               /\ pc'[d] = "write" => synced' <= base'[d] /\ Carries(batch'[d], call'[d].ids)
               /\ pc'[d] = "sync" =>
                    \A m \in 1 .. Len(call'[d].ids) : Held(file', Len(file'), call'[d].ids[m])
               /\ pc'[d] = "meta" /\ Appended(d)' =>
                    \A m \in 1 .. Len(call'[d].ids) : Held(file', synced', call'[d].ids[m])
    <2>1. CASE d = c
      BY <1>1, <2>1 DEF AckInv
    <2>2. CASE d # c
      BY <1>1, <1>4, <2>2 DEF AckInv
    <2>. QED
      BY <2>1, <2>2
  <1>6. synced' <= Len(file')
    BY <1>1, <1>2
  <1>. QED
    BY <1>1, <1>3, <1>5, <1>6 DEF AckInv, Held, Carries, Appended

LEMMA AckWriteMetadata ==
    ASSUME MetadataInv, OnceInv, AckInv, NEW c \in Callers, WriteMetadata(c)  PROVE AckInv'
  <1>1. /\ pc[c] = "meta" /\ UNCHANGED <<file, synced, call, base>>
        /\ acked' = IF Appended(c) THEN acked \cup {call[c].ids[i] : i \in DOMAIN call[c].ids} ELSE acked
        /\ pc'[c] \in {"append", "unlock"}
        /\ \A d \in Callers \ {c} : pc'[d] = pc[d] /\ batch'[d] = batch[d]
    BY DEF WriteMetadata, Goto, MetadataInv, Domains
  <1>2. \A id \in acked' : Held(file, synced, id)
    <2>1. CASE Appended(c)
      BY <1>1, <2>1 DEF AckInv
    <2>2. CASE ~Appended(c)
      BY <1>1, <2>2 DEF AckInv
    <2>. QED
      BY <2>1, <2>2
  <1>3. AckFiles'
    <2>1. \A id \in acked' : Held(file', synced', id)
      BY <1>1, <1>2
    <2>. QED
      BY <1>1, <2>1 DEF AckInv, AckFiles, Held
  <1>4. ASSUME NEW d \in Callers
        PROVE  /\ DOMAIN call'[d].ids = 1 .. Len(call'[d].ids) /\ call'[d].keep \in Int
               /\ \/ pc'[d] \notin {"write", "sync", "meta"}
                  \/ UNCHANGED <<file, synced, pc[d], call[d], batch[d], base[d]>>
    BY <1>1 DEF AckInv
  <1>. QED
    BY <1>3, <1>4, AckQuiet

LEMMA AckTruncate ==
    ASSUME MetadataInv, OnceInv, RiseInv, AckInv, NEW c \in Callers, Truncate(c)  PROVE AckInv'
  <1>. DEFINE keep == call[c].keep
  <1>1. /\ pc[c] = "truncate" /\ UNCHANGED <<call, batch, base>>
        /\ \A d \in Callers \ {c} : pc'[d] = pc[d]
        /\ pc'[c] \in {"recount", "unlock"}
    BY DEF Truncate, Goto, local, MetadataInv, Domains
  <1>2. \A d \in Callers : pc'[d] \notin {"write", "sync", "meta"}
    BY <1>1, AloneUnderLock
  <1>3. Len(file) \in Nat /\ DOMAIN file = 1 .. Len(file) /\ synced \in Nat
    BY LenProperties DEF OnceInv, IsSeq
  <1>4. CASE Readable
    <2>1. /\ file' = Kept(keep) /\ synced' = Len(file')
          /\ acked' = acked \ {file[i].id : i \in {j \in Read : file[j].seq > keep}}
      BY <1>4 DEF Truncate
    <2>2. /\ Len(file') \in Nat
          /\ \A i \in Read : file[i].seq <= keep =>
                 \E j \in 1 .. Len(file') : j < Len(file') /\ file'[j] = file[i] /\ file'[j + 1] = Newline
      BY <2>1, KeptShape DEF OnceInv
    <2>3. ASSUME NEW id \in acked'  PROVE Held(file', Len(file'), id)
      <3>1. PICK i \in 1 .. Len(file) : /\ i < synced /\ synced <= Len(file) /\ IsEvent(file[i])
                                        /\ file[i].id = id /\ file[i + 1] = Newline
        BY <2>1 DEF AckInv, Held
      <3>2. i \in DOMAIN file /\ i + 1 \in i .. Len(file) /\ i # Len(file)
        <4>. DEFINE n == Len(file)
        <4>1. n \in Nat /\ synced \in Nat /\ i \in 1 .. n /\ i < synced /\ synced <= n
          BY <1>3, <3>1
        <4>. HIDE DEF n
        <4>2. i + 1 \in i .. n /\ i # n
          BY <4>1
        <4>. QED
          BY <1>3, <4>2 DEF n
      <3>3. Whole(i)
        BY <1>4, <3>1, <3>2, EventIsNoMark DEF Readable
      <3>4. i \in Read
        BY <3>2, <3>3 DEF Read
      <3>5. file[i].seq \in Int /\ keep \in Int
        BY DEF RiseInv, Numbered, AckInv
      <3>6. ~(file[i].seq > keep)
        BY <2>1, <3>1, <3>4
      <3>7. file[i].seq <= keep
        BY <3>5, <3>6
      <3>8. PICK j \in 1 .. Len(file') : j < Len(file') /\ file'[j] = file[i] /\ file'[j + 1] = Newline
        BY <2>2, <3>4, <3>7
      <3>. QED
        BY <2>2, <3>1, <3>8 DEF Held
    <2>4. synced' <= Len(file')
      BY <2>1, <2>2
    <2>5. AckFiles'
      BY <2>1, <2>3, <2>4 DEF AckFiles, Held
    <2>. QED
      BY <1>1, <1>2, <2>5, AckQuiet DEF AckInv
  <1>5. CASE ~Readable
    <2>1. UNCHANGED <<file, synced, acked>>
      BY <1>5 DEF Truncate
    <2>. QED
      BY <1>1, <1>2, <2>1, AckFilesKept, AckQuiet DEF AckInv
  <1>. QED
    BY <1>4, <1>5

LEMMA AckPowerLoss ==
    ASSUME MetadataInv, OnceInv, AckInv, PowerLoss  PROVE AckInv'
  <1>a. PICK k \in synced .. Len(file) :
            \E cut \in Cuts(file, k) : file' = cut /\ synced' = Len(cut)
    BY DEF PowerLoss
  <1>1. PICK cut \in Cuts(file, k) : file' = cut /\ synced' = Len(cut)
    BY <1>a
  <1>2. IsSeq(file) /\ k \in 0 .. Len(file) /\ Len(file) \in Nat /\ synced \in Nat /\ synced <= k
    <2>1. Len(file) \in Nat /\ synced \in Nat
      BY LenProperties DEF OnceInv, IsSeq
    <2>. QED
      BY <1>1, <2>1 DEF OnceInv
  <1>3. Len(cut) \in Nat /\ k <= Len(cut) /\ \A i \in 1 .. k : cut[i] = file[i]
    <2>. DEFINE p == SubSeq(file, 1, k)
    <2>1. IsSeq(p) /\ Len(p) = k /\ \A i \in 1 .. k : p[i] = file[i]
      BY <1>2, Prefix
    <2>. HIDE DEF p
    <2>2. CASE cut = p
      BY <1>2, <2>1, <2>2
    <2>3. CASE cut = Append(p, Fragment)
      <3>1. PICK T : p \in Seq(T)
        BY <2>1 DEF IsSeq
      <3>2. p \in Seq(T \cup {Fragment})
        BY <3>1, SeqMonotonic, T \subseteq T \cup {Fragment}
      <3>3. Len(cut) = k + 1 /\ \A i \in 1 .. k + 1 : cut[i] = IF i <= k THEN p[i] ELSE Fragment
        BY <2>1, <2>3, <3>2, AppendProperties
      <3>. QED
        BY <1>2, <2>1, <3>3
    <2>. QED
      BY <1>1, <2>2, <2>3 DEF Cuts, p
  <1>4. \A i \in 1 .. synced : cut[i] = file[i]
    BY <1>2, <1>3
  <1>5. synced <= Len(cut)
    BY <1>2, <1>3
  <1>6. \A id \in acked : Held(cut, synced, id)
    BY <1>2, <1>3, <1>4, <1>5, HeldAgain DEF AckInv
  <1>7. \A id \in acked : Held(cut, Len(cut), id)
    BY <1>2, <1>3, <1>5, <1>6 DEF Held
  <1>8. AckFiles'
    BY <1>1, <1>3, <1>7 DEF AckFiles, Held, PowerLoss, ghost
  <1>. QED
    BY <1>8, AckOver DEF PowerLoss

LEMMA NextAckInv == MetadataInv /\ OnceInv /\ RiseInv /\ AckInv /\ [Next]_vars => AckInv'
  <1>. SUFFICES ASSUME MetadataInv, OnceInv, RiseInv, AckInv, [Next]_vars  PROVE AckInv'
    OBVIOUS
  <1>1. CASE UNCHANGED vars
    <2>1. UNCHANGED <<file, synced, acked, pc, call, batch, base>>
      BY <1>1 DEF vars, files, local, ghost
    <2>. QED
      BY <2>1, AckFilesKept, AckQuiet DEF AckInv
  <1>2. ASSUME NEW c \in Callers, Unlock(c) \/ Kill(c)  PROVE AckInv'
    <2>1. Over({c}) /\ UNCHANGED <<file, synced, acked>>
      BY <1>2 DEF Unlock, Kill, files, ghost
    <2>. QED
      BY <2>1, AckOver, AckFilesKept
  <1>3. ASSUME NEW c \in Callers, Step(c)  PROVE AckInv'
    BY <1>2, <1>3, AckOthers, AckPrepareAppend, AckWritePart, AckWrite, AckSync, AckWriteMetadata,
       AckTruncate DEF Step
  <1>4. ASSUME NEW c \in Callers, Begin(c) \/ LockSession(c)  PROVE AckInv'
    BY <1>4, AckBegin, AckOthers
  <1>. QED
    BY <1>1, <1>2, <1>3, <1>4, AckPowerLoss DEF Next

\* An event whose append has returned is there to be read, whatever crashes
\* and losses of power followed, until a rewind takes it out or the log can no
\* longer be read (the log is fsynced before the metadata that acknowledges it).
THEOREM AcknowledgedStays == Spec => []AckedReadable
  <1>1. OnceInv /\ AckInv => AckedReadable
    <2>. SUFFICES ASSUME OnceInv, AckInv, Readable, NEW id \in acked
                  PROVE  \E i \in Read : file[i].id = id
      BY DEF AckedReadable
    <2>. DEFINE n == Len(file)
    <2>1. DOMAIN file = 1 .. n /\ n \in Nat /\ synced \in Nat
      BY LenProperties DEF OnceInv, IsSeq
    <2>2. PICK i \in 1 .. n : /\ i < synced /\ synced <= n /\ IsEvent(file[i])
                              /\ file[i].id = id /\ file[i + 1] = Newline
      BY DEF AckInv, Held
    <2>. HIDE DEF n
    <2>3. i + 1 \in i .. n
      <3>1. n \in Nat /\ synced \in Nat
        BY <2>1
      <3>. QED
        BY <2>2, <3>1
    <2>4. Whole(i)
      BY <2>1, <2>2, <2>3, EventIsNoMark DEF Readable, n
    <2>. QED
      BY <2>1, <2>2, <2>4 DEF Read
  <1>2. Init => MetadataInv /\ OnceInv /\ RiseInv /\ AckInv
    BY InitMetadataInv, InitOnceInv, InitRiseInv, InitAckInv
  <1>3. MetadataInv /\ OnceInv /\ RiseInv /\ AckInv /\ [Next]_vars
        => MetadataInv' /\ OnceInv' /\ RiseInv' /\ AckInv'
    BY NextMetadataInv, NextOnceInv, NextRiseInv, NextAckInv
  <1>. QED
    BY <1>1, <1>2, <1>3, PTL DEF Spec
=============================================================================
