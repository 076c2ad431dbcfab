----------------------------- MODULE Mailbox_proofs -----------------------------
(***************************************************************************)
(* Theorems about Mailbox: one holder at a time, and what becomes of the   *)
(* messages, for any numbers of calls, failures and messages.              *)
(***************************************************************************)
EXTENDS Mailbox, TLAPS

\* Before it has made its lock file a call has none anywhere.
Asking == {"idle", "try", "stat", "wait", "rename", "verify", "drop", "restore"}
Fresh(c) == lock # c /\ c \notin old /\ \A d \in Calls : aside[d] # c

\* Where lock files are: a call has none while it asks for the lock, and drops
\* only an old one.
FileInv ==
    /\ \A c \in Calls : pc[c] \in Asking => Fresh(c)
    /\ \A c \in Calls : pc[c] = "drop" => aside[c] \in old

\* A holder's file is at the path, or aside and young; a young one is aside only
\* with a call that has just moved it, or has died; there is one holder.
Moving == {"verify", "drop", "restore", "dead"}
HolderInv ==
    /\ \A c \in Calls : aside[c] \in Calls \ old => pc[c] \in Moving
    /\ \A c \in Calls : Holds(c) => c \notin old /\ (lock = c \/ \E d \in Calls : aside[d] = c)
    /\ \A c, d \in Calls : Holds(c) /\ Holds(d) => c = d

\* Before it has written the inbox.
Early == Asking \cup {"read", "write"}

\* What the holder is about to write is based on what is there, and results
\* agree with the inbox.
BoxInv ==
    /\ \A c \in Calls : pc[c] = "write" => seen[c] = inbox
    /\ \A s \in Senders : pc[s] \in Early => inbox[s] = "absent"
    /\ \A s \in Senders : result[s].ok => inbox[s] # "absent"
    /\ \A s \in Senders : inbox[s] = "read" => \E r \in Readers : s \in result[r].new
    /\ \A r \in Readers : \A s \in result[r].new : inbox[s] = "read"
    /\ \A r, q \in Readers : r # q => result[r].new \cap result[q].new = {}

\* A call has no result before it writes.
ResultInv == \A c \in Calls : pc[c] \in Early => result[c] = NoResult

MailInv == TypeOK /\ FileInv /\ ResultInv /\ (Undisturbed => HolderInv /\ BoxInv)

-----------------------------------------------------------------------------
LEMMA InitMailInv == Init => MailInv
  <1>. SUFFICES ASSUME Init PROVE MailInv
    OBVIOUS
  <1>1. TypeOK
    <2>1. NoResult \in [ok : BOOLEAN, new : SUBSET Senders] /\ Empty \in Inbox /\ 0 \in 0 .. MaxFaults
      BY BoundsAssumption DEF NoResult, Empty, Inbox
    <2>. QED
      BY <2>1 DEF Init, TypeOK, Holding
  <1>2. FileInv
    BY CallsAssumption DEF Init, FileInv, Asking, Fresh
  <1>3. ResultInv
    BY DEF Init, ResultInv
  <1>4. HolderInv
    BY CallsAssumption DEF Init, HolderInv, Holds, Holding
  <1>5. BoxInv
    BY DEF Init, BoxInv, Empty, NoResult, Calls, Early, Asking
  <1>. QED
    BY <1>1, <1>2, <1>3, <1>4, <1>5 DEF MailInv

\* A step of one call that leaves the files alone, and neither begins nor ends
\* its holding of the lock.
LEMMA QuietStep ==
    ASSUME MailInv, NEW c \in Calls, TypeOK',
           NEW place, At(c, place),
           place = "dead" \/ (pc[c] \in Asking /\ place \in Asking \cup {"over"}),
           place = "dead" \/ place \in Moving \/ pc[c] \notin Moving,
           place = "drop" => aside[c] \in old,
           UNCHANGED <<lockVars, boxVars, late, gap>>
    PROVE  MailInv'
  <1>1. \A d \in Calls : pc'[d] = IF d = c THEN place ELSE pc[d]
    BY DEF MailInv, TypeOK, At
  <1>2. FileInv'
    BY <1>1 DEF MailInv, FileInv, Asking, Fresh, lockVars
  <1>3. ResultInv'
    BY <1>1 DEF MailInv, ResultInv, Early, Asking, boxVars
  <1>4. \A d \in Calls : Holds(d)' => Holds(d)
    BY <1>1 DEF Holds, Holding, Asking
  <1>5. Undisturbed => HolderInv'
    BY <1>1, <1>4 DEF MailInv, HolderInv, Moving, lockVars
  <1>6. Undisturbed => BoxInv'
    BY <1>1 DEF MailInv, BoxInv, boxVars, Early, Asking, Calls
  <1>. QED
    BY <1>2, <1>3, <1>5, <1>6 DEF MailInv, Undisturbed

LEMMA NextTypeOK == TypeOK /\ [Next]_vars => TypeOK'
  <1>. SUFFICES ASSUME TypeOK, [Next]_vars PROVE TypeOK'
    OBVIOUS
  <1>. USE DEF TypeOK, At, lockVars, boxVars, Holding
  <1>1. CASE UNCHANGED vars
    BY <1>1 DEF vars
  <1>2. ASSUME Fault PROVE faults' \in 0 .. MaxFaults
    BY <1>2, BoundsAssumption DEF Fault
  <1>3. ASSUME NEW c \in Calls, Call(c) PROVE TypeOK'
    BY <1>3 DEF Call
  <1>4. ASSUME NEW c \in Calls, Create(c) PROVE TypeOK'
    BY <1>4 DEF Create, YoungAside
  <1>5. ASSUME NEW c \in Calls, Contended(c) \/ Stat(c) \/ Retry(c) \/ TimeOut(c) PROVE TypeOK'
    BY <1>5 DEF Contended, Stat, Retry, TimeOut
  <1>6. ASSUME NEW c \in Calls, CreateFails(c) \/ Die(c) PROVE TypeOK'
    BY <1>2, <1>6 DEF CreateFails, Die
  <1>7. ASSUME NEW c \in Calls, Rename(c) PROVE TypeOK'
    <2>1. /\ aside' \in [Calls -> Calls \cup {None}] /\ lock' \in Calls \cup {None}
          /\ UNCHANGED <<old, boxVars, faults, late, gap>>
      BY <1>7 DEF Rename, MoveAside, MoveFails
    <2>2. \E place \in {"verify", "try"} : pc' = [pc EXCEPT ![c] = place]
      BY <1>7 DEF Rename, MoveAside, MoveFails
    <2>. QED
      BY <2>1, <2>2
  <1>8. ASSUME NEW c \in Calls, Verify(c) PROVE TypeOK'
    BY <1>2, <1>8 DEF Verify
  <1>9. ASSUME NEW c \in Calls, Drop(c) \/ Restore(c) PROVE TypeOK'
    <2>1. CASE Drop(c)
      BY <1>2, <2>1 DEF Drop
    <2>2. CASE Restore(c)
      BY <1>2, <2>2 DEF Restore
    <2>. QED
      BY <1>9, <2>1, <2>2
  <1>10. ASSUME NEW c \in Calls, Read(c) PROVE TypeOK'
    <2>1. result' \in [Calls -> [ok : BOOLEAN, new : SUBSET Senders]]
      <3>1. result' = result \/ result' = [result EXCEPT ![c].ok = TRUE]
        BY <1>10 DEF Read
      <3>2. result \in [Calls -> [ok : BOOLEAN, new : SUBSET Senders]]
        OBVIOUS
      <3>. HIDE DEF TypeOK
      <3>. QED
        BY <3>1, <3>2
    <2>2. seen' \in [Calls -> Inbox] /\ faults' \in 0 .. MaxFaults
      BY <1>2, <1>10 DEF Read
    <2>3. /\ \E place \in {"check", "write"} : pc' = [pc EXCEPT ![c] = place]
          /\ UNCHANGED <<lockVars, inbox, late, gap>>
      BY <1>10 DEF Read
    <2>. QED
      BY <2>1, <2>2, <2>3
  <1>11. ASSUME NEW c \in Calls, Write(c) PROVE TypeOK'
    <2>1. Marked(c) \in Inbox /\ \A s \in Senders : [seen[c] EXCEPT ![s] = "unread"] \in Inbox
      BY DEF Inbox, Marked
    <2>2. inbox' \in Inbox
      BY <1>11, <2>1 DEF Write
    <2>3. result' \in [Calls -> [ok : BOOLEAN, new : SUBSET Senders]]
      <3>. DEFINE handed == IF c \in Senders THEN {} ELSE Unread(seen[c])
      <3>1. [ok |-> TRUE, new |-> handed] \in [ok : BOOLEAN, new : SUBSET Senders]
        BY DEF Unread
      <3>2. \/ result' = [result EXCEPT ![c] = [ok |-> TRUE, new |-> handed]]
            \/ result' = result
        BY <1>11 DEF Write
      <3>. HIDE DEF handed
      <3>. QED
        BY <3>1, <3>2
    <2>4. faults' \in 0 .. MaxFaults
      BY <1>2, <1>11 DEF Write
    <2>5. pc' = [pc EXCEPT ![c] = "check"] /\ UNCHANGED <<lockVars, seen, late, gap>>
      BY <1>11 DEF Write
    <2>. QED
      BY <2>2, <2>3, <2>4, <2>5
  <1>12. ASSUME NEW c \in Calls, Check(c) \/ Remove(c) PROVE TypeOK'
    BY <1>2, <1>12 DEF Check, Remove
  <1>13. ASSUME NEW c \in Calls, Age(c) PROVE TypeOK'
    BY <1>13 DEF Age, Holds
  <1>. QED
    BY <1>1, <1>3, <1>4, <1>5, <1>6, <1>7, <1>8, <1>9, <1>10, <1>11, <1>12, <1>13 DEF Next, Goes

LEMMA AskingSteps ==
    ASSUME MailInv, TypeOK', NEW c \in Calls,
           Call(c) \/ Contended(c) \/ CreateFails(c) \/ Stat(c) \/ Retry(c) \/ TimeOut(c) \/ Verify(c)
    PROVE  MailInv'
  <1>. USE DEF Asking, MailInv, FileInv, Moving
  <1>1. CASE Call(c)
    BY <1>1, QuietStep DEF Call
  <1>2. CASE Contended(c)
    BY <1>2, QuietStep DEF Contended
  <1>3. CASE CreateFails(c)
    BY <1>3, QuietStep DEF CreateFails
  <1>4. CASE Stat(c)
    <2>. DEFINE place == IF lock \in old THEN "rename" ELSE "wait"
    <2>1. place \in {"rename", "wait"}
      OBVIOUS
    <2>2. pc[c] = "stat" /\ At(c, place) /\ UNCHANGED <<lockVars, boxVars, late, gap>>
      BY <1>4 DEF Stat
    <2>. HIDE DEF place
    <2>. QED
      BY <2>1, <2>2, QuietStep
  <1>5. CASE Retry(c)
    BY <1>5, QuietStep DEF Retry
  <1>6. CASE TimeOut(c)
    BY <1>6, QuietStep DEF TimeOut
  <1>7. CASE Verify(c)
    <2>1. PICK place \in {"drop", "restore"} : At(c, place) /\ (place = "drop" => aside[c] \in old)
      BY <1>7 DEF Verify
    <2>2. pc[c] = "verify" /\ UNCHANGED <<lockVars, boxVars, late, gap>>
      BY <1>7 DEF Verify
    <2>. QED
      BY <2>1, <2>2, QuietStep
  <1>. QED
    BY <1>1, <1>2, <1>3, <1>4, <1>5, <1>6, <1>7

LEMMA CreateStep ==
    ASSUME MailInv, TypeOK', NEW c \in Calls, Create(c)
    PROVE  MailInv'
  <1>. USE DEF MailInv
  <1>1. /\ pc[c] = "try" /\ lock = None /\ lock' = c /\ aside' = aside /\ old' = old
        /\ UNCHANGED boxVars /\ late' = late /\ gap' = (gap \/ YoungAside)
        /\ \A d \in Calls : pc'[d] = IF d = c THEN "read" ELSE pc[d]
    BY DEF Create, At, TypeOK
  <1>2. Fresh(c)
    BY <1>1 DEF FileInv, Asking
  <1>3. FileInv'
    BY <1>1, <1>2 DEF FileInv, Asking, Fresh
  <1>4. ResultInv'
    BY <1>1 DEF ResultInv, Early, Asking, boxVars
  <1>5. ASSUME Undisturbed' PROVE HolderInv' /\ BoxInv'
    <2>1. Undisturbed /\ ~ YoungAside
      BY <1>1, <1>5 DEF Undisturbed
    <2>2. \A d \in Calls : ~ Holds(d)
      BY <1>1, <2>1, CallsAssumption DEF HolderInv, YoungAside
    <2>3. HolderInv'
      BY <1>1, <1>2, <2>1, <2>2 DEF HolderInv, Holds, Holding, Fresh, YoungAside
    <2>4. BoxInv'
      BY <1>1, <2>1 DEF BoxInv, boxVars, Early, Asking, Calls
    <2>. QED
      BY <2>3, <2>4
  <1>. QED
    BY <1>3, <1>4, <1>5

LEMMA RenameStep ==
    ASSUME MailInv, TypeOK', NEW c \in Calls, Rename(c)
    PROVE  MailInv'
  <1>. USE DEF MailInv
  <1>1. CASE MoveFails(c)
    BY <1>1, QuietStep DEF MoveFails, Asking, Moving
  <1>2. CASE MoveAside(c)
    <2>1. /\ pc[c] = "rename" /\ old' = old /\ UNCHANGED <<boxVars, late, gap>>
          /\ lock # None /\ lock' = None
          /\ \A d \in Calls : pc'[d] = IF d = c THEN "verify" ELSE pc[d]
          /\ \A d \in Calls : aside'[d] = IF d = c THEN lock ELSE aside[d]
      BY <1>2 DEF MoveAside, At, TypeOK
    <2>2. Undisturbed => aside[c] \notin Calls \ old
      BY <2>1 DEF HolderInv, Moving
    <2>3. FileInv'
      BY <2>1, CallsAssumption DEF FileInv, Asking, Fresh
    <2>4. ResultInv'
      BY <2>1 DEF ResultInv, Early, Asking, boxVars
    <2>5. \A d \in Calls : Holds(d)' <=> Holds(d)
      BY <2>1 DEF Holds, Holding
    <2>6. ASSUME Undisturbed PROVE HolderInv'
      <3>1. ASSUME NEW d \in Calls, Holds(d)
            PROVE d \notin old /\ \E e \in Calls : aside'[e] = d
        <4>1. d \notin old /\ (lock = d \/ \E e \in Calls : aside[e] = d)
          BY <2>6, <3>1 DEF HolderInv
        <4>. QED
          BY <2>1, <2>2, <2>6, <4>1, CallsAssumption
      <3>2. \A d \in Calls : aside'[d] \in Calls \ old => pc'[d] \in Moving
        BY <2>1, <2>6 DEF HolderInv, Moving
      <3>. QED
        BY <2>1, <2>5, <2>6, <3>1, <3>2 DEF HolderInv
    <2>7. Undisturbed => BoxInv'
      BY <2>1 DEF BoxInv, boxVars, Early, Asking, Calls
    <2>. QED
      BY <2>1, <2>3, <2>4, <2>6, <2>7 DEF Undisturbed
  <1>. QED
    BY <1>1, <1>2 DEF Rename

LEMMA DropStep ==
    ASSUME MailInv, TypeOK', NEW c \in Calls, Drop(c)
    PROVE  MailInv'
  <1>. USE DEF MailInv
  <1>1. /\ pc[c] = "drop" /\ aside[c] \in old /\ UNCHANGED <<lock, old, boxVars, late, gap>>
        /\ \A d \in Calls : pc'[d] = IF d = c THEN "try" ELSE pc[d]
        /\ \A d \in Calls : aside'[d] = aside[d] \/ (d = c /\ aside'[d] = None)
    BY DEF Drop, At, TypeOK, FileInv
  <1>2. FileInv'
    BY <1>1, CallsAssumption DEF FileInv, Asking, Fresh
  <1>3. ResultInv'
    BY <1>1 DEF ResultInv, Early, Asking, boxVars
  <1>4. \A d \in Calls : Holds(d)' <=> Holds(d)
    BY <1>1 DEF Holds, Holding
  <1>5. Undisturbed => HolderInv'
    BY <1>1, <1>4, CallsAssumption DEF HolderInv, Moving
  <1>6. Undisturbed => BoxInv'
    BY <1>1 DEF BoxInv, boxVars, Early, Asking, Calls
  <1>. QED
    BY <1>1, <1>2, <1>3, <1>5, <1>6 DEF Undisturbed

LEMMA RestoreStep ==
    ASSUME MailInv, TypeOK', NEW c \in Calls, Restore(c)
    PROVE  MailInv'
  <1>. USE DEF MailInv
  <1>1. /\ pc[c] = "restore" /\ UNCHANGED <<old, boxVars, late>>
        /\ \A d \in Calls : pc'[d] = IF d = c THEN "try" ELSE pc[d]
        /\ \/ /\ lock' = aside[c] /\ gap' = (gap \/ lock # None)
              /\ \A d \in Calls : aside'[d] = IF d = c THEN None ELSE aside[d]
           \/ /\ lock' = lock /\ gap' = (gap \/ aside[c] \notin old)
              /\ \A d \in Calls : aside'[d] = aside[d]
    BY DEF Restore, At, TypeOK
  <1>2. FileInv'
    BY <1>1, CallsAssumption DEF FileInv, Asking, Fresh
  <1>3. ResultInv'
    BY <1>1 DEF ResultInv, Early, Asking, boxVars
  <1>4. \A d \in Calls : Holds(d)' <=> Holds(d)
    BY <1>1 DEF Holds, Holding
  <1>5. ASSUME Undisturbed' PROVE HolderInv' /\ BoxInv'
    <2>1. Undisturbed /\ (lock = None \/ (lock' = lock /\ aside[c] \in old))
      BY <1>1, <1>5 DEF Undisturbed
    <2>2. HolderInv'
      <3>1. HolderInv /\ old' = old
        BY <1>1, <2>1
      <3>2. \A d \in Calls : aside'[d] \in Calls \ old => pc'[d] \in Moving
        <4>1. aside'[c] \notin Calls \ old /\ \A d \in Calls : d # c => aside'[d] = aside[d]
          <5>1. \/ \A d \in Calls : aside'[d] = IF d = c THEN None ELSE aside[d]
                \/ aside[c] \in old /\ \A d \in Calls : aside'[d] = aside[d]
            BY <1>1, <1>5 DEF Undisturbed
          <5>. QED
            BY <5>1, CallsAssumption
        <4>2. \A d \in Calls : d # c => pc'[d] = pc[d]
          BY <1>1
        <4>. QED
          BY <3>1, <4>1, <4>2 DEF HolderInv
      <3>3. \A d \in Calls : Holds(d) =>
               d \notin old /\ (lock' = d \/ \E e \in Calls : aside'[e] = d)
        BY <1>1, <2>1, <3>1, CallsAssumption DEF HolderInv
      <3>4. \A d, e \in Calls : Holds(d) /\ Holds(e) => d = e
        BY <3>1 DEF HolderInv
      <3>. QED
        BY <1>4, <3>1, <3>2, <3>3, <3>4 DEF HolderInv
    <2>3. BoxInv'
      BY <1>1, <2>1 DEF BoxInv, boxVars, Early, Asking, Calls
    <2>. QED
      BY <2>2, <2>3
  <1>. QED
    BY <1>2, <1>3, <1>5

\* A holder goes on to another place, and the files stay.
LEMMA HolderGoesOn ==
    ASSUME MailInv, NEW c \in Calls, Holds(c), NEW place \in Holding \cup {"over"},
           \A d \in Calls : pc'[d] = IF d = c THEN place ELSE pc[d],
           UNCHANGED <<lockVars, late, gap>>
    PROVE  FileInv' /\ (Undisturbed => HolderInv') /\ Undisturbed' = Undisturbed
  <1>. USE DEF MailInv
  <1>1. FileInv'
    BY DEF FileInv, Asking, Fresh, Holds, Holding, lockVars
  <1>2. \A d \in Calls : Holds(d)' => Holds(d)
    BY DEF Holds
  <1>3. Undisturbed => HolderInv'
    BY <1>2 DEF HolderInv, Moving, Holds, Holding, lockVars
  <1>. QED
    BY <1>1, <1>3 DEF Undisturbed

LEMMA ReadStep ==
    ASSUME MailInv, TypeOK', NEW c \in Calls, Read(c)
    PROVE  MailInv'
  <1>. USE DEF MailInv
  <1>1. /\ pc[c] = "read" /\ UNCHANGED <<lockVars, inbox, late, gap>>
        /\ \/ seen' = [seen EXCEPT ![c] = inbox]
           \/ seen' = seen /\ At(c, "check")
        /\ \/ result' = result
           \/ /\ c \notin Senders /\ At(c, "check")
              /\ result' = [result EXCEPT ![c].ok = TRUE]
    BY DEF Read
  <1>2. PICK place \in {"check", "write"} : At(c, place)
    BY DEF Read
  <1>3. /\ \A d \in Calls : pc'[d] = IF d = c THEN place ELSE pc[d]
        /\ place = "write" => seen'[c] = inbox /\ result' = result
        /\ \A d \in Calls \ {c} : seen'[d] = seen[d] /\ result'[d] = result[d]
        /\ \A s \in Calls : result'[s].new = result[s].new
        /\ \A s \in Senders : result'[s] = result[s]
    BY <1>1, <1>2 DEF At, TypeOK, Calls
  <1>4. FileInv' /\ (Undisturbed => HolderInv') /\ Undisturbed' = Undisturbed
    BY <1>1, <1>3, HolderGoesOn DEF Holds, Holding
  <1>5. ResultInv'
    BY <1>1, <1>3 DEF ResultInv, Early, Asking
  <1>6. ASSUME Undisturbed PROVE BoxInv'
    <2>. USE DEF BoxInv
    <2>1. \A d \in Calls : pc'[d] = "write" => seen'[d] = inbox'
      BY <1>1, <1>3, <1>6
    <2>3. \A s \in Senders : pc'[s] \in Early => inbox'[s] = "absent"
      BY <1>1, <1>3, <1>6 DEF Early, Asking, Calls
    <2>2. /\ \A s \in Senders : result'[s].ok => inbox'[s] # "absent"
          /\ \A s \in Senders : inbox'[s] = "read" => \E r \in Readers : s \in result'[r].new
          /\ \A r \in Readers : \A s \in result'[r].new : inbox'[s] = "read"
          /\ \A r, q \in Readers : r # q => result'[r].new \cap result'[q].new = {}
      BY <1>1, <1>3, <1>6 DEF Calls
    <2>. QED
      BY <2>1, <2>2, <2>3
  <1>. QED
    BY <1>4, <1>5, <1>6

LEMMA WriteStep ==
    ASSUME MailInv, TypeOK', NEW c \in Calls, Write(c)
    PROVE  MailInv'
  <1>. USE DEF MailInv
  <1>. DEFINE handed == IF c \in Senders THEN {} ELSE Unread(seen[c])
  <1>1. /\ pc[c] = "write" /\ UNCHANGED <<lockVars, seen, late, gap>>
        /\ \A d \in Calls : pc'[d] = IF d = c THEN "check" ELSE pc[d]
        /\ \/ UNCHANGED <<inbox, result>>
           \/ /\ inbox' = IF c \in Senders THEN [seen[c] EXCEPT ![c] = "unread"] ELSE Marked(c)
              /\ result' = [result EXCEPT ![c] = [ok |-> TRUE, new |-> handed]]
    BY DEF Write, At, TypeOK
  <1>2. FileInv' /\ (Undisturbed => HolderInv') /\ Undisturbed' = Undisturbed
    BY <1>1, HolderGoesOn DEF Holds, Holding
  <1>3. \A d \in Calls \ {c} : result'[d] = result[d]
    BY <1>1 DEF TypeOK
  <1>4. ResultInv'
    BY <1>1, <1>3 DEF ResultInv, Early, Asking
  <1>5. ASSUME Undisturbed PROVE \A d \in Calls : pc'[d] = "write" => seen'[d] = inbox'
    <2>1. \A d \in Calls : pc[d] = "write" => d = c
      BY <1>1, <1>5 DEF HolderInv, Holds, Holding
    <2>. QED
      BY <1>1, <2>1
  <1>6. ASSUME Undisturbed, UNCHANGED <<inbox, result>> PROVE BoxInv'
    BY <1>1, <1>5, <1>6 DEF BoxInv, Early, Asking, Calls
  <1>7. ASSUME Undisturbed, c \in Senders,
               inbox' = [seen[c] EXCEPT ![c] = "unread"],
               result' = [result EXCEPT ![c] = [ok |-> TRUE, new |-> handed]]
        PROVE  BoxInv'
    <2>1. /\ inbox \in Inbox /\ inbox' = [inbox EXCEPT ![c] = "unread"]
          /\ inbox[c] = "absent" /\ result[c].new = {}
      <3>1. seen[c] = inbox
        BY <1>1, <1>7 DEF BoxInv
      <3>2. result[c] = NoResult /\ inbox[c] = "absent"
        BY <1>1, <1>7 DEF BoxInv, ResultInv, Early
      <3>. QED
        BY <1>7, <3>1, <3>2 DEF NoResult, TypeOK
    <2>2. result'[c].ok /\ \A d \in Calls : result'[d].new = result[d].new
      BY <1>3, <1>7, <2>1 DEF TypeOK
    <2>3. \A s \in Senders : inbox'[s] = IF s = c THEN "unread" ELSE inbox[s]
      BY <2>1 DEF Inbox
    <2>9. \A s \in Senders : pc'[s] \in Early => inbox'[s] = "absent"
      BY <1>1, <1>7, <2>3 DEF BoxInv, Early, Asking, Calls
    <2>4. \A s \in Senders : result'[s].ok => inbox'[s] # "absent"
      BY <1>3, <1>7, <2>3 DEF BoxInv, Calls
    <2>5. \A s \in Senders : inbox'[s] = "read" => \E r \in Readers : s \in result'[r].new
      BY <1>7, <2>2, <2>3 DEF BoxInv, Calls
    <2>6. \A r \in Readers : \A s \in result'[r].new : inbox'[s] = "read"
      <3>. SUFFICES ASSUME NEW r \in Readers, NEW s \in result[r].new PROVE inbox'[s] = "read"
        BY <2>2 DEF Calls
      <3>1. s \in Senders /\ inbox[s] = "read"
        BY <1>7 DEF BoxInv, TypeOK, Calls
      <3>2. s # c
        BY <2>1, <3>1
      <3>. QED
        BY <2>3, <3>1, <3>2
    <2>7. \A r, q \in Readers : r # q => result'[r].new \cap result'[q].new = {}
      BY <1>7, <2>2 DEF BoxInv, Calls
    <2>. QED
      BY <1>5, <1>7, <2>4, <2>5, <2>6, <2>7, <2>9 DEF BoxInv
  <1>8. ASSUME Undisturbed, c \notin Senders, inbox' = Marked(c),
               result' = [result EXCEPT ![c] = [ok |-> TRUE, new |-> handed]]
        PROVE  BoxInv'
    <2>1. seen[c] = inbox /\ inbox \in Inbox /\ c \in Readers /\ result[c].new = {}
      BY <1>1, <1>8 DEF BoxInv, ResultInv, Early, NoResult, TypeOK, Calls
    <2>2. \A s \in Senders : inbox'[s] = IF inbox[s] = "unread" THEN "read" ELSE inbox[s]
      BY <1>8, <2>1 DEF Marked
    <2>3. result'[c].new = Unread(inbox)
      BY <1>8, <2>1 DEF TypeOK
    <2>9. \A s \in Senders : pc'[s] \in Early => inbox'[s] = "absent"
      BY <1>1, <1>8, <2>2 DEF BoxInv, Early, Asking, Calls
    <2>4. \A s \in Senders : result'[s].ok => inbox'[s] # "absent"
      BY <1>3, <1>8, <2>1, <2>2 DEF BoxInv, Calls
    <2>5. ASSUME NEW s \in Senders, inbox'[s] = "read"
          PROVE  \E r \in Readers : s \in result'[r].new
      <3>1. CASE inbox[s] = "unread"
        BY <2>1, <2>3, <3>1 DEF Unread
      <3>2. CASE inbox[s] = "read"
        <4>1. PICK r \in Readers : s \in result[r].new
          BY <1>8, <3>2 DEF BoxInv
        <4>. QED
          BY <1>3, <2>1, <4>1 DEF Calls
      <3>. QED
        BY <2>2, <2>5, <3>1, <3>2
    <2>6. ASSUME NEW r \in Readers, NEW s \in result'[r].new PROVE s \in Senders /\ inbox'[s] = "read"
      <3>1. CASE r = c
        BY <2>2, <2>3, <2>6, <3>1 DEF Unread
      <3>2. CASE r # c
        <4>1. s \in result[r].new
          BY <1>3, <2>6, <3>2 DEF Calls
        <4>2. s \in Senders /\ inbox[s] = "read"
          BY <1>8, <4>1 DEF BoxInv, TypeOK, Calls
        <4>. QED
          BY <2>2, <4>2
      <3>. QED
        BY <3>1, <3>2
    <2>7. ASSUME NEW r \in Readers, r # c PROVE result'[r].new \cap Unread(inbox) = {}
      <3>1. result'[r].new = result[r].new /\ \A s \in result[r].new : inbox[s] = "read"
        BY <1>3, <1>8, <2>7 DEF BoxInv, Calls
      <3>. QED
        BY <3>1 DEF Unread
    <2>8. ASSUME NEW r \in Readers, NEW q \in Readers, r # q
          PROVE  result'[r].new \cap result'[q].new = {}
      <3>1. CASE r # c /\ q # c
        BY <1>3, <1>8, <2>8, <3>1 DEF BoxInv, Calls
      <3>2. CASE r = c
        BY <2>3, <2>7, <2>8, <3>2
      <3>3. CASE q = c
        BY <2>3, <2>7, <2>8, <3>3
      <3>. QED
        BY <3>1, <3>2, <3>3
    <2>. QED
      BY <1>5, <1>8, <2>4, <2>5, <2>6, <2>8, <2>9 DEF BoxInv
  <1>. QED
    BY <1>1, <1>2, <1>4, <1>6, <1>7, <1>8

LEMMA ReleaseStep ==
    ASSUME MailInv, TypeOK', NEW c \in Calls, Check(c) \/ Remove(c)
    PROVE  MailInv'
  <1>. USE DEF MailInv
  <1>. DEFINE place == pc'[c]
  <1>1. /\ pc[c] \in {"check", "remove"} /\ place \in {"remove", "over"}
        /\ \A d \in Calls : pc'[d] = IF d = c THEN place ELSE pc[d]
        /\ UNCHANGED <<aside, old, boxVars, late, gap>>
        /\ lock' = lock \/ (pc[c] = "remove" /\ place = "over" /\ lock' = None)
    BY DEF Check, Remove, At, TypeOK, lockVars
  <1>2. ResultInv'
    BY <1>1 DEF ResultInv, Early, Asking, boxVars
  <1>3. Undisturbed => BoxInv'
    BY <1>1 DEF BoxInv, boxVars, Early, Asking, Calls
  <1>4. FileInv'
    BY <1>1, CallsAssumption DEF FileInv, Asking, Fresh
  <1>5. \A d \in Calls : Holds(d)' => Holds(d) /\ (d = c => place = "remove")
    BY <1>1 DEF Holds, Holding
  <1>6. ASSUME Undisturbed PROVE HolderInv'
    <2>1. CASE lock' = lock
      BY <1>1, <1>5, <1>6, <2>1 DEF HolderInv, Moving
    <2>2. CASE place = "over" /\ pc[c] = "remove"
      <3>1. \A d \in Calls : ~ Holds(d)'
        BY <1>1, <1>5, <1>6, <2>2 DEF HolderInv, Holds, Holding
      <3>. QED
        BY <1>1, <1>6, <3>1 DEF HolderInv, Moving
    <2>. QED
      BY <1>1, <2>1, <2>2
  <1>. QED
    BY <1>1, <1>2, <1>3, <1>4, <1>6 DEF Undisturbed

LEMMA DieStep ==
    ASSUME MailInv, TypeOK', NEW c \in Calls, Die(c)
    PROVE  MailInv'
  BY QuietStep DEF Die

LEMMA AgeStep ==
    ASSUME MailInv, TypeOK', NEW c \in Calls, Age(c)
    PROVE  MailInv'
  <1>. USE DEF MailInv
  <1>1. /\ old' = old \cup {c} /\ late' = (late \/ Holds(c))
        /\ lock = c \/ \E d \in Calls : aside[d] = c
        /\ UNCHANGED <<pc, lock, aside, boxVars, gap>>
    BY DEF Age
  <1>2. FileInv'
    BY <1>1 DEF FileInv, Fresh
  <1>3. ResultInv'
    BY <1>1 DEF ResultInv, boxVars
  <1>4. ASSUME Undisturbed' PROVE HolderInv' /\ BoxInv'
    <2>1. Undisturbed /\ ~ Holds(c)
      BY <1>1, <1>4 DEF Undisturbed
    <2>2. HolderInv'
      BY <1>1, <2>1 DEF HolderInv, Holds
    <2>3. BoxInv'
      BY <1>1, <2>1 DEF BoxInv, boxVars
    <2>. QED
      BY <2>2, <2>3
  <1>. QED
    BY <1>2, <1>3, <1>4

LEMMA NextMailInv == MailInv /\ [Next]_vars => MailInv'
  <1>. SUFFICES ASSUME MailInv, [Next]_vars PROVE MailInv'
    OBVIOUS
  <1>1. TypeOK'
    BY NextTypeOK DEF MailInv
  <1>2. CASE UNCHANGED vars
    BY <1>2 DEF MailInv, TypeOK, FileInv, Fresh, ResultInv, HolderInv, BoxInv, Holds, Undisturbed,
                vars, lockVars, boxVars
  <1>3. ASSUME NEW c \in Calls, Call(c) \/ Goes(c) \/ Die(c) \/ Age(c) PROVE MailInv'
    BY <1>1, <1>3, AskingSteps, CreateStep, RenameStep, DropStep, RestoreStep, ReadStep, WriteStep,
       ReleaseStep, DieStep, AgeStep DEF Goes
  <1>. QED
    BY <1>2, <1>3 DEF Next

-----------------------------------------------------------------------------
\* The inductive invariant (mailbox.go, acquireLock and what runs under it).
THEOREM MailInvariant == Spec => []MailInv
  BY InitMailInv, NextMailInv, PTL DEF Spec

\* Two calls hold the lock at once only if a holder outlived the threshold, or
\* somebody came while a young lock was aside.
THEOREM HoldersAlone == Spec => []OneHolder
  <1>1. MailInv => OneHolder
    BY DEF MailInv, HolderInv, OneHolder
  <1>. QED
    BY <1>1, MailInvariant, PTL

\* Under the same condition no acknowledged message is lost or handed out twice.
THEOREM MessagesStay == Spec => []MessagesKept
  <1>1. MailInv => MessagesKept
    BY DEF MailInv, BoxInv, MessagesKept, Returned
  <1>. QED
    BY <1>1, MailInvariant, PTL

=============================================================================
