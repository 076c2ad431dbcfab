-------------------------- MODULE AgentLoop_proofs --------------------------
(***************************************************************************)
(* Proofs about AgentLoop, for any files, batches of calls and limits.     *)
(***************************************************************************)
EXTENDS AgentLoop, SequenceTheorems, WellFoundedInduction, TLAPS

Message == [role : {"system", "user", "assistant", "tool"}, n : Nat]

\* Between two requests.
Between == {"turn", "drain", "compact", "answer", "batch", "reads", "consume", "after", "ceiling",
            "last_drain"}

Requesting == {"connect", "backoff", "collect"}

\* Where the run is, and what it is doing there.
PlaceInv ==
    /\ outcome # "none" <=> pc = "done"
    /\ purpose = "last" => pc \in Requesting \cup {"done"}
    /\ edited # None => pc = "consume"

\* No text is out where a request whose text goes out can still follow.
ShownInv ==
    /\ shown <= 1
    /\ pc \in Between \cup {"recover_call"} => shown = 0
    /\ pc \in Requesting /\ purpose \in Forwarded => shown = 0

\* A guard that is at its limit has ended the run.
GuardInv ==
    pc # "done" => /\ empty < MaxEmptyTurns
                   /\ \A k \in Kinds : streak[k] < FailureStopAt

\* Calls are dealt with in order: those before next are done, those read ahead
\* are reads, and nothing has begun behind them.
BatchInv ==
    /\ next > 0
    /\ pc \in {"batch", "reads", "consume"} => next <= Len(calls)
    /\ \A j \in DOMAIN calls :
          /\ j < next => phase[j] = "done"
          /\ next <= j /\ j < ahead => calls[j] = "read"
          /\ next <= j /\ ahead <= j =>
                phase[j] = "no" \/ (j = next /\ phase[j] = "done")
          /\ pc = "reads" /\ next <= j /\ j < ahead => phase[j] # "no"
          /\ pc = "consume" /\ (j = next \/ (next <= j /\ j < ahead)) => phase[j] = "done"
    /\ pc = "reads" => next < ahead
    /\ pc = "after" => next = Len(calls) + 1

\* Calls that are answered up to the one to handle, the last of the history.
Answering(ms, n, answered) ==
    LET q == Len(ms) - answered IN
    /\ q > 0 /\ ms[q] = Assistant(n)
    /\ \A i \in 1 .. answered : ms[q + i] = Tool(i)
    /\ \A p \in DOMAIN ms :
        /\ ms[p].role = "assistant" /\ p # q =>
               \A i \in 1 .. ms[p].n : p + i <= Len(ms) /\ ms[p + i] = Tool(i)
        /\ ms[p].role = "tool" =>
               /\ p > ms[p].n
               /\ ms[p - ms[p].n].role = "assistant" /\ ms[p - ms[p].n].n >= ms[p].n

\* The prompt and the question.
Opened(ms) ==
    /\ ms \in Seq(Message) /\ Len(ms) >= 2
    /\ ms[1].role = "system" /\ ms[2].role = "user"

\* The history begins with the prompt and the question, and is paired but for
\* the calls that are being dealt with.
HistoryInv ==
    /\ Opened(messages)
    /\ IF pc \in {"batch", "reads", "consume"}
       THEN Answering(messages, Len(calls), next - 1)
       ELSE Paired(messages)

\* What is known of a file is out of date.
Outdated(f) == worker.file = f /\ worker.saw \in {"old_errors", "old_none"}

\* As long as the run goes on uncancelled, a file that has changed since it was
\* checked is going to be checked, and errors nobody knows of are on their way.
DiagInv ==
    /\ ~ worker.on => worker = Idle
    /\ pc # "done" /\ ~ cancelled =>
        /\ ~ worker.on => queue = <<>>
        /\ worker.saw # None => worker.file # None
        /\ worker.saw = "errors" => worker.file \in broken
        /\ worker.saw = "none" => worker.file \notin broken
        /\ \A f \in Files :
              /\ Outdated(f) => f = edited \/ f \in Range(queue)
              /\ results[f] = "old_errors" =>
                    f = edited \/ f \in Range(queue) \/ f = worker.file
              /\ f \in broken =>
                    \/ f \in told \/ f = edited \/ f \in Range(queue)
                    \/ worker.file = f /\ worker.saw \in {None, "errors"}
                    \/ results[f] = "errors"
    /\ ~ cancelled /\ ~ late /\ (purpose = "last" \/ outcome = "answered") => broken \subseteq told

AgentInv ==
    TypeOK /\ PlaceInv /\ ShownInv /\ GuardInv /\ BatchInv /\ HistoryInv /\ DiagInv

-----------------------------------------------------------------------------
(* Least and greatest numbers.                                               *)

\* A set of numbers has a least one.
LEMMA LeastOf ==
    ASSUME NEW S \in SUBSET Nat, S # {}
    PROVE  \E m \in S : \A n \in S : m <= n
  <1>. DEFINE Below == OpToRel(<, Nat)
  <1>1. \A m, n \in Nat : <<m, n>> \in Below <=> m < n
    BY Zenon DEF OpToRel
  <1>2. \E m \in S : \A n \in S : ~ (<<n, m>> \in Below)
    BY WFMin, NatLessThanWellFounded, Zenon
  <1>. HIDE DEF Below
  <1>3. \E m \in S : \A n \in S : ~ (n < m)
    BY <1>1, <1>2, Zenon
  <1>. QED
    BY <1>3

\* A bounded one has a greatest.
LEMMA GreatestOf ==
    ASSUME NEW S \in SUBSET Nat, S # {}, NEW b \in Nat, \A n \in S : n <= b
    PROVE  \E m \in S : \A n \in S : m >= n
  <1>. DEFINE T == {b - n : n \in S}
  <1>1. T \in SUBSET Nat /\ T # {}
    <2>1. \A n \in S : n \in Nat /\ b - n \in Nat
      OBVIOUS
    <2>. QED
      BY <2>1
  <1>2. PICK t \in T : \A u \in T : t <= u
    <2>. HIDE DEF T
    <2>. QED
      BY <1>1, LeastOf
  <1>3. PICK m \in S : t = b - m
    BY <1>2
  <1>4. \A n \in S : b - m <= b - n
    BY <1>2, <1>3
  <1>. QED
    BY <1>4

LEMMA MinOf ==
    ASSUME NEW S \in SUBSET Nat, S # {}
    PROVE  Min(S) \in S /\ \A n \in S : Min(S) <= n
BY LeastOf, Zenon DEF Min

LEMMA MaxOf ==
    ASSUME NEW S \in SUBSET Nat, S # {}, NEW b \in Nat, \A n \in S : n <= b
    PROVE  Max(S) \in S /\ \A n \in S : Max(S) >= n
BY GreatestOf, Zenon DEF Max

LEMMA Shifted == ASSUME NEW a \in Int, NEW b \in Int, NEW c \in Int  PROVE (a + b) + (c - b) = a + c
OBVIOUS

LEMMA Widened ==
    ASSUME NEW a \in Nat, NEW b \in Nat, a <= b, NEW i \in 1 .. a  PROVE i \in 1 .. b
OBVIOUS

\* Two elements before a sequence.
LEMMA AfterTwo ==
    ASSUME NEW S, NEW a \in S, NEW b \in S, NEW s \in Seq(S)
    PROVE  LET all == <<a, b>> \o s IN
           /\ all \in Seq(S) /\ Len(all) = 2 + Len(s)
           /\ all[1] = a /\ all[2] = b
           /\ \A i \in 3 .. Len(all) : all[i] = s[i - 2]
  <1>. DEFINE two == <<a, b>>
  <1>1. two \in Seq(S) /\ Len(two) = 2 /\ two[1] = a /\ two[2] = b
    OBVIOUS
  <1>. HIDE DEF two
  <1>2. two \o s \in Seq(S) /\ Len(two \o s) = 2 + Len(s) /\ Len(s) \in Nat
    <2>1. two \o s \in Seq(S)
      BY <1>1
    <2>2. Len(two \o s) = Len(two) + Len(s)
      BY <1>1, ConcatProperties
    <2>. QED
      BY <1>1, <2>1, <2>2
  <1>3. (two \o s)[1] = a /\ (two \o s)[2] = b
    BY <1>1, <1>2
  <1>4. \A i \in 3 .. 2 + Len(s) : (two \o s)[i] = s[i - 2]
    BY <1>1, <1>2
  <1>. QED
    BY <1>2, <1>3, <1>4 DEF two

\* What is read ahead from a call on.
LEMMA RunEndIs ==
    ASSUME calls \in Seq(Kinds), NEW i \in 1 .. Len(calls)
    PROVE  /\ RunEnd(i) \in i .. Len(calls) + 1
           /\ \A j \in DOMAIN calls : i <= j /\ j < RunEnd(i) => calls[j] = "read"
  <1>. DEFINE S == {Len(calls) + 1} \cup {j \in i .. Len(calls) : calls[j] = "write"}
  <1>1. S \in SUBSET Nat /\ S # {} /\ \A j \in S : j \in i .. Len(calls) + 1
    OBVIOUS
  <1>2. Min(S) \in S /\ \A n \in S : Min(S) <= n
    <2>. HIDE DEF S
    <2>. QED
      BY <1>1, MinOf
  <1>3. \A j \in DOMAIN calls : i <= j /\ j < Min(S) => calls[j] # "write"
    <2>. SUFFICES ASSUME NEW j \in DOMAIN calls, i <= j, j < Min(S), calls[j] = "write"
                  PROVE  FALSE
      OBVIOUS
    <2>1. j \in S /\ j \in Nat
      OBVIOUS
    <2>2. Min(S) \in Nat /\ Min(S) <= j
      <3>. HIDE DEF S
      <3>. QED
        BY <1>1, <1>2, <2>1
    <2>. HIDE DEF S
    <2>. QED
      BY <2>1, <2>2
  <1>4. RunEnd(i) = Min(S)
    BY DEF RunEnd
  <1>. HIDE DEF S
  <1>5. \A j \in DOMAIN calls : calls[j] \in Kinds
    OBVIOUS
  <1>. QED
    BY <1>1, <1>2, <1>3, <1>4, <1>5 DEF Kinds

\* What a compaction keeps begins with an assistant's message.
LEMMA SuffixStartIs ==
    ASSUME NEW ms \in Seq(Message), Len(ms) >= 2, NEW keep \in Nat \ {0}
    PROVE  /\ SuffixStart(ms, keep) \in 2 .. Len(ms)
           /\ SuffixStart(ms, keep) > 2 => ms[SuffixStart(ms, keep)].role = "assistant"
  <1>. DEFINE A == {1, Len(ms) - keep}
              B == {p \in 3 .. 1 + Max(A) : ms[p].role = "assistant"}
              S == {2} \cup B
  <1>1. Max(A) \in A /\ Max(A) >= 1 /\ Max(A) \in Nat
    <2>1. CASE Len(ms) - keep >= 1
      <3>1. A \in SUBSET Nat /\ A # {} /\ (\A n \in A : n <= Len(ms)) /\ Len(ms) \in Nat
        BY <2>1
      <3>2. Max(A) \in A /\ \A n \in A : Max(A) >= n
        <4>. HIDE DEF A
        <4>. QED
          BY <3>1, MaxOf
      <3>. QED
        BY <3>1, <3>2
    <2>2. CASE Len(ms) - keep < 1
      <3>1. Max(A) = CHOOSE x \in A : \A y \in A : x >= y
        BY DEF Max
      <3>2. \A y \in A : 1 >= y
        BY <2>2
      <3>3. Max(A) \in A /\ \A y \in A : Max(A) >= y
        BY <3>1, <3>2
      <3>. QED
        BY <3>3, <2>2
    <2>. QED
      BY <2>1, <2>2
  <1>2. Max(A) <= Len(ms) - 1
    BY <1>1
  <1>. HIDE DEF A
  <1>3. S \in SUBSET Nat /\ S # {} /\ (\A n \in S : n <= Len(ms)) /\ Len(ms) \in Nat /\ 2 \in S
    BY <1>1, <1>2
  <1>4. Max(S) \in S /\ \A n \in S : Max(S) >= n
    <2>. HIDE DEF S
    <2>. QED
      BY <1>3, MaxOf
  <1>5. SuffixStart(ms, keep) = Max(S)
    BY DEF SuffixStart, A
  <1>6. Max(S) = 2 \/ Max(S) \in B
    BY <1>4
  <1>7. Max(S) \in Nat /\ Max(S) >= 2 /\ Max(S) <= Len(ms)
    <2>. HIDE DEF S
    <2>. QED
      BY <1>3, <1>4
  <1>8. Max(S) > 2 => ms[Max(S)].role = "assistant"
    BY <1>6
  <1>. HIDE DEF S
  <1>. QED
    BY <1>5, <1>7, <1>8

-----------------------------------------------------------------------------
(* What becomes of a history that is paired.                                 *)

LEMMA MessageTypes ==
    /\ System \in Message /\ User \in Message
    /\ \A n \in Nat : Assistant(n) \in Message /\ Tool(n) \in Message
BY DEF System, User, Assistant, Tool, Message

\* A message that neither makes a call nor answers one.
Plain(m) == m \in Message /\ m.role # "tool" /\ (m.role = "assistant" => m.n = 0)

LEMMA PlainMessages == Plain(User) /\ Plain(Assistant(0)) /\ Plain(System)
BY MessageTypes DEF Plain, User, Assistant, System

\* Plain messages after a history leave it as it was.
LEMMA PairedPlain ==
    ASSUME NEW ms, Opened(ms), Paired(ms), NEW new \in Seq(Message),
           \A i \in 1 .. Len(new) : Plain(new[i])
    PROVE  Opened(ms \o new) /\ Paired(ms \o new)
  <1>. DEFINE all == ms \o new
  <1>1. /\ ms \in Seq(Message) /\ all \in Seq(Message) /\ Len(ms) \in Nat /\ Len(new) \in Nat
        /\ Len(all) = Len(ms) + Len(new) /\ Len(all) \in Nat /\ DOMAIN all = 1 .. Len(all)
        /\ DOMAIN ms = 1 .. Len(ms)
    BY DEF Opened
  <1>2. /\ \A p \in 1 .. Len(ms) : all[p] = ms[p]
        /\ \A p \in 1 .. Len(all) : p > Len(ms) => Plain(all[p])
    BY <1>1
  <1>. HIDE DEF all
  <1>3. Opened(all)
    BY <1>1, <1>2 DEF Opened
  <1>4. ASSUME NEW p \in DOMAIN all
        PROVE  /\ all[p].role = "assistant" =>
                     \A i \in 1 .. all[p].n : p + i <= Len(all) /\ all[p + i] = Tool(i)
               /\ all[p].role = "tool" =>
                     /\ p > all[p].n
                     /\ all[p - all[p].n].role = "assistant" /\ all[p - all[p].n].n >= all[p].n
    <2>1. CASE p > Len(ms)
      BY <1>1, <1>2, <2>1 DEF Plain
    <2>2. CASE p <= Len(ms)
      <3>0. p \in DOMAIN ms /\ p \in Nat
        BY <1>1, <2>2
      <3>1. all[p] = ms[p] /\ ms[p] \in Message /\ ms[p].n \in Nat
        <4>1. ms[p] \in Message
          BY <1>1, <3>0
        <4>. QED
          BY <1>1, <1>2, <3>0, <4>1 DEF Message
      <3>2. ASSUME ms[p].role = "assistant", NEW i \in 1 .. ms[p].n
            PROVE  p + i <= Len(all) /\ all[p + i] = Tool(i)
        <4>1. p + i <= Len(ms) /\ ms[p + i] = Tool(i)
          BY <3>0, <3>2 DEF Paired
        <4>. QED
          BY <1>1, <1>2, <3>0, <3>1, <4>1
      <3>3. ASSUME ms[p].role = "tool"
            PROVE  /\ p > ms[p].n
                   /\ all[p - ms[p].n].role = "assistant" /\ all[p - ms[p].n].n >= ms[p].n
        <4>1. p > ms[p].n /\ ms[p - ms[p].n].role = "assistant" /\ ms[p - ms[p].n].n >= ms[p].n
          BY <3>0, <3>3 DEF Paired
        <4>2. all[p - ms[p].n] = ms[p - ms[p].n]
          BY <1>1, <1>2, <2>2, <3>0, <3>1, <4>1
        <4>. QED
          BY <4>1, <4>2
      <3>. QED
        BY <3>1, <3>2, <3>3
    <2>. QED
      BY <1>1, <2>1, <2>2
  <1>5. Paired(all)
    BY <1>4 DEF Paired
  <1>. QED
    BY <1>3, <1>5 DEF all

LEMMA PairedOne ==
    ASSUME NEW ms, Opened(ms), Paired(ms), NEW m, Plain(m)
    PROVE  Opened(Append(ms, m)) /\ Paired(Append(ms, m))
  <1>1. <<m>> \in Seq(Message) /\ Len(<<m>>) = 1 /\ \A i \in 1 .. Len(<<m>>) : Plain(<<m>>[i])
    BY DEF Plain
  <1>2. Append(ms, m) = ms \o <<m>>
    BY DEF Opened, Plain
  <1>. QED
    BY <1>1, <1>2, PairedPlain

LEMMA PairedTwo ==
    ASSUME NEW ms, Opened(ms), Paired(ms), NEW m, NEW k, Plain(m), Plain(k)
    PROVE  LET all == ms \o <<m, k>> IN Opened(all) /\ Paired(all)
  <1>1. Opened(Append(Append(ms, m), k)) /\ Paired(Append(Append(ms, m), k))
    BY PairedOne
  <1>2. ms \in Seq(Message) /\ m \in Message /\ k \in Message
    BY DEF Opened, Plain
  <1>3. ms \o <<m, k>> = Append(Append(ms, m), k)
    BY <1>2
  <1>. QED
    BY <1>1, <1>3

\* Reminders.
LEMMA PairedNotes ==
    ASSUME NEW ms, Opened(ms), Paired(ms), NEW n \in Nat
    PROVE  /\ Opened(ms \o [i \in 1 .. n |-> User])
           /\ Paired(ms \o [i \in 1 .. n |-> User])
  <1>. DEFINE new == [i \in 1 .. n |-> User]
  <1>1. new \in [1 .. n -> Message]
    BY MessageTypes
  <1>2. new \in Seq(Message) /\ Len(new) = n /\ \A i \in 1 .. n : new[i] = User
    BY <1>1
  <1>. HIDE DEF new
  <1>3. Opened(ms \o new) /\ Paired(ms \o new)
    BY <1>2, PairedPlain, PlainMessages
  <1>. QED
    BY <1>3 DEF new

-----------------------------------------------------------------------------
(* What becomes of one whose calls are being dealt with.                     *)

\* The message advertises its calls.
LEMMA CallsAdvertised ==
    ASSUME NEW ms, Opened(ms), Paired(ms), NEW n \in Nat
    PROVE  LET all == Append(ms, Assistant(n)) IN Opened(all) /\ Answering(all, n, 0)
  <1>. DEFINE all == Append(ms, Assistant(n))
  <1>1. /\ ms \in Seq(Message) /\ all \in Seq(Message) /\ Len(ms) \in Nat
        /\ Len(all) = Len(ms) + 1 /\ DOMAIN all = 1 .. Len(all) /\ DOMAIN ms = 1 .. Len(ms)
        /\ all[Len(all)] = Assistant(n)
    BY MessageTypes DEF Opened
  <1>2. \A p \in 1 .. Len(ms) : all[p] = ms[p] /\ ms[p] \in Message
    BY <1>1
  <1>. HIDE DEF all
  <1>3. Opened(all)
    BY <1>1, <1>2 DEF Opened
  <1>4. ASSUME NEW p \in DOMAIN all, p # Len(all)
        PROVE  /\ all[p].role = "assistant" =>
                     \A i \in 1 .. all[p].n : p + i <= Len(all) /\ all[p + i] = Tool(i)
               /\ all[p].role = "tool" =>
                     /\ p > all[p].n
                     /\ all[p - all[p].n].role = "assistant" /\ all[p - all[p].n].n >= all[p].n
    <2>1. p \in 1 .. Len(ms) /\ p \in DOMAIN ms /\ all[p] = ms[p] /\ ms[p].n \in Nat
      BY <1>1, <1>2, <1>4 DEF Message
    <2>2. ASSUME ms[p].role = "assistant", NEW i \in 1 .. ms[p].n
          PROVE  p + i <= Len(all) /\ all[p + i] = Tool(i)
      <3>1. p + i <= Len(ms) /\ ms[p + i] = Tool(i)
        BY <2>1, <2>2 DEF Paired
      <3>. QED
        BY <1>1, <1>2, <2>1, <3>1
    <2>3. ASSUME ms[p].role = "tool"
          PROVE  /\ p > ms[p].n
                 /\ all[p - ms[p].n].role = "assistant" /\ all[p - ms[p].n].n >= ms[p].n
      <3>1. p > ms[p].n /\ ms[p - ms[p].n].role = "assistant" /\ ms[p - ms[p].n].n >= ms[p].n
        BY <2>1, <2>3 DEF Paired
      <3>2. all[p - ms[p].n] = ms[p - ms[p].n]
        BY <1>1, <1>2, <2>1, <3>1
      <3>. QED
        BY <3>1, <3>2
    <2>. QED
      BY <2>1, <2>2, <2>3
  <1>5. all[Len(all)].role = "assistant"
    BY <1>1 DEF Assistant
  <1>6. Answering(all, n, 0)
    BY <1>1, <1>4, <1>5 DEF Answering
  <1>. QED
    BY <1>3, <1>6 DEF all

\* Answers that follow in order, up to call number to.
LEMMA CallsAnswered ==
    ASSUME NEW ms, Opened(ms), NEW n \in Nat, NEW k \in 0 .. n, Answering(ms, n, k),
           NEW to \in k .. n, NEW new \in Seq(Message), Len(new) = to - k,
           \A i \in 1 .. Len(new) : new[i] = Tool(k + i)
    PROVE  Opened(ms \o new) /\ Answering(ms \o new, n, to)
  <1>. DEFINE all == ms \o new
              q == Len(ms) - k
  <1>1. /\ ms \in Seq(Message) /\ all \in Seq(Message) /\ Len(ms) \in Nat /\ Len(new) \in Nat
        /\ Len(all) = Len(ms) + Len(new) /\ DOMAIN all = 1 .. Len(all)
        /\ DOMAIN ms = 1 .. Len(ms) /\ Len(all) - to = q /\ q \in Int /\ Len(all) \in Nat
    BY DEF Opened
  <1>2. /\ \A p \in 1 .. Len(ms) : all[p] = ms[p] /\ ms[p] \in Message
        /\ \A i \in 1 .. Len(new) : all[Len(ms) + i] = Tool(k + i)
    BY <1>1
  <1>3. /\ q > 0 /\ ms[q] = Assistant(n)
        /\ \A i \in 1 .. k : ms[q + i] = Tool(i)
        /\ \A p \in DOMAIN ms :
              /\ ms[p].role = "assistant" /\ p # q =>
                     \A i \in 1 .. ms[p].n : p + i <= Len(ms) /\ ms[p + i] = Tool(i)
              /\ ms[p].role = "tool" =>
                     /\ p > ms[p].n
                     /\ ms[p - ms[p].n].role = "assistant" /\ ms[p - ms[p].n].n >= ms[p].n
    BY DEF Answering
  <1>. HIDE DEF all, q
  <1>4. q \in 1 .. Len(ms) /\ q + k = Len(ms) /\ all[q] = Assistant(n)
    BY <1>1, <1>2, <1>3 DEF q
  <1>5. ASSUME NEW i \in 1 .. to
        PROVE  q + i <= Len(all) /\ all[q + i] = Tool(i)
    <2>0. i \in Nat /\ k \in Nat /\ to \in Nat /\ i <= to /\ 1 <= i /\ k <= to
      OBVIOUS
    <2>1. q + i <= Len(all)
      BY <1>1, <1>4, <2>0
    <2>2. CASE i <= k
      <3>1. q + i \in 1 .. Len(ms) /\ ms[q + i] = Tool(i)
        BY <1>1, <1>3, <1>4, <2>0, <2>2
      <3>. QED
        BY <1>2, <2>1, <3>1
    <2>3. CASE i > k
      <3>1. PICK j \in 1 .. Len(new) : j = i - k
        BY <1>1, <1>4, <2>0, <2>3
      <3>2. k + j = i
        BY <2>0, <3>1
      <3>3. Len(ms) + j = q + i
        <4>1. q \in Int /\ Len(ms) \in Int
          BY <1>1
        <4>2. q + k = Len(ms)
          BY <1>4
        <4>3. (q + k) + (i - k) = q + i
          BY <2>0, <4>1, Shifted
        <4>. QED
          BY <3>1, <4>2, <4>3, Zenon
      <3>. QED
        BY <1>2, <2>1, <3>2, <3>3
    <2>. QED
      BY <2>0, <2>2, <2>3
  <1>6. Opened(all)
    BY <1>1, <1>2 DEF Opened
  <1>7. ASSUME NEW p \in DOMAIN all
        PROVE  /\ all[p].role = "assistant" /\ p # q =>
                     \A i \in 1 .. all[p].n : p + i <= Len(all) /\ all[p + i] = Tool(i)
               /\ all[p].role = "tool" =>
                     /\ p > all[p].n
                     /\ all[p - all[p].n].role = "assistant" /\ all[p - all[p].n].n >= all[p].n
    <2>1. CASE p <= Len(ms)
      <3>1. p \in 1 .. Len(ms) /\ p \in DOMAIN ms /\ all[p] = ms[p] /\ ms[p].n \in Nat
        BY <1>1, <1>2, <2>1 DEF Message
      <3>2. ASSUME ms[p].role = "assistant", p # q, NEW i \in 1 .. ms[p].n
            PROVE  p + i <= Len(all) /\ all[p + i] = Tool(i)
        <4>1. p + i <= Len(ms) /\ ms[p + i] = Tool(i)
          BY <1>3, <3>1, <3>2
        <4>2. p + i \in 1 .. Len(ms) /\ p + i <= Len(all)
          BY <1>1, <3>1, <4>1
        <4>. QED
          BY <1>2, <4>1, <4>2
      <3>3. ASSUME ms[p].role = "tool"
            PROVE  /\ p > ms[p].n
                   /\ all[p - ms[p].n].role = "assistant" /\ all[p - ms[p].n].n >= ms[p].n
        <4>1. p > ms[p].n /\ ms[p - ms[p].n].role = "assistant" /\ ms[p - ms[p].n].n >= ms[p].n
          BY <1>3, <3>1, <3>3
        <4>2. all[p - ms[p].n] = ms[p - ms[p].n]
          <5>1. p - ms[p].n \in 1 .. Len(ms)
            BY <1>1, <3>1, <4>1
          <5>. QED
            BY <1>2, <5>1
        <4>. QED
          BY <4>1, <4>2
      <3>. QED
        BY <3>1, <3>2, <3>3
    <2>2. CASE p > Len(ms)
      <3>1. p - q \in 1 .. to /\ q + (p - q) = p
        BY <1>1, <1>4, <2>2
      <3>2. all[p] = Tool(p - q)
        BY <1>5, <3>1
      <3>3. all[p].role = "tool" /\ all[p].n = p - q
        BY <3>2 DEF Tool
      <3>4. all[q].role = "assistant" /\ all[q].n = n
        BY <1>4 DEF Assistant
      <3>5. p > p - q /\ p - (p - q) = q /\ n >= p - q
        BY <1>1, <1>4, <2>2, <3>1
      <3>. QED
        BY <3>3, <3>4, <3>5
    <2>. QED
      BY <1>1, <2>1, <2>2
  <1>8. Answering(all, n, to)
    <2>1. q > 0 /\ Len(all) - to = q
      BY <1>1, <1>4
    <2>. QED
      BY <1>4, <1>5, <1>7, <2>1 DEF Answering
  <1>. QED
    BY <1>6, <1>8 DEF all

\* All of them are.
LEMMA AllAnswered ==
    ASSUME NEW ms, Opened(ms), NEW n \in Nat, Answering(ms, n, n)
    PROVE  Paired(ms)
  <1>. DEFINE q == Len(ms) - n
  <1>1. Len(ms) \in Nat /\ q \in Int /\ q + n = Len(ms) /\ Assistant(n).n = n
    BY DEF Opened, Assistant
  <1>2. /\ q > 0 /\ ms[q] = Assistant(n)
        /\ \A i \in 1 .. n : ms[q + i] = Tool(i)
        /\ \A p \in DOMAIN ms :
              /\ ms[p].role = "assistant" /\ p # q =>
                     \A i \in 1 .. ms[p].n : p + i <= Len(ms) /\ ms[p + i] = Tool(i)
              /\ ms[p].role = "tool" =>
                     /\ p > ms[p].n
                     /\ ms[p - ms[p].n].role = "assistant" /\ ms[p - ms[p].n].n >= ms[p].n
    BY DEF Answering
  <1>. HIDE DEF q
  <1>3. \A i \in 1 .. ms[q].n : q + i <= Len(ms) /\ ms[q + i] = Tool(i)
    BY <1>1, <1>2
  <1>. QED
    BY <1>2, <1>3 DEF Paired

LEMMA OneAnswered ==
    ASSUME NEW ms, Opened(ms), NEW n \in Nat, NEW k \in 0 .. n - 1, Answering(ms, n, k)
    PROVE  LET all == Append(ms, Tool(k + 1)) IN Opened(all) /\ Answering(all, n, k + 1)
  <1>. DEFINE new == <<Tool(k + 1)>>
  <1>1. /\ new \in Seq(Message) /\ Len(new) = (k + 1) - k /\ k + 1 \in k .. n /\ k \in 0 .. n
        /\ \A i \in 1 .. Len(new) : new[i] = Tool(k + i)
    BY MessageTypes
  <1>2. Append(ms, Tool(k + 1)) = ms \o new
    BY MessageTypes DEF Opened
  <1>. HIDE DEF new
  <1>. QED
    BY <1>1, <1>2, CallsAnswered

\* The calls that will not run are answered as well.
LEMMA RestAnswered ==
    ASSUME NEW ms, Opened(ms), NEW n \in Nat, NEW k \in 0 .. n, Answering(ms, n, k)
    PROVE  Opened(AppendAborted(ms, k + 1, n)) /\ Paired(AppendAborted(ms, k + 1, n))
  <1>. DEFINE new == [i \in 1 .. n + 1 - (k + 1) |-> Tool((k + 1) + i - 1)]
  <1>1. n + 1 - (k + 1) = n - k /\ n - k \in Nat /\ \A i \in 1 .. n - k : (k + 1) + i - 1 = k + i
    OBVIOUS
  <1>2. new = [i \in 1 .. n - k |-> Tool(k + i)]
    BY <1>1
  <1>3. \A i \in 1 .. n - k : k + i \in Nat
    OBVIOUS
  <1>4. new \in [1 .. n - k -> Message]
    BY <1>2, <1>3, MessageTypes
  <1>5. new \in Seq(Message) /\ Len(new) = n - k /\ \A i \in 1 .. Len(new) : new[i] = Tool(k + i)
    <2>1. new \in Seq(Message) /\ Len(new) = n - k
      <3>. HIDE DEF new
      <3>. QED
        BY <1>1, <1>4
    <2>. QED
      BY <1>2, <2>1
  <1>. HIDE DEF new
  <1>6. Opened(ms \o new) /\ Answering(ms \o new, n, n)
    BY <1>5, CallsAnswered
  <1>7. Paired(ms \o new)
    BY <1>6, AllAnswered
  <1>8. AppendAborted(ms, k + 1, n) = ms \o new
    BY DEF AppendAborted, new
  <1>. QED
    BY <1>6, <1>7, <1>8

-----------------------------------------------------------------------------
(* What is left of one by a compaction.                                      *)

\* The answers to a call that is kept are kept, and the call of an answer is:
\* what is kept does not begin with an answer.
LEMMA PairedCompacted ==
    ASSUME NEW ms, Opened(ms), Paired(ms), NEW keep \in Nat \ {0}
    PROVE  Opened(Compacted(ms, keep)) /\ Paired(Compacted(ms, keep))
  <1>. DEFINE s == SuffixStart(ms, keep)
              rest == SubSeq(ms, s, Len(ms))
              all == <<System, User>> \o rest
  <1>1. ms \in Seq(Message) /\ Len(ms) \in Nat /\ Len(ms) >= 2 /\ DOMAIN ms = 1 .. Len(ms)
    BY DEF Opened
  <1>2. s \in 2 .. Len(ms) /\ (s > 2 => ms[s].role = "assistant")
    BY <1>1, SuffixStartIs
  <1>3. CASE ~ Elided(ms, keep)
    BY <1>3 DEF Compacted
  <1>4. CASE Elided(ms, keep)
    <2>. HIDE DEF s
    <2>1. s \in 3 .. Len(ms) /\ ms[s].role = "assistant" /\ s \in Nat
      BY <1>1, <1>2, <1>4 DEF Elided, s
    <2>2. /\ rest \in Seq(Message) /\ Len(rest) = Len(ms) + 1 - s
          /\ \A i \in 1 .. Len(rest) : rest[i] = ms[s + i - 1]
      BY <1>1, <2>1
    <2>. HIDE DEF rest
    <2>3. /\ all \in Seq(Message) /\ Len(all) = Len(ms) + 3 - s /\ Len(all) \in Nat
          /\ DOMAIN all = 1 .. Len(all) /\ all[1] = System /\ all[2] = User
          /\ \A p \in 3 .. Len(all) : all[p] = rest[p - 2]
      <3>1. /\ all \in Seq(Message) /\ Len(all) = 2 + Len(rest)
            /\ all[1] = System /\ all[2] = User
            /\ \A p \in 3 .. Len(all) : all[p] = rest[p - 2]
        BY <2>2, MessageTypes, AfterTwo
      <3>. HIDE DEF all
      <3>4. Len(all) = Len(ms) + 3 - s /\ Len(all) \in Nat
        BY <1>1, <2>1, <2>2, <3>1
      <3>. QED
        BY <3>1, <3>4
    <2>. HIDE DEF all
    <2>4. \A p \in 3 .. Len(all) : p + s - 3 \in s .. Len(ms) /\ all[p] = ms[p + s - 3]
      <3>1. ASSUME NEW p \in 3 .. Len(all)
            PROVE  p + s - 3 \in s .. Len(ms) /\ all[p] = ms[p + s - 3]
        <4>1. p - 2 \in 1 .. Len(rest) /\ s + (p - 2) - 1 = p + s - 3
          BY <1>1, <2>1, <2>2, <2>3
        <4>2. rest[p - 2] = ms[p + s - 3]
          BY <2>2, <4>1
        <4>. QED
          BY <1>1, <2>1, <2>3, <4>2
      <3>. QED
        BY <3>1
    <2>5. \A o \in s .. Len(ms) : o + 3 - s \in 3 .. Len(all) /\ all[o + 3 - s] = ms[o]
      <3>1. ASSUME NEW o \in s .. Len(ms)
            PROVE  o + 3 - s \in 3 .. Len(all) /\ all[o + 3 - s] = ms[o]
        <4>1. o + 3 - s \in 3 .. Len(all) /\ (o + 3 - s) + s - 3 = o
          BY <1>1, <2>1, <2>3
        <4>. QED
          BY <2>4, <4>1
      <3>. QED
        BY <3>1
    <2>6. Opened(all)
      BY <1>1, <2>1, <2>3 DEF Opened, System, User
    <2>7. ASSUME NEW p \in 3 .. Len(all), NEW o \in s .. Len(ms), o = p + s - 3
          PROVE  /\ all[p].role = "assistant" =>
                       \A i \in 1 .. all[p].n : p + i <= Len(all) /\ all[p + i] = Tool(i)
                 /\ all[p].role = "tool" =>
                       /\ p > all[p].n
                       /\ all[p - all[p].n].role = "assistant" /\ all[p - all[p].n].n >= all[p].n
      <3>0. p \in Nat /\ o \in Nat /\ o \in DOMAIN ms /\ p = o + 3 - s
        BY <1>1, <2>1, <2>3, <2>7
      <3>1. all[p] = ms[o]
        BY <2>4, <2>7
      <3>2. ms[o] \in Message /\ ms[o].n \in Nat
        <4>1. ms[o] \in Message
          BY <1>1, <3>0
        <4>. QED
          BY <4>1 DEF Message
      <3>3. ASSUME ms[o].role = "assistant", NEW i \in 1 .. ms[o].n
            PROVE  p + i <= Len(all) /\ all[p + i] = Tool(i)
        <4>1. o + i <= Len(ms) /\ ms[o + i] = Tool(i)
          BY <3>0, <3>3 DEF Paired
        <4>2. o + i \in s .. Len(ms) /\ (o + i) + 3 - s = p + i
          BY <1>1, <2>1, <3>0, <3>2, <4>1
        <4>. QED
          BY <2>3, <2>5, <4>1, <4>2
      <3>4. ASSUME ms[o].role = "tool"
            PROVE  /\ p > ms[o].n
                   /\ all[p - ms[o].n].role = "assistant" /\ all[p - ms[o].n].n >= ms[o].n
        <4>. DEFINE q == o - ms[o].n
        <4>1. q > 0 /\ ms[q].role = "assistant" /\ ms[q].n >= ms[o].n /\ q \in Nat
              /\ q \in DOMAIN ms
          <5>1. o > ms[o].n /\ ms[q].role = "assistant" /\ ms[q].n >= ms[o].n
            BY <3>0, <3>4 DEF Paired
          <5>. QED
            BY <1>1, <3>0, <3>2, <5>1
        <4>0. ms[o].n = o - q
          BY <3>0, <3>2
        <4>. HIDE DEF q
        <4>2. q >= s
          <5>1. SUFFICES ASSUME q < s  PROVE FALSE
            BY <2>1, <4>1
          <5>2. o # s
            BY <2>1, <3>4
          <5>3. s - q \in 1 .. ms[o].n /\ q + (s - q) = s
            BY <1>1, <2>1, <3>0, <4>0, <4>1, <5>1, <5>2
          <5>4. ms[q].n \in Nat
            <6>1. ms[q] \in Message
              BY <1>1, <4>1
            <6>. QED
              BY <6>1 DEF Message
          <5>5. s - q \in 1 .. ms[q].n
            <6>1. ms[o].n <= ms[q].n
              BY <4>1
            <6>. QED
              BY <3>2, <5>3, <5>4, <6>1, Widened, Zenon
          <5>6. ms[q + (s - q)] = Tool(s - q)
            BY <4>1, <5>5 DEF Paired
          <5>. QED
            BY <2>1, <5>3, <5>6 DEF Tool
        <4>3. q \in s .. Len(ms) /\ q + 3 - s = p - ms[o].n /\ p > ms[o].n
          BY <1>1, <2>1, <3>0, <3>2, <4>0, <4>1, <4>2
        <4>4. all[p - ms[o].n] = ms[q]
          BY <2>5, <4>3
        <4>. QED
          BY <4>1, <4>3, <4>4
      <3>. QED
        BY <3>1, <3>3, <3>4
    <2>8. ASSUME NEW p \in DOMAIN all
          PROVE  /\ all[p].role = "assistant" =>
                       \A i \in 1 .. all[p].n : p + i <= Len(all) /\ all[p + i] = Tool(i)
                 /\ all[p].role = "tool" =>
                       /\ p > all[p].n
                       /\ all[p - all[p].n].role = "assistant" /\ all[p - all[p].n].n >= all[p].n
      <3>1. CASE p \in {1, 2}
        BY <2>3, <3>1 DEF System, User
      <3>2. CASE p \notin {1, 2}
        <4>1. p \in 3 .. Len(all)
          BY <2>3, <3>2
        <4>2. p + s - 3 \in s .. Len(ms)
          BY <2>4, <4>1
        <4>. QED
          BY <2>7, <4>1, <4>2
      <3>. QED
        BY <3>1, <3>2
    <2>9. Paired(all)
      BY <2>8 DEF Paired
    <2>10. Compacted(ms, keep) = all
      BY <1>4 DEF Compacted, all, rest, s
    <2>. QED
      BY <2>6, <2>9, <2>10
  <1>. QED
    BY <1>3, <1>4

-----------------------------------------------------------------------------
(* A step keeps each part of the invariant.                                  *)

\* What a request that brought no stream leads to.
LEMMA NoStreamComes ==
    ASSUME NEW error, ConnectFails(error)
    PROVE  /\ UNCHANGED messages
           /\ \/ pc' = "done" /\ outcome' \in {"ceiling", "error"} /\ UNCHANGED got
              \/ /\ purpose = "first" /\ pc' = "recover_call" /\ UNCHANGED outcome
                 /\ got' = [Nothing EXCEPT !.error = error]
BY DEF ConnectFails, Return, Goto, runVars

\* And what one leads to that did.
LEMMA StreamComes ==
    ASSUME TypeOK, Collect
    PROVE  /\ pc = "collect" /\ purpose # "last" /\ got' \in Stream
           /\ shown' = shown \/ (purpose \in Forwarded /\ shown' = shown + 1)
           /\ UNCHANGED messages
           /\ \/ pc' = "done" /\ outcome' = "error"
              \/ pc' \in {"check", "recover_stream", "settle", "reply"} /\ UNCHANGED outcome
           /\ over' \in {over, TRUE}
           /\ UNCHANGED <<turn, purpose, tries, stalls, reacted, guardVars, batchVars, cancelled,
                          fileVars, diagVars, late>>
BY DEF TypeOK, Collect, Return, Goto, runVars

\* A reply's calls become a batch.
LEMMA CallsCome ==
    ASSUME Act
    PROVE  /\ pc = "reply" /\ pc' = "batch" /\ UNCHANGED outcome /\ NoStream /\ empty' = 0
           /\ \E batch \in Batches :
                  /\ messages' = Append(messages, Assistant(Len(batch)))
                  /\ calls' = batch /\ next' = 1 /\ ahead' = 1
                  /\ phase' = [i \in DOMAIN batch |-> "no"] /\ res' = [i \in DOMAIN batch |-> None]
           /\ UNCHANGED <<turn, reacted, over, headless, nudges, accepted, streak, edited, cancelled,
                          fileVars, diagVars, late>>
BY DEF Act, Say

\* Any other reply has no calls, and at most asks for more.
LEMMA WordsCome ==
    ASSUME Speak
    PROVE  /\ pc = "reply" /\ NoStream
           /\ \/ pc' = "done" /\ outcome' \in {"stopped", "incomplete"} /\ messages' = Answered
              \/ pc' = "turn" /\ UNCHANGED outcome /\ messages' = Append(Answered, User)
              \/ pc' = "answer" /\ UNCHANGED outcome /\ messages' = Answered
           /\ UNCHANGED <<turn, reacted, over, headless, streak, batchVars, cancelled, fileVars,
                          diagVars, late>>
  <1>1. CASE Dropped
    BY <1>1 DEF Speak, Dropped, Nudge, Say, guardVars
  <1>2. CASE Silent
    BY <1>2 DEF Speak, Silent, Nudge, Say, Return
  <1>3. CASE Text
    BY <1>3 DEF Speak, Text, Nudge, Say, Return
  <1>. QED
    BY <1>1, <1>2, <1>3 DEF Speak

\* What handling a call's result leads to.
LEMMA ResultComes ==
    ASSUME Consume
    PROVE  /\ pc = "consume" /\ edited' = None
           /\ UNCHANGED <<turn, callVars, headless, empty, nudges, accepted, calls, ahead, phase,
                          res, cancelled, fileVars, late>>
           /\ \/ /\ pc' = "done" /\ outcome' \in {"error", "stopped"} /\ messages' = Halted
                 /\ UNCHANGED <<next, diagVars>>
                 /\ \/ UNCHANGED streak
                    \/ \E n \in Failures(calls[next]) : streak' = [streak EXCEPT ![calls[next]] = n]
              \/ /\ messages' = Append(messages, Tool(next)) /\ UNCHANGED outcome
                 /\ pc' \in {"after", "consume", "batch"} /\ (pc' = "after" <=> next = Len(calls))
                 /\ (pc' = "consume" => next + 1 < ahead) /\ next' = next + 1 /\ Enqueue(edited)
                 /\ res[next] \notin {"abort", "spec"}
                 /\ \E n \in Failures(calls[next]) :
                       ~ (n >= FailureStopAt) /\ streak' = [streak EXCEPT ![calls[next]] = n]
BY DEF Consume, Return, Say

LEMMA NextPlace ==
    ASSUME TypeOK, PlaceInv, [Next]_vars
    PROVE  PlaceInv'
  <1>. USE DEF PlaceInv, Requesting, Goto, Say, Return,
               runVars, streamVars, callVars, guardVars, batchVars, fileVars, diagVars
  <1>1. CASE Turn
    BY <1>1, NoStreamComes DEF Turn
  <1>2. CASE Drain
    BY <1>2, NoStreamComes DEF Drain, Tell, NothingToTell, TooLate
  <1>3. CASE Compact
    BY <1>3, NoStreamComes DEF Compact
  <1>4. CASE Connect
    BY <1>4, NoStreamComes DEF Connect
  <1>5. CASE Backoff
    BY <1>5, NoStreamComes DEF Backoff
  <1>6. CASE Collect
    BY <1>6, StreamComes
  <1>7. CASE Recover
    BY <1>7, NoStreamComes DEF Recover
  <1>8. CASE Check
    BY <1>8, NoStreamComes DEF Check
  <1>9. CASE Settle
    BY <1>9, NoStreamComes DEF Settle, Retriable
  <1>10. CASE Act
    BY <1>10, NoStreamComes DEF Act, NoStream
  <1>11. CASE Speak
    BY <1>11, NoStreamComes DEF Speak, Dropped, Silent, Text, Nudge, NoStream
  <1>12. CASE Answer
    BY <1>12, NoStreamComes DEF Answer, Tell, NothingToTell, TooLate
  <1>13. CASE ReadAhead
    BY <1>13, NoStreamComes DEF ReadAhead
  <1>14. CASE ReadsJoin
    BY <1>14, NoStreamComes DEF ReadsJoin
  <1>15. CASE RunTool
    BY <1>15, NoStreamComes DEF RunTool, Edit
  <1>16. CASE Consume
    BY <1>16, NoStreamComes DEF Consume, Enqueue
  <1>17. CASE After
    BY <1>17, NoStreamComes DEF After
  <1>18. CASE Ceiling
    BY <1>18, NoStreamComes DEF Ceiling
  <1>19. CASE LastDrain
    BY <1>19, NoStreamComes DEF LastDrain, Tell, NothingToTell, TooLate
  <1>20. CASE LastAnswer
    BY <1>20, NoStreamComes DEF LastAnswer
  <1>21. CASE Reads
    BY <1>21, NoStreamComes DEF Reads, Read, StartRead, AskRead, EndRead
  <1>22. CASE Diagnose
    BY <1>22, NoStreamComes DEF Diagnose, Take, Look, Report
  <1>23. CASE Cancel
    BY <1>23, NoStreamComes DEF Cancel
  <1>24. CASE UNCHANGED vars
    BY <1>24, NoStreamComes DEF vars
  <1>. QED
    BY <1>1, <1>2, <1>3, <1>4, <1>5, <1>6, <1>7, <1>8, <1>9, <1>10, <1>11, <1>12, <1>13, <1>14, <1>15, <1>16, <1>17, <1>18, <1>19, <1>20, <1>21, <1>22, <1>23, <1>24, Zenon DEF Next, Run

LEMMA NextShown ==
    ASSUME TypeOK, PlaceInv, ShownInv, [Next]_vars
    PROVE  ShownInv'
  <1>. USE DEF ShownInv, Between, Requesting, Forwarded, Goto, Say, Return,
               runVars, streamVars, callVars, guardVars, batchVars, fileVars, diagVars
  <1>0. shown \in Nat
    BY DEF TypeOK
  <1>1. CASE Turn
    BY <1>1, <1>0, NoStreamComes DEF Turn
  <1>2. CASE Drain
    BY <1>2, <1>0, NoStreamComes DEF Drain, Tell, NothingToTell, TooLate
  <1>3. CASE Compact
    BY <1>3, <1>0, NoStreamComes DEF Compact
  <1>4. CASE Connect
    BY <1>4, <1>0, NoStreamComes DEF Connect
  <1>5. CASE Backoff
    BY <1>5, <1>0, NoStreamComes DEF Backoff
  <1>6. CASE Collect
    BY <1>6, <1>0, StreamComes
  <1>7. CASE Recover
    BY <1>7, <1>0, NoStreamComes DEF Recover
  <1>8. CASE Check
    BY <1>8, <1>0, NoStreamComes DEF Check
  <1>9. CASE Settle
    BY <1>9, <1>0, NoStreamComes DEF Settle, Retriable
  <1>10. CASE Act
    BY <1>10, <1>0, CallsCome DEF NoStream
  <1>11. CASE Speak
    BY <1>11, <1>0, WordsCome DEF NoStream
  <1>12. CASE Answer
    BY <1>12, <1>0, NoStreamComes DEF Answer, Tell, NothingToTell, TooLate
  <1>13. CASE ReadAhead
    BY <1>13, <1>0, NoStreamComes DEF ReadAhead
  <1>14. CASE ReadsJoin
    BY <1>14, <1>0, NoStreamComes DEF ReadsJoin
  <1>15. CASE RunTool
    BY <1>15, <1>0, NoStreamComes DEF RunTool, Edit
  <1>16. CASE Consume
    BY <1>16, <1>0, NoStreamComes DEF Consume, Enqueue
  <1>17. CASE After
    BY <1>17, <1>0, NoStreamComes DEF After
  <1>18. CASE Ceiling
    BY <1>18, <1>0, NoStreamComes DEF Ceiling
  <1>19. CASE LastDrain
    BY <1>19, <1>0, NoStreamComes DEF LastDrain, Tell, NothingToTell, TooLate
  <1>20. CASE LastAnswer
    BY <1>20, <1>0, NoStreamComes DEF LastAnswer
  <1>21. CASE Reads
    BY <1>21, <1>0, NoStreamComes DEF Reads, Read, StartRead, AskRead, EndRead
  <1>22. CASE Diagnose
    BY <1>22, <1>0, NoStreamComes DEF Diagnose, Take, Look, Report
  <1>23. CASE Cancel
    BY <1>23, <1>0, NoStreamComes DEF Cancel
  <1>24. CASE UNCHANGED vars
    BY <1>24, <1>0, NoStreamComes DEF vars
  <1>. QED
    BY <1>1, <1>2, <1>3, <1>4, <1>5, <1>6, <1>7, <1>8, <1>9, <1>10, <1>11, <1>12, <1>13, <1>14, <1>15, <1>16, <1>17, <1>18, <1>19, <1>20, <1>21, <1>22, <1>23, <1>24, Zenon DEF Next, Run

LEMMA NextBatch ==
    ASSUME TypeOK, BatchInv, [Next]_vars
    PROVE  BatchInv'
  <1>. USE DEF BatchInv, Goto, Say, Return,
               runVars, streamVars, callVars, guardVars, batchVars, fileVars, diagVars
  <1>0. /\ calls \in Seq(Kinds) /\ Len(calls) \in Nat /\ DOMAIN calls = 1 .. Len(calls)
        /\ next \in Nat /\ ahead \in Nat
        /\ phase \in [DOMAIN calls -> {"no", "wait", "run", "ask", "done"}]
    BY BatchesAssumption DEF TypeOK, Kinds
  <1>1. CASE Turn
    BY <1>1, <1>0 DEF Turn
  <1>2. CASE Drain
    BY <1>2, <1>0 DEF Drain, Tell, NothingToTell, TooLate
  <1>3. CASE Compact
    BY <1>3, <1>0 DEF Compact
  <1>4. CASE Connect
    BY <1>4, <1>0, NoStreamComes DEF Connect
  <1>5. CASE Backoff
    BY <1>5, <1>0, NoStreamComes DEF Backoff
  <1>6. CASE Collect
    BY <1>6, <1>0, StreamComes
  <1>7. CASE Recover
    BY <1>7, <1>0 DEF Recover
  <1>8. CASE Check
    BY <1>8, <1>0 DEF Check
  <1>9. CASE Settle
    BY <1>9, <1>0 DEF Settle, Retriable
  <1>10. CASE Act
    <2>1. PICK batch \in Batches : /\ calls' = batch /\ next' = 1 /\ ahead' = 1
                                   /\ phase' = [i \in DOMAIN batch |-> "no"]
      BY <1>10, CallsCome
    <2>2. batch \in Seq(Kinds) /\ Len(batch) > 0 /\ Len(batch) \in Nat
          /\ DOMAIN batch = 1 .. Len(batch)
      BY BatchesAssumption DEF Kinds
    <2>3. pc' = "batch"
      BY <1>10, CallsCome
    <2>. QED
      BY <2>1, <2>2, <2>3
  <1>11. CASE Speak
    BY <1>11, <1>0, WordsCome
  <1>12. CASE Answer
    BY <1>12, <1>0 DEF Answer, Tell, NothingToTell, TooLate
  <1>13. CASE ReadAhead
    <2>1. next \in 1 .. Len(calls) /\ next >= ahead
      BY <1>13, <1>0 DEF ReadAhead
    <2>2. /\ RunEnd(next) \in next .. Len(calls) + 1 /\ RunEnd(next) >= next + 2
          /\ \A j \in DOMAIN calls : next <= j /\ j < RunEnd(next) => calls[j] = "read"
      BY <1>13, <1>0, <2>1, RunEndIs DEF ReadAhead
    <2>3. /\ pc' = "reads" /\ ahead' = RunEnd(next) /\ UNCHANGED <<calls, next>>
          /\ phase' = [i \in DOMAIN calls |->
                          IF i \in next .. RunEnd(next) - 1 THEN "wait" ELSE phase[i]]
      BY <1>13 DEF ReadAhead
    <2>. QED
      BY <1>0, <2>1, <2>2, <2>3
  <1>14. CASE ReadsJoin
    <2>1. \A j \in DOMAIN calls : phase[j] \in {"no", "done"}
      BY <1>14, <1>0 DEF ReadsJoin, In
    <2>2. pc = "reads" /\ pc' = "consume" /\ UNCHANGED batchVars
      BY <1>14 DEF ReadsJoin
    <2>. QED
      BY <1>0, <2>1, <2>2
  <1>15. CASE RunTool
    BY <1>15, <1>0 DEF RunTool, Edit
  <1>16. CASE Consume
    BY <1>16, <1>0 DEF Consume, Enqueue
  <1>17. CASE After
    BY <1>17, <1>0 DEF After
  <1>18. CASE Ceiling
    BY <1>18, <1>0 DEF Ceiling
  <1>19. CASE LastDrain
    BY <1>19, <1>0 DEF LastDrain, Tell, NothingToTell, TooLate
  <1>20. CASE LastAnswer
    BY <1>20, <1>0 DEF LastAnswer
  <1>21. CASE Reads
    <2>1. PICK i \in DOMAIN calls : Read(i)
      BY <1>21 DEF Reads
    <2>2. /\ pc = "reads" /\ phase[i] \in {"wait", "run", "ask"}
          /\ \E p \in {"run", "ask", "done"} : phase' = [phase EXCEPT ![i] = p]
          /\ UNCHANGED <<pc, calls, next, ahead>>
      BY <2>1 DEF Read, StartRead, AskRead, EndRead
    <2>3. next <= i /\ i < ahead
      BY <1>0, <2>2
    <2>. QED
      BY <1>0, <2>2, <2>3
  <1>22. CASE Diagnose
    BY <1>22, <1>0 DEF Diagnose, Take, Look, Report
  <1>23. CASE Cancel
    BY <1>23, <1>0 DEF Cancel
  <1>24. CASE UNCHANGED vars
    BY <1>24, <1>0 DEF vars
  <1>. QED
    BY <1>1, <1>2, <1>3, <1>4, <1>5, <1>6, <1>7, <1>8, <1>9, <1>10, <1>11, <1>12, <1>13, <1>14, <1>15, <1>16, <1>17, <1>18, <1>19, <1>20, <1>21, <1>22, <1>23, <1>24, Zenon DEF Next, Run

\* A history with what the checks have found.
LEMMA Informed ==
    ASSUME Opened(messages), Paired(messages), messages' \in {messages, Append(messages, User)}
    PROVE  Opened(messages') /\ Paired(messages')
BY PairedOne, PlainMessages

LEMMA NextHistory ==
    ASSUME TypeOK, BatchInv, BatchInv', HistoryInv, [Next]_vars
    PROVE  HistoryInv'
  <1>. USE DEF HistoryInv, Goto, Say, Return,
               runVars, streamVars, callVars, guardVars, batchVars, fileVars, diagVars
  <1>a. /\ Opened(messages) /\ Len(calls) \in Nat /\ next \in Nat /\ next > 0
        /\ next - 1 \in Nat
        /\ pc \in {"batch", "reads", "consume"} =>
              next <= Len(calls) /\ Answering(messages, Len(calls), next - 1)
        /\ pc \notin {"batch", "reads", "consume"} => Paired(messages)
    BY BatchesAssumption DEF TypeOK, BatchInv
  <1>b. Plain(User) /\ Plain(Assistant(0)) /\ PreserveLast \in Nat \ {0}
    BY PlainMessages, NumbersAssumption
  <1>1. CASE Turn
    BY <1>1, <1>a DEF Turn
  <1>2. CASE Drain
    <2>0. pc \notin {"batch", "reads", "consume"} /\ pc' \notin {"batch", "reads", "consume"}
      BY <1>2 DEF Drain, Tell
    <2>1. messages' \in {messages, Append(messages, User)}
      BY <1>2 DEF Drain, Tell
    <2>. QED
      BY <1>a, <2>0, <2>1, Informed
  <1>3. CASE Compact
    BY <1>3, <1>a, <1>b, PairedCompacted DEF Compact
  <1>4. CASE Connect
    BY <1>4, <1>a, NoStreamComes DEF Connect
  <1>5. CASE Backoff
    BY <1>5, <1>a, NoStreamComes DEF Backoff
  <1>6. CASE Collect
    BY <1>6, <1>a, StreamComes
  <1>7. CASE Recover
    BY <1>7, <1>a, <1>b, PairedCompacted DEF Recover
  <1>8. CASE Check
    BY <1>8, <1>a DEF Check
  <1>9. CASE Settle
    BY <1>9, <1>a DEF Settle, Retriable
  <1>10. CASE Act
    <2>1. PICK batch \in Batches : /\ messages' = Append(messages, Assistant(Len(batch)))
                                   /\ calls' = batch /\ next' = 1
      BY <1>10, CallsCome
    <2>2. Len(batch) \in Nat
      BY BatchesAssumption
    <2>3. Opened(messages') /\ Answering(messages', Len(batch), 0)
      BY <1>10, <1>a, <2>1, <2>2, CallsAdvertised DEF Act
    <2>4. pc' = "batch" /\ next' - 1 = 0
      BY <1>10, <2>1, CallsCome
    <2>. QED
      BY <2>1, <2>3, <2>4
  <1>11. CASE Speak
    <2>1. /\ Opened(Answered) /\ Paired(Answered)
          /\ Opened(Append(Answered, User)) /\ Paired(Append(Answered, User))
      BY <1>11, <1>a, <1>b, WordsCome, PairedOne DEF Answered
    <2>. QED
      BY <1>11, <2>1, WordsCome
  <1>12. CASE Answer
    <2>0. pc \notin {"batch", "reads", "consume"} /\ pc' \notin {"batch", "reads", "consume"}
      BY <1>12 DEF Answer, Tell
    <2>1. messages' \in {messages, Append(messages, User)}
      BY <1>12 DEF Answer, Tell
    <2>. QED
      BY <1>a, <2>0, <2>1, Informed
  <1>13. CASE ReadAhead
    BY <1>13, <1>a DEF ReadAhead
  <1>14. CASE ReadsJoin
    BY <1>14, <1>a DEF ReadsJoin
  <1>15. CASE RunTool
    BY <1>15, <1>a DEF RunTool, Edit
  <1>16. CASE Consume
    <2>1. pc = "consume" /\ next <= Len(calls) /\ Answering(messages, Len(calls), next - 1)
      BY <1>16, <1>a DEF Consume
    <2>2. next - 1 \in 0 .. Len(calls) - 1 /\ (next - 1) + 1 = next
      BY <1>a, <2>1
    <2>3. LET ms == Append(messages, Tool(next)) IN
          Opened(ms) /\ Answering(ms, Len(calls), next)
      BY <1>a, <2>1, <2>2, OneAnswered
    <2>4. Opened(Halted) /\ Paired(Halted)
      BY <1>a, <2>1, <2>3, RestAnswered DEF Halted
    <2>5. next = Len(calls) => Paired(Append(messages, Tool(next)))
      BY <1>a, <2>3, AllAnswered
    <2>6. CASE pc' = "done" /\ messages' = Halted
      BY <2>4, <2>6
    <2>7. CASE /\ messages' = Append(messages, Tool(next)) /\ next' = next + 1
               /\ UNCHANGED calls
               /\ \/ next = Len(calls) /\ pc' = "after"
                  \/ pc' \in {"consume", "batch"}
      <3>1. next' - 1 = next
        BY <1>a, <2>7
      <3>. QED
        BY <2>3, <2>5, <2>7, <3>1
    <2>. QED
      BY <1>16, <2>6, <2>7 DEF Consume
  <1>17. CASE After
    <2>1. PICK n \in 0 .. MaxNotes : messages' = messages \o [i \in 1 .. n |-> User]
      BY <1>17 DEF After
    <2>2. n \in Nat
      BY NumbersAssumption
    <2>3. Paired(messages) /\ pc' = "turn"
      BY <1>17, <1>a DEF After
    <2>. QED
      BY <1>a, <2>1, <2>2, <2>3, PairedNotes
  <1>18. CASE Ceiling
    BY <1>18, <1>a DEF Ceiling
  <1>19. CASE LastDrain
    <2>0. pc \notin {"batch", "reads", "consume"} /\ pc' \notin {"batch", "reads", "consume"}
      BY <1>19 DEF LastDrain, Tell
    <2>1. messages' \in {messages, Append(messages, User)}
      BY <1>19 DEF LastDrain, Tell
    <2>. QED
      BY <1>a, <2>0, <2>1, Informed
  <1>20. CASE LastAnswer
    <2>1. Paired(messages) /\ pc' = "done"
      BY <1>20, <1>a DEF LastAnswer
    <2>2. LET ms == messages \o <<User, Assistant(0)>> IN Opened(ms) /\ Paired(ms)
      BY <1>a, <1>b, <2>1, PairedTwo
    <2>3. messages' \in {messages, messages \o <<User, Assistant(0)>>}
      BY <1>20 DEF LastAnswer
    <2>. QED
      BY <1>a, <2>1, <2>2, <2>3
  <1>21. CASE Reads
    BY <1>21, <1>a DEF Reads, Read
  <1>22. CASE Diagnose
    BY <1>22, <1>a DEF Diagnose
  <1>23. CASE Cancel
    BY <1>23, <1>a DEF Cancel
  <1>24. CASE UNCHANGED vars
    BY <1>24, <1>a DEF vars
  <1>. QED
    BY <1>1, <1>2, <1>3, <1>4, <1>5, <1>6, <1>7, <1>8, <1>9, <1>10, <1>11, <1>12, <1>13, <1>14, <1>15, <1>16, <1>17, <1>18, <1>19, <1>20, <1>21, <1>22, <1>23, <1>24, Zenon DEF Next, Run

LEMMA NextGuard ==
    ASSUME TypeOK, GuardInv, BatchInv, [Next]_vars
    PROVE  GuardInv'
  <1>. USE DEF GuardInv, Goto, Say, Return,
               runVars, streamVars, callVars, guardVars, batchVars, fileVars, diagVars
  <1>0. /\ empty \in Nat /\ MaxEmptyTurns \in Nat \ {0} /\ FailureStopAt \in Nat \ {0}
        /\ streak \in [Kinds -> Nat]
    BY NumbersAssumption DEF TypeOK
  <1>1. CASE Turn
    BY <1>1, <1>0 DEF Turn
  <1>2. CASE Drain
    BY <1>2, <1>0 DEF Drain, Tell, NothingToTell, TooLate
  <1>3. CASE Compact
    BY <1>3, <1>0 DEF Compact
  <1>4. CASE Connect
    BY <1>4, <1>0, NoStreamComes DEF Connect
  <1>5. CASE Backoff
    BY <1>5, <1>0, NoStreamComes DEF Backoff
  <1>6. CASE Collect
    BY <1>6, <1>0, StreamComes
  <1>7. CASE Recover
    BY <1>7, <1>0 DEF Recover
  <1>8. CASE Check
    BY <1>8, <1>0 DEF Check
  <1>9. CASE Settle
    BY <1>9, <1>0 DEF Settle, Retriable
  <1>10. CASE Act
    BY <1>10, <1>0, CallsCome
  <1>11. CASE Speak
    <2>1. CASE Dropped
      BY <1>11, <1>0, <2>1 DEF Speak, Dropped
    <2>2. CASE Silent
      <3>1. empty' \in {empty + 1, 0} /\ UNCHANGED streak /\ (empty' >= MaxEmptyTurns => pc' = "done")
        BY <2>2 DEF Silent
      <3>. QED
        BY <1>0, <1>11, <3>1 DEF Speak
    <2>3. CASE Text
      BY <1>11, <1>0, <2>3 DEF Speak, Text
    <2>. QED
      BY <1>11, <2>1, <2>2, <2>3 DEF Speak
  <1>12. CASE Answer
    BY <1>12, <1>0 DEF Answer, Tell, NothingToTell, TooLate
  <1>13. CASE ReadAhead
    BY <1>13, <1>0 DEF ReadAhead
  <1>14. CASE ReadsJoin
    BY <1>14, <1>0 DEF ReadsJoin
  <1>15. CASE RunTool
    BY <1>15, <1>0 DEF RunTool, Edit
  <1>16. CASE Consume
    <2>1. calls[next] \in Kinds
      <3>1. calls \in Seq(Kinds) /\ next \in DOMAIN calls
        BY <1>16, BatchesAssumption DEF Consume, BatchInv, TypeOK, Kinds
      <3>. QED
        BY <3>1
    <2>2. pc # "done" /\ UNCHANGED empty
      BY <1>16, ResultComes
    <2>3. pc' = "done" \/ \E n \in Failures(calls[next]) :
             ~ (n >= FailureStopAt) /\ streak' = [streak EXCEPT ![calls[next]] = n]
      BY <1>16, ResultComes
    <2>4. \A n \in Failures(calls[next]) : n \in Nat
      BY <1>0, <2>1 DEF Failures
    <2>. QED
      BY <1>0, <2>1, <2>2, <2>3, <2>4
  <1>17. CASE After
    BY <1>17, <1>0 DEF After
  <1>18. CASE Ceiling
    BY <1>18, <1>0 DEF Ceiling
  <1>19. CASE LastDrain
    BY <1>19, <1>0 DEF LastDrain, Tell, NothingToTell, TooLate
  <1>20. CASE LastAnswer
    BY <1>20, <1>0 DEF LastAnswer
  <1>21. CASE Reads
    BY <1>21, <1>0 DEF Reads, Read, StartRead, AskRead, EndRead
  <1>22. CASE Diagnose
    BY <1>22, <1>0 DEF Diagnose, Take, Look, Report
  <1>23. CASE Cancel
    BY <1>23, <1>0 DEF Cancel
  <1>24. CASE UNCHANGED vars
    BY <1>24, <1>0 DEF vars
  <1>. QED
    BY <1>1, <1>2, <1>3, <1>4, <1>5, <1>6, <1>7, <1>8, <1>9, <1>10, <1>11, <1>12, <1>13, <1>14, <1>15, <1>16, <1>17, <1>18, <1>19, <1>20, <1>21, <1>22, <1>23, <1>24, Zenon DEF Next, Run

\* The type invariant, in parts.
FlowOK ==
    /\ pc \in {"turn", "drain", "compact", "connect", "backoff", "collect", "recover_call",
               "recover_stream", "recover_stall", "check", "settle", "reply", "answer", "batch",
               "reads", "consume", "after", "ceiling", "last_drain", "done"}
    /\ turn \in 0 .. MaxTurns
    /\ outcome \in {"none", "answered", "incomplete", "stopped", "error", "ceiling"}
    /\ cancelled \in BOOLEAN /\ late \in BOOLEAN

RequestOK ==
    /\ purpose \in {"first", "again", "reissue", "stall", "reissue_stall", "last"}
    /\ tries \in 0 .. MaxReconnects /\ stalls \in 0 .. MaxStallRetries
    /\ got \in [error : Errors \cup {"none"}, kind : Replies, text : BOOLEAN]
    /\ shown \in Nat /\ reacted \in BOOLEAN /\ over \in BOOLEAN

GuardOK ==
    /\ headless \in BOOLEAN /\ accepted \in BOOLEAN
    /\ empty \in 0 .. MaxEmptyTurns /\ nudges \in 0 .. MaxNudges
    /\ streak \in [Kinds -> 0 .. FailureStopAt]

BatchOK ==
    /\ calls \in Batches \cup {<<>>} /\ next \in Nat /\ ahead \in Nat
    /\ phase \in [DOMAIN calls -> {"no", "wait", "run", "ask", "done"}]
    /\ res \in [DOMAIN calls -> {None, "ok", "failed", "denied", "abort", "spec"}]
    /\ edited \in Files \cup {None}

DiagOK ==
    /\ broken \subseteq Files /\ told \subseteq Files
    /\ queue \in Seq(Files)
    /\ worker \in [on : BOOLEAN, file : Files \cup {None}, saw : Finds \cup {None}]
    /\ results \in [Files -> {None, "errors", "old_errors"}]

LEMMA TypeParts ==
    /\ TypeOK <=> FlowOK /\ RequestOK /\ GuardOK /\ BatchOK /\ DiagOK /\ messages \in Seq(Message)
    /\ TypeOK' <=> /\ FlowOK' /\ RequestOK' /\ GuardOK' /\ BatchOK' /\ DiagOK'
                   /\ messages' \in Seq(Message)
BY DEF TypeOK, FlowOK, RequestOK, GuardOK, BatchOK, DiagOK, Message

LEMMA NextFlow ==
    ASSUME TypeOK, FlowOK, [Next]_vars
    PROVE  FlowOK'
  <1>. USE DEF FlowOK, Goto, Say, Return,
               runVars, streamVars, callVars, guardVars, batchVars, fileVars, diagVars
  <1>1. CASE Turn
    BY <1>1, NumbersAssumption DEF Turn
  <1>2. CASE Drain
    BY <1>2, NumbersAssumption DEF Drain, Tell, NothingToTell, TooLate
  <1>3. CASE Compact
    BY <1>3, NumbersAssumption DEF Compact
  <1>4. CASE Connect
    BY <1>4, NoStreamComes DEF Connect
  <1>5. CASE Backoff
    BY <1>5, NoStreamComes DEF Backoff
  <1>6. CASE Collect
    BY <1>6, StreamComes
  <1>7. CASE Recover
    BY <1>7, NumbersAssumption DEF Recover
  <1>8. CASE Check
    BY <1>8, NumbersAssumption DEF Check
  <1>9. CASE Settle
    BY <1>9, NumbersAssumption DEF Settle, Retriable
  <1>10. CASE Act
    BY <1>10, CallsCome
  <1>11. CASE Speak
    BY <1>11, WordsCome
  <1>12. CASE Answer
    BY <1>12, NumbersAssumption DEF Answer, Tell, NothingToTell, TooLate
  <1>13. CASE ReadAhead
    BY <1>13, NumbersAssumption DEF ReadAhead
  <1>14. CASE ReadsJoin
    BY <1>14, NumbersAssumption DEF ReadsJoin
  <1>15. CASE RunTool
    BY <1>15, NumbersAssumption DEF RunTool, Edit
  <1>16. CASE Consume
    BY <1>16, ResultComes
  <1>17. CASE After
    BY <1>17, NumbersAssumption DEF After
  <1>18. CASE Ceiling
    BY <1>18, NumbersAssumption DEF Ceiling
  <1>19. CASE LastDrain
    BY <1>19, NumbersAssumption DEF LastDrain, Tell, NothingToTell, TooLate
  <1>20. CASE LastAnswer
    BY <1>20, NumbersAssumption DEF LastAnswer
  <1>21. CASE Reads
    BY <1>21, NumbersAssumption DEF Reads, Read, StartRead, AskRead, EndRead
  <1>22. CASE Diagnose
    BY <1>22, NumbersAssumption DEF Diagnose, Take, Look, Report
  <1>23. CASE Cancel
    BY <1>23, NumbersAssumption DEF Cancel
  <1>24. CASE UNCHANGED vars
    BY <1>24, NumbersAssumption DEF vars
  <1>. QED
    BY <1>1, <1>2, <1>3, <1>4, <1>5, <1>6, <1>7, <1>8, <1>9, <1>10, <1>11, <1>12, <1>13, <1>14, <1>15, <1>16, <1>17, <1>18, <1>19, <1>20, <1>21, <1>22, <1>23, <1>24, Zenon DEF Next, Run

LEMMA NextRequest ==
    ASSUME TypeOK, RequestOK, [Next]_vars
    PROVE  RequestOK'
  <1>. USE DEF RequestOK, Nothing, Errors, Replies, Goto, Say, Return,
               runVars, streamVars, callVars, guardVars, batchVars, fileVars, diagVars
  <1>0. /\ Nothing \in [error : Errors \cup {"none"}, kind : Replies, text : BOOLEAN]
        /\ \A e \in Errors : [Nothing EXCEPT !.error = e]
                                 \in [error : Errors \cup {"none"}, kind : Replies, text : BOOLEAN]
        /\ \A s \in Stream : s \in [error : Errors \cup {"none"}, kind : Replies, text : BOOLEAN]
    BY DEF Stream
  <1>1. CASE Turn
    BY <1>1, NumbersAssumption DEF Turn
  <1>2. CASE Drain
    BY <1>2, NumbersAssumption DEF Drain, Tell, NothingToTell, TooLate
  <1>3. CASE Compact
    BY <1>3, NumbersAssumption DEF Compact
  <1>4. CASE Connect
    <2>1. UNCHANGED <<purpose, stalls, shown, reacted, over>>
      BY <1>4 DEF Connect
    <2>2. tries' \in 0 .. MaxReconnects
      BY <1>4, NumbersAssumption DEF Connect, Counted
    <2>3. got' = got \/ \E error \in {"limit", "other"} : got' = [Nothing EXCEPT !.error = error]
      BY <1>4, NoStreamComes DEF Connect
    <2>. QED
      BY <1>0, <2>1, <2>2, <2>3
  <1>5. CASE Backoff
    <2>1. UNCHANGED <<purpose, tries, stalls, shown, reacted, over>>
      BY <1>5 DEF Backoff
    <2>2. got' = got \/ got' = [Nothing EXCEPT !.error = "other"]
      BY <1>5, NoStreamComes DEF Backoff
    <2>. QED
      BY <1>0, <2>1, <2>2
  <1>6. CASE Collect
    <2>1. UNCHANGED <<purpose, tries, stalls, reacted>> /\ over' \in {over, TRUE} /\ got' \in Stream
      BY <1>6, StreamComes
    <2>2. shown' \in {shown, shown + 1}
      BY <1>6, StreamComes
    <2>3. shown' \in Nat
      BY <2>2
    <2>4. over' \in BOOLEAN /\ reacted' \in BOOLEAN
      BY <2>1
    <2>. QED
      BY <1>0, <2>1, <2>3, <2>4
  <1>7. CASE Recover
    <2>1. /\ UNCHANGED <<stalls, got, shown, over>> /\ reacted' \in {reacted, TRUE}
          /\ tries' \in {tries, 0} /\ purpose' \in {purpose, "again", "reissue", "reissue_stall"}
      BY <1>7 DEF Recover
    <2>2. tries' \in 0 .. MaxReconnects
      BY <2>1, NumbersAssumption
    <2>3. purpose' \in {"first", "again", "reissue", "stall", "reissue_stall", "last"}
      BY <2>1
    <2>4. reacted' \in BOOLEAN /\ over' \in BOOLEAN
      BY <2>1
    <2>. QED
      BY <2>1, <2>2, <2>3, <2>4
  <1>8. CASE Check
    BY <1>8, NumbersAssumption DEF Check
  <1>9. CASE Settle
    BY <1>9, NumbersAssumption DEF Settle, Retriable
  <1>10. CASE Act
    <2>1. NoStream /\ UNCHANGED <<reacted, over>>
      BY <1>10, CallsCome
    <2>. QED
      BY <1>0, <2>1, NumbersAssumption DEF NoStream
  <1>11. CASE Speak
    <2>1. NoStream /\ UNCHANGED <<reacted, over>>
      BY <1>11, WordsCome
    <2>. QED
      BY <1>0, <2>1, NumbersAssumption DEF NoStream
  <1>12. CASE Answer
    BY <1>12, NumbersAssumption DEF Answer, Tell, NothingToTell, TooLate
  <1>13. CASE ReadAhead
    BY <1>13, NumbersAssumption DEF ReadAhead
  <1>14. CASE ReadsJoin
    BY <1>14, NumbersAssumption DEF ReadsJoin
  <1>15. CASE RunTool
    BY <1>15, NumbersAssumption DEF RunTool, Edit
  <1>16. CASE Consume
    BY <1>16, ResultComes
  <1>17. CASE After
    BY <1>17, NumbersAssumption DEF After
  <1>18. CASE Ceiling
    BY <1>18, NumbersAssumption DEF Ceiling
  <1>19. CASE LastDrain
    BY <1>19, NumbersAssumption DEF LastDrain, Tell, NothingToTell, TooLate
  <1>20. CASE LastAnswer
    BY <1>20, NumbersAssumption DEF LastAnswer
  <1>21. CASE Reads
    BY <1>21, NumbersAssumption DEF Reads, Read, StartRead, AskRead, EndRead
  <1>22. CASE Diagnose
    BY <1>22, NumbersAssumption DEF Diagnose, Take, Look, Report
  <1>23. CASE Cancel
    BY <1>23, NumbersAssumption DEF Cancel
  <1>24. CASE UNCHANGED vars
    BY <1>24, NumbersAssumption DEF vars
  <1>. QED
    BY <1>1, <1>2, <1>3, <1>4, <1>5, <1>6, <1>7, <1>8, <1>9, <1>10, <1>11, <1>12, <1>13, <1>14, <1>15, <1>16, <1>17, <1>18, <1>19, <1>20, <1>21, <1>22, <1>23, <1>24, Zenon DEF Next, Run

LEMMA NextGuards ==
    ASSUME TypeOK, GuardInv, BatchInv, GuardOK, [Next]_vars
    PROVE  GuardOK'
  <1>. USE DEF GuardOK, Goto, Say, Return,
               runVars, streamVars, callVars, guardVars, batchVars, fileVars, diagVars
  <1>1. CASE Turn
    BY <1>1, NumbersAssumption DEF Turn
  <1>2. CASE Drain
    BY <1>2, NumbersAssumption DEF Drain, Tell, NothingToTell, TooLate
  <1>3. CASE Compact
    BY <1>3, NumbersAssumption DEF Compact
  <1>4. CASE Connect
    BY <1>4, NoStreamComes DEF Connect
  <1>5. CASE Backoff
    BY <1>5, NoStreamComes DEF Backoff
  <1>6. CASE Collect
    BY <1>6, StreamComes
  <1>7. CASE Recover
    BY <1>7, NumbersAssumption DEF Recover
  <1>8. CASE Check
    BY <1>8, NumbersAssumption DEF Check
  <1>9. CASE Settle
    BY <1>9, NumbersAssumption DEF Settle, Retriable
  <1>10. CASE Act
    BY <1>10, CallsCome, NumbersAssumption
  <1>11. CASE Speak
    <2>0. UNCHANGED <<headless, streak>>
      BY <1>11, WordsCome
    <2>1. CASE Dropped
      BY <1>11, <2>1 DEF Speak, Dropped
    <2>2. CASE Silent
      <3>1. empty' \in {empty + 1, 0} /\ UNCHANGED <<nudges, accepted>> /\ empty < MaxEmptyTurns
        BY <1>11, <2>2 DEF Speak, Silent, GuardInv
      <3>. QED
        BY <2>0, <3>1, NumbersAssumption
    <2>3. CASE Text
      <3>1. /\ empty' = 0 /\ accepted' \in {accepted, TRUE}
            /\ nudges' = nudges \/ (nudges < MaxNudges /\ nudges' = nudges + 1)
        BY <2>3 DEF Text
      <3>2. empty' \in 0 .. MaxEmptyTurns /\ nudges' \in 0 .. MaxNudges
        BY <3>1, NumbersAssumption
      <3>3. accepted' \in BOOLEAN
        BY <3>1
      <3>. QED
        BY <2>0, <3>2, <3>3
    <2>. QED
      BY <1>11, <2>1, <2>2, <2>3 DEF Speak
  <1>12. CASE Answer
    BY <1>12, NumbersAssumption DEF Answer, Tell, NothingToTell, TooLate
  <1>13. CASE ReadAhead
    BY <1>13, NumbersAssumption DEF ReadAhead
  <1>14. CASE ReadsJoin
    BY <1>14, NumbersAssumption DEF ReadsJoin
  <1>15. CASE RunTool
    BY <1>15, NumbersAssumption DEF RunTool, Edit
  <1>16. CASE Consume
    <2>1. calls[next] \in Kinds
      <3>1. calls \in Seq(Kinds) /\ next \in DOMAIN calls
        BY <1>16, BatchesAssumption DEF Consume, BatchInv, TypeOK, Kinds
      <3>. QED
        BY <3>1
    <2>2. pc # "done" /\ UNCHANGED <<headless, empty, nudges, accepted>>
      BY <1>16, ResultComes
    <2>3. UNCHANGED streak \/ \E n \in Failures(calls[next]) :
             streak' = [streak EXCEPT ![calls[next]] = n]
      BY <1>16, ResultComes
    <2>4. streak[calls[next]] < FailureStopAt /\ streak[calls[next]] \in Nat
      BY <2>1, <2>2, NumbersAssumption DEF GuardInv
    <2>5. \A n \in Failures(calls[next]) : n \in 0 .. FailureStopAt
      BY <2>4, NumbersAssumption DEF Failures
    <2>. QED
      BY <2>1, <2>2, <2>3, <2>5
  <1>17. CASE After
    BY <1>17, NumbersAssumption DEF After
  <1>18. CASE Ceiling
    BY <1>18, NumbersAssumption DEF Ceiling
  <1>19. CASE LastDrain
    BY <1>19, NumbersAssumption DEF LastDrain, Tell, NothingToTell, TooLate
  <1>20. CASE LastAnswer
    BY <1>20, NumbersAssumption DEF LastAnswer
  <1>21. CASE Reads
    BY <1>21, NumbersAssumption DEF Reads, Read, StartRead, AskRead, EndRead
  <1>22. CASE Diagnose
    BY <1>22, NumbersAssumption DEF Diagnose, Take, Look, Report
  <1>23. CASE Cancel
    BY <1>23, NumbersAssumption DEF Cancel
  <1>24. CASE UNCHANGED vars
    BY <1>24, NumbersAssumption DEF vars
  <1>. QED
    BY <1>1, <1>2, <1>3, <1>4, <1>5, <1>6, <1>7, <1>8, <1>9, <1>10, <1>11, <1>12, <1>13, <1>14, <1>15, <1>16, <1>17, <1>18, <1>19, <1>20, <1>21, <1>22, <1>23, <1>24, Zenon DEF Next, Run

LEMMA NextCalls ==
    ASSUME TypeOK, BatchInv, BatchOK, [Next]_vars
    PROVE  BatchOK'
  <1>. USE DEF BatchOK, Goto, Say, Return,
               runVars, streamVars, callVars, guardVars, batchVars, fileVars, diagVars
  <1>1. CASE Turn
    BY <1>1, NumbersAssumption DEF Turn
  <1>2. CASE Drain
    BY <1>2, NumbersAssumption DEF Drain, Tell, NothingToTell, TooLate
  <1>3. CASE Compact
    BY <1>3, NumbersAssumption DEF Compact
  <1>4. CASE Connect
    BY <1>4, NoStreamComes DEF Connect
  <1>5. CASE Backoff
    BY <1>5, NoStreamComes DEF Backoff
  <1>6. CASE Collect
    BY <1>6, StreamComes
  <1>7. CASE Recover
    BY <1>7, NumbersAssumption DEF Recover
  <1>8. CASE Check
    BY <1>8, NumbersAssumption DEF Check
  <1>9. CASE Settle
    BY <1>9, NumbersAssumption DEF Settle, Retriable
  <1>10. CASE Act
    BY <1>10, CallsCome, NumbersAssumption
  <1>11. CASE Speak
    BY <1>11, WordsCome
  <1>12. CASE Answer
    BY <1>12, NumbersAssumption DEF Answer, Tell, NothingToTell, TooLate
  <1>13. CASE ReadAhead
    <2>1. next \in 1 .. Len(calls) /\ calls \in Seq(Kinds)
      BY <1>13, BatchesAssumption DEF ReadAhead, BatchInv, TypeOK, Kinds
    <2>2. RunEnd(next) \in Nat
      BY <2>1, RunEndIs
    <2>. QED
      BY <1>13, <2>2 DEF ReadAhead
  <1>14. CASE ReadsJoin
    BY <1>14, NumbersAssumption DEF ReadsJoin
  <1>15. CASE RunTool
    BY <1>15, NumbersAssumption DEF RunTool, Edit
  <1>16. CASE Consume
    BY <1>16, ResultComes
  <1>17. CASE After
    BY <1>17, NumbersAssumption DEF After
  <1>18. CASE Ceiling
    BY <1>18, NumbersAssumption DEF Ceiling
  <1>19. CASE LastDrain
    BY <1>19, NumbersAssumption DEF LastDrain, Tell, NothingToTell, TooLate
  <1>20. CASE LastAnswer
    BY <1>20, NumbersAssumption DEF LastAnswer
  <1>21. CASE Reads
    BY <1>21, NumbersAssumption DEF Reads, Read, StartRead, AskRead, EndRead
  <1>22. CASE Diagnose
    BY <1>22, NumbersAssumption DEF Diagnose, Take, Look, Report
  <1>23. CASE Cancel
    BY <1>23, NumbersAssumption DEF Cancel
  <1>24. CASE UNCHANGED vars
    BY <1>24, NumbersAssumption DEF vars
  <1>. QED
    BY <1>1, <1>2, <1>3, <1>4, <1>5, <1>6, <1>7, <1>8, <1>9, <1>10, <1>11, <1>12, <1>13, <1>14, <1>15, <1>16, <1>17, <1>18, <1>19, <1>20, <1>21, <1>22, <1>23, <1>24, Zenon DEF Next, Run

LEMMA NextChecks ==
    ASSUME TypeOK, DiagOK, [Next]_vars
    PROVE  DiagOK'
  <1>. USE DEF DiagOK, Idle, Finds, Goto, Say, Return,
               runVars, streamVars, callVars, guardVars, batchVars, fileVars, diagVars
  <1>0. ASSUME NEW place, Tell(place)
        PROVE  /\ results' = [f \in Files |-> None] /\ told' = told \cup {f \in Found : results[f] = "errors"}
               /\ UNCHANGED <<queue, worker, broken>> /\ Found \subseteq Files
    BY <1>0 DEF Tell, Found
  <1>1. CASE Turn
    BY <1>1 DEF Turn
  <1>2. CASE Drain
    <2>1. (\E place : Tell(place)) \/ UNCHANGED <<diagVars, fileVars>>
      BY <1>2 DEF Drain, NothingToTell, TooLate
    <2>. QED
      BY <1>0, <2>1
  <1>3. CASE Compact
    BY <1>3 DEF Compact
  <1>4. CASE Connect
    BY <1>4, NoStreamComes DEF Connect
  <1>5. CASE Backoff
    BY <1>5, NoStreamComes DEF Backoff
  <1>6. CASE Collect
    BY <1>6, StreamComes
  <1>7. CASE Recover
    BY <1>7 DEF Recover
  <1>8. CASE Check
    BY <1>8 DEF Check
  <1>9. CASE Settle
    BY <1>9 DEF Settle, Retriable
  <1>10. CASE Act
    BY <1>10, CallsCome, NumbersAssumption
  <1>11. CASE Speak
    BY <1>11, WordsCome
  <1>12. CASE Answer
    <2>1. (\E place : Tell(place)) \/ UNCHANGED <<diagVars, fileVars>>
      BY <1>12 DEF Answer, NothingToTell, TooLate
    <2>. QED
      BY <1>0, <2>1
  <1>13. CASE ReadAhead
    BY <1>13 DEF ReadAhead
  <1>14. CASE ReadsJoin
    BY <1>14 DEF ReadsJoin
  <1>15. CASE RunTool
    BY <1>15 DEF RunTool, Edit
  <1>16. CASE Consume
    <2>1. UNCHANGED fileVars /\ (UNCHANGED diagVars \/ Enqueue(edited))
      BY <1>16, ResultComes
    <2>2. UNCHANGED diagVars
          \/ /\ edited \in Files /\ queue' = Append(queue, edited)
             /\ results' = [results EXCEPT ![edited] = None] /\ worker' = [worker EXCEPT !.on = TRUE]
      BY <2>1 DEF Enqueue, TypeOK
    <2>3. \A f \in Files : /\ Append(queue, f) \in Seq(Files)
                          /\ [results EXCEPT ![f] = None] \in [Files -> {None, "errors", "old_errors"}]
      OBVIOUS
    <2>4. [worker EXCEPT !.on = TRUE]
              \in [on : BOOLEAN, file : Files \cup {None}, saw : Finds \cup {None}]
      OBVIOUS
    <2>5. queue' \in Seq(Files) /\ results' \in [Files -> {None, "errors", "old_errors"}]
      BY <2>2, <2>3 DEF diagVars
    <2>6. worker' \in [on : BOOLEAN, file : Files \cup {None}, saw : Finds \cup {None}]
      BY <2>2, <2>4 DEF diagVars
    <2>. QED
      BY <2>1, <2>5, <2>6
  <1>17. CASE After
    BY <1>17 DEF After
  <1>18. CASE Ceiling
    BY <1>18 DEF Ceiling
  <1>19. CASE LastDrain
    <2>1. (\E place : Tell(place)) \/ UNCHANGED <<diagVars, fileVars>>
      BY <1>19 DEF LastDrain, NothingToTell, TooLate
    <2>. QED
      BY <1>0, <2>1
  <1>20. CASE LastAnswer
    BY <1>20 DEF LastAnswer
  <1>21. CASE Reads
    BY <1>21 DEF Reads, Read, StartRead, AskRead, EndRead
  <1>22. CASE Diagnose
    <2>1. CASE Take
      <3>1. UNCHANGED <<results, broken, told>>
        BY <2>1 DEF Take
      <3>2. \/ worker' = Idle /\ UNCHANGED queue
            \/ queue # <<>> /\ worker' = [worker EXCEPT !.file = Head(queue)] /\ queue' = Tail(queue)
        BY <2>1 DEF Take
      <3>3. queue # <<>> => Head(queue) \in Files /\ Tail(queue) \in Seq(Files)
        OBVIOUS
      <3>4. /\ Idle \in [on : BOOLEAN, file : Files \cup {None}, saw : Finds \cup {None}]
            /\ \A f \in Files : [worker EXCEPT !.file = f]
                    \in [on : BOOLEAN, file : Files \cup {None}, saw : Finds \cup {None}]
        OBVIOUS
      <3>. QED
        BY <3>1, <3>2, <3>3, <3>4
    <2>2. CASE Look
      BY <2>2 DEF Look
    <2>3. CASE Report
      BY <2>3 DEF Report
    <2>. QED
      BY <1>22, <2>1, <2>2, <2>3 DEF Diagnose
  <1>23. CASE Cancel
    BY <1>23 DEF Cancel
  <1>24. CASE UNCHANGED vars
    BY <1>24 DEF vars
  <1>. QED
    BY <1>1, <1>2, <1>3, <1>4, <1>5, <1>6, <1>7, <1>8, <1>9, <1>10, <1>11, <1>12, <1>13, <1>14, <1>15, <1>16, <1>17, <1>18, <1>19, <1>20, <1>21, <1>22, <1>23, <1>24, Zenon DEF Next, Run

\* What a queue holds when a file has come or gone.
LEMMA RangeAppend ==
    ASSUME NEW S, NEW s \in Seq(S), NEW e \in S
    PROVE  Range(Append(s, e)) = Range(s) \cup {e}
  <1>. DEFINE t == Append(s, e)
  <1>1. /\ DOMAIN t = DOMAIN s \cup {Len(s) + 1} /\ t[Len(s) + 1] = e
        /\ \A i \in DOMAIN s : t[i] = s[i]
    OBVIOUS
  <1>. HIDE DEF t
  <1>2. \A i \in DOMAIN t : t[i] \in Range(s) \cup {e}
    BY <1>1, Zenon DEF Range
  <1>3. e \in Range(t) /\ \A i \in DOMAIN s : s[i] \in Range(t)
    BY <1>1, Zenon DEF Range
  <1>4. Range(t) = Range(s) \cup {e}
    BY <1>2, <1>3, Zenon DEF Range
  <1>. QED
    BY <1>4 DEF t

LEMMA RangeTail ==
    ASSUME NEW S, NEW s \in Seq(S), s # <<>>  PROVE Range(s) = {Head(s)} \cup Range(Tail(s))
  <1>1. Len(s) \in Nat \ {0} /\ Len(Tail(s)) = Len(s) - 1
    OBVIOUS
  <1>2. /\ DOMAIN s = 1 .. Len(s) /\ DOMAIN Tail(s) = 1 .. Len(s) - 1 /\ Head(s) = s[1]
        /\ \A i \in 1 .. Len(s) - 1 : Tail(s)[i] = s[i + 1]
    BY <1>1
  <1>3. ASSUME NEW i \in DOMAIN s  PROVE s[i] \in {Head(s)} \cup Range(Tail(s))
    <2>1. CASE i = 1
      BY <1>2, <2>1
    <2>2. CASE i # 1
      <3>1. i - 1 \in DOMAIN Tail(s) /\ (i - 1) + 1 = i
        BY <1>1, <1>2, <2>2
      <3>2. Tail(s)[i - 1] = s[i]
        BY <1>2, <3>1
      <3>. QED
        BY <3>1, <3>2, Zenon DEF Range
    <2>. QED
      BY <2>1, <2>2
  <1>4. ASSUME NEW i \in DOMAIN Tail(s)  PROVE Tail(s)[i] \in Range(s)
    <2>1. i + 1 \in DOMAIN s /\ Tail(s)[i] = s[i + 1]
      BY <1>1, <1>2
    <2>. QED
      BY <2>1, Zenon DEF Range
  <1>5. Head(s) \in Range(s)
    <2>1. 1 \in DOMAIN s
      BY <1>1, <1>2
    <2>. QED
      BY <1>2, <2>1, Zenon DEF Range
  <1>. QED
    BY <1>3, <1>4, <1>5, Zenon DEF Range

\* Nothing changes that the checks depend on.
LEMMA Aside ==
    ASSUME DiagInv, UNCHANGED <<edited, broken, told, queue, worker, results, late>>,
           cancelled => cancelled', pc = "done" => pc' = "done",
           purpose' = "last" \/ outcome' = "answered" => purpose = "last" \/ outcome = "answered"
    PROVE  DiagInv'
BY DEF DiagInv, Outdated

\* The model is told of all errors there are.
LEMMA ToldAll ==
    ASSUME TypeOK, DiagInv, pc # "done", edited = None, ~ cancelled, NEW place, Tell(place)
    PROVE  broken \subseteq told' /\ queue = <<>> /\ worker = Idle
  <1>1. queue = <<>> /\ worker = Idle
    BY DEF Tell, Quiet, DiagInv
  <1>2. Range(queue) = {} /\ worker.file = None /\ None \notin Files /\ broken \subseteq Files
    BY <1>1, NoneAssumption DEF Idle, Range, TypeOK
  <1>3. told' = told \cup {f \in Found : results[f] = "errors"}
    BY DEF Tell
  <1>4. \A f \in broken : f \in told \/ results[f] = "errors"
    BY <1>2 DEF DiagInv
  <1>5. \A f \in broken : results[f] = "errors" => f \in Found
    BY <1>2, NoneAssumption DEF Found
  <1>. QED
    BY <1>1, <1>3, <1>4, <1>5

LEMMA Telling ==
    ASSUME TypeOK, DiagInv, pc # "done", edited = None, UNCHANGED <<cancelled, edited>>,
           NEW place, Tell(place)
    PROVE  DiagInv'
  <1>1. /\ UNCHANGED <<queue, worker, broken, late>> /\ results' = [f \in Files |-> None]
        /\ ~ worker.on
    BY DEF Tell, Quiet
  <1>2. worker = Idle
    BY <1>1 DEF DiagInv
  <1>3. ~ cancelled' => broken' \subseteq told' /\ queue' = <<>>
    BY <1>1, ToldAll
  <1>4. broken' \subseteq Files /\ Range(<<>>) = {}
    BY <1>1 DEF TypeOK, Range
  <1>. QED
    BY <1>1, <1>2, <1>3, <1>4, NoneAssumption DEF DiagInv, Outdated, Idle

\* There is nothing to tell: it knows of them.
LEMMA KnowsAll ==
    ASSUME TypeOK, DiagInv, pc # "done", edited = None, UNCHANGED <<cancelled, edited>>, NothingToTell
    PROVE  DiagInv'
  <1>1. ~ cancelled => broken \subseteq told
    <2>1. ~ cancelled => queue = <<>> /\ worker = Idle
      BY DEF NothingToTell, Quiet, DiagInv
    <2>2. \A f \in Files : results[f] # "errors"
      BY NoneAssumption DEF NothingToTell, Found
    <2>3. Range(<<>>) = {} /\ broken \subseteq Files
      BY DEF Range, TypeOK
    <2>. QED
      BY <2>1, <2>2, <2>3, NoneAssumption DEF DiagInv, Idle
  <1>2. UNCHANGED <<edited, broken, told, queue, worker, results, late, cancelled>>
    BY DEF NothingToTell, diagVars, fileVars
  <1>. QED
    BY <1>1, <1>2 DEF DiagInv, Outdated

\* A file has changed.
LEMMA Editing ==
    ASSUME TypeOK, DiagInv, pc # "done", purpose' # "last", outcome' # "answered",
           edited = None, UNCHANGED cancelled, NEW f \in Files, Edit(f)
    PROVE  DiagInv'
  <1>1. /\ edited' = f /\ UNCHANGED queue /\ told' = told \ {f}
        /\ \A g \in Files \ {f} : g \in broken' <=> g \in broken
        /\ broken' \subseteq Files /\ broken \subseteq Files
    BY DEF Edit, TypeOK
  <1>2. \A g \in Files \ {f} : results'[g] = results[g]
    BY DEF Edit, TypeOK
  <1>3. /\ worker'.on = worker.on /\ worker'.file = worker.file
        /\ worker.file # f => worker' = worker
        /\ worker'.saw = None <=> worker.saw = None
        /\ worker'.saw \in {"errors", "none"} => worker.file # f
    BY NoneAssumption DEF Edit, TypeOK, Finds
  <1>4. worker.file \in Files \cup {None}
    BY DEF TypeOK
  <1>5. ~ worker'.on => worker' = Idle
    BY <1>3, NoneAssumption DEF DiagInv, Idle
  <1>6. ASSUME ~ cancelled
        PROVE  /\ ~ worker'.on => queue' = <<>>
               /\ worker'.saw # None => worker'.file # None
               /\ worker'.saw = "errors" => worker'.file \in broken'
               /\ worker'.saw = "none" => worker'.file \notin broken'
    BY <1>1, <1>3, <1>4, <1>6, NoneAssumption DEF DiagInv
  <1>7. ASSUME ~ cancelled, NEW g \in Files
        PROVE  /\ Outdated(g)' => g = edited' \/ g \in Range(queue')
               /\ results'[g] = "old_errors" => g = edited' \/ g \in Range(queue') \/ g = worker'.file
               /\ g \in broken' =>
                     \/ g \in told' \/ g = edited' \/ g \in Range(queue')
                     \/ worker'.file = g /\ worker'.saw \in {None, "errors"}
                     \/ results'[g] = "errors"
    BY <1>1, <1>2, <1>3, <1>7, NoneAssumption DEF DiagInv, Outdated
  <1>. QED
    BY <1>5, <1>6, <1>7 DEF DiagInv

\* The file that has changed is going to be checked.
LEMMA Enqueueing ==
    ASSUME TypeOK, DiagInv, pc # "done", purpose' # "last", outcome' # "answered",
           UNCHANGED <<cancelled, broken, told>>, edited' = None, Enqueue(edited)
    PROVE  DiagInv'
  <1>1. CASE edited = None \/ edited \in Range(queue)
    BY <1>1, NoneAssumption DEF Enqueue, diagVars, DiagInv, Outdated
  <1>2. CASE edited \in Files /\ edited \notin Range(queue)
    <2>1. /\ queue' = Append(queue, edited) /\ Range(queue') = Range(queue) \cup {edited}
          /\ worker'.on /\ worker'.file = worker.file /\ worker'.saw = worker.saw
          /\ \A f \in Files \ {edited} : results'[f] = results[f]
      <3>1. edited # None
        BY <1>2, NoneAssumption
      <3>2. /\ queue' = Append(queue, edited) /\ results' = [results EXCEPT ![edited] = None]
            /\ worker' = [worker EXCEPT !.on = TRUE]
        BY <1>2, <3>1 DEF Enqueue
      <3>3. Range(queue') = Range(queue) \cup {edited}
        BY <1>2, <3>2, RangeAppend DEF TypeOK
      <3>. QED
        BY <3>2, <3>3 DEF TypeOK
    <2>. QED
      BY <1>2, <2>1 DEF DiagInv, Outdated
  <1>. QED
    BY <1>1, <1>2 DEF TypeOK

LEMMA Checking ==
    ASSUME TypeOK, DiagInv, Diagnose
    PROVE  DiagInv'
  <1>0. /\ UNCHANGED <<pc, purpose, outcome, edited, cancelled, late, broken, told>>
        /\ None \notin Files /\ None \notin Finds /\ "errors" # "none"
        /\ worker.saw \in Finds \cup {None} /\ worker.file \in Files \cup {None}
    BY NoneAssumption
       DEF Diagnose, Take, Look, Report, TypeOK, Finds, runVars, callVars, streamVars, batchVars
  <1>1. CASE Take
    <2>1. CASE queue = <<>> \/ cancelled
      BY <1>0, <1>1, <2>1 DEF Take, DiagInv, Outdated, Idle
    <2>2. CASE ~ (queue = <<>> \/ cancelled)
      <3>1. /\ worker'.on /\ worker'.file = Head(queue) /\ worker'.saw = worker.saw
            /\ worker.on /\ worker.file = None
            /\ queue' = Tail(queue) /\ UNCHANGED results
        BY <1>1, <2>2 DEF Take, TypeOK
      <3>2. Range(queue) = {worker'.file} \cup Range(queue')
        BY <2>2, <3>1, RangeTail DEF TypeOK
      <3>3. pc # "done" => worker.saw = None
        BY <2>2, <3>1 DEF DiagInv
      <3>4. ASSUME pc # "done", NEW f \in Files
            PROVE  /\ ~ Outdated(f)'
                   /\ results'[f] = "old_errors" =>
                         f = edited' \/ f \in Range(queue') \/ f = worker'.file
                   /\ f \in broken' =>
                         \/ f \in told' \/ f = edited' \/ f \in Range(queue')
                         \/ worker'.file = f /\ worker'.saw \in {None, "errors"}
                         \/ results'[f] = "errors"
        BY <1>0, <2>2, <3>1, <3>2, <3>3, <3>4, NoneAssumption DEF DiagInv, Outdated
      <3>5. pc # "done" => worker'.saw = None
        BY <3>1, <3>3
      <3>. QED
        BY <1>0, <2>2, <3>1, <3>4, <3>5, NoneAssumption DEF DiagInv
    <2>. QED
      BY <2>1, <2>2
  <1>2. CASE Look
    <2>1. /\ worker'.on = worker.on /\ worker'.file = worker.file /\ UNCHANGED <<queue, results>>
          /\ ~ cancelled => worker'.saw = IF worker.file \in broken THEN "errors" ELSE "none"
          /\ worker.file # None
      BY <1>2 DEF Look, TypeOK
    <2>2. worker.on
      BY <2>1 DEF DiagInv, Idle
    <2>. QED
      BY <1>0, <2>1, <2>2 DEF DiagInv, Outdated, Finds
  <1>3. CASE Report
    <2>1. /\ worker'.on = worker.on /\ worker'.file = None /\ worker'.saw = None /\ worker.saw # None
          /\ UNCHANGED queue
          /\ \A f \in Files : results'[f] = IF f # worker.file THEN results[f]
                                            ELSE IF worker.saw \in {"errors", "old_errors"}
                                            THEN worker.saw ELSE None
      BY <1>3 DEF Report, TypeOK
    <2>2. worker.on
      BY <2>1 DEF DiagInv, Idle
    <2>. QED
      BY <1>0, <2>1, <2>2 DEF DiagInv, Outdated, Finds
  <1>. QED
    BY <1>1, <1>2, <1>3 DEF Diagnose

\* The wait is over, and nothing is claimed any more.
LEMMA TooLateTold ==
    ASSUME DiagInv, pc # "done", edited = None, UNCHANGED <<cancelled, edited>>, TooLate(TRUE)
    PROVE  DiagInv'
  <1>1. UNCHANGED <<edited, broken, told, queue, worker, results, cancelled>> /\ late'
    BY DEF TooLate, diagVars, fileVars
  <1>. QED
    BY <1>1 DEF DiagInv, Outdated

LEMMA NextDiag ==
    ASSUME TypeOK, PlaceInv, DiagInv, [Next]_vars
    PROVE  DiagInv'
  <1>. USE DEF PlaceInv, Requesting, Goto, Say, Return,
               runVars, streamVars, callVars, guardVars, batchVars, fileVars, diagVars
  <1>1. CASE Turn
    BY <1>1, Aside DEF Turn
  <1>2. CASE Drain
    <2>1. /\ pc # "done" /\ edited = None /\ UNCHANGED <<cancelled, edited>>
      BY <1>2 DEF Drain
    <2>2. CASE \E place : Tell(place)
      BY <2>1, <2>2, Telling
    <2>3. CASE NothingToTell
      BY <2>1, <2>3, KnowsAll
    <2>4. CASE TooLate(FALSE)
      <3>1. UNCHANGED <<purpose, outcome>>
        BY <1>2, <2>4 DEF Drain, TooLate, Tell, Quiet
      <3>2. UNCHANGED <<edited, broken, told, queue, worker, results, late>>
        BY <2>1, <2>4 DEF TooLate, TypeOK
      <3>. QED
        BY <2>1, <3>1, <3>2, Aside
    <2>. QED
      BY <1>2, <2>2, <2>3, <2>4 DEF Drain
  <1>3. CASE Compact
    BY <1>3, Aside DEF Compact
  <1>4. CASE Connect
    BY <1>4, NoStreamComes, Aside DEF Connect
  <1>5. CASE Backoff
    BY <1>5, NoStreamComes, Aside DEF Backoff
  <1>6. CASE Collect
    BY <1>6, StreamComes, Aside
  <1>7. CASE Recover
    BY <1>7, Aside DEF Recover
  <1>8. CASE Check
    BY <1>8, Aside DEF Check
  <1>9. CASE Settle
    BY <1>9, Aside DEF Settle, Retriable
  <1>10. CASE Act
    BY <1>10, CallsCome, Aside DEF NoStream
  <1>11. CASE Speak
    BY <1>11, WordsCome, Aside DEF NoStream
  <1>12. CASE Answer
    <2>1. /\ pc # "done" /\ edited = None /\ UNCHANGED <<cancelled, edited>>
      BY <1>12 DEF Answer
    <2>2. CASE \E place : Tell(place)
      BY <2>1, <2>2, Telling
    <2>3. CASE NothingToTell
      BY <2>1, <2>3, KnowsAll
    <2>4. CASE TooLate(TRUE)
      BY <2>1, <2>4, TooLateTold
    <2>. QED
      BY <1>12, <2>2, <2>3, <2>4 DEF Answer
  <1>13. CASE ReadAhead
    BY <1>13, Aside DEF ReadAhead
  <1>14. CASE ReadsJoin
    BY <1>14, Aside DEF ReadsJoin
  <1>15. CASE RunTool
    <2>1. /\ pc = "batch" /\ pc' = "consume" /\ UNCHANGED <<purpose, outcome, cancelled, late>>
          /\ edited = None
      BY <1>15 DEF RunTool
    <2>2. purpose' # "last" /\ outcome' # "answered"
      BY <2>1
    <2>3. (\E f \in Files : Edit(f)) \/ UNCHANGED <<edited, fileVars, diagVars>>
      BY <1>15 DEF RunTool
    <2>. QED
      BY <2>1, <2>2, <2>3, Editing, Aside
  <1>16. CASE Consume
    <2>1. /\ pc = "consume" /\ edited' = None
          /\ UNCHANGED <<purpose, cancelled, late, broken, told>> /\ purpose # "last"
      BY <1>16, ResultComes
    <2>2. CASE pc' = "done" /\ outcome' \in {"error", "stopped"} /\ UNCHANGED diagVars
      BY <2>1, <2>2 DEF DiagInv
    <2>3. CASE UNCHANGED outcome /\ Enqueue(edited)
      BY <2>1, <2>3, Enqueueing
    <2>. QED
      BY <1>16, <2>2, <2>3, ResultComes
  <1>17. CASE After
    BY <1>17, Aside DEF After
  <1>18. CASE Ceiling
    BY <1>18, Aside DEF Ceiling
  <1>19. CASE LastDrain
    <2>1. /\ pc # "done" /\ edited = None /\ UNCHANGED <<cancelled, edited>>
      BY <1>19 DEF LastDrain
    <2>2. CASE \E place : Tell(place)
      BY <2>1, <2>2, Telling
    <2>3. CASE NothingToTell
      BY <2>1, <2>3, KnowsAll
    <2>4. CASE TooLate(TRUE)
      BY <2>1, <2>4, TooLateTold
    <2>. QED
      BY <1>19, <2>2, <2>3, <2>4 DEF LastDrain
  <1>20. CASE LastAnswer
    BY <1>20, Aside DEF LastAnswer
  <1>21. CASE Reads
    BY <1>21, Aside DEF Reads, Read, StartRead, AskRead, EndRead
  <1>22. CASE Diagnose
    BY <1>22, Checking
  <1>23. CASE Cancel
    BY <1>23, Aside DEF Cancel
  <1>24. CASE UNCHANGED vars
    BY <1>24, Aside DEF vars
  <1>. QED
    BY <1>1, <1>2, <1>3, <1>4, <1>5, <1>6, <1>7, <1>8, <1>9, <1>10, <1>11, <1>12, <1>13, <1>14, <1>15, <1>16, <1>17, <1>18, <1>19, <1>20, <1>21, <1>22, <1>23, <1>24, Zenon DEF Next, Run

LEMMA InitAgentInv == Init => AgentInv
  <1>. SUFFICES ASSUME Init  PROVE AgentInv
    OBVIOUS
  <1>1. TypeOK
    <2>1. FlowOK /\ RequestOK /\ GuardOK
      <3>1. FlowOK
        <4>1. pc = "turn" /\ turn = 0 /\ outcome = "none" /\ cancelled \in BOOLEAN /\ late \in BOOLEAN
          BY Zenon DEF Init
        <4>. QED
          BY <4>1, NumbersAssumption DEF FlowOK
      <3>2. RequestOK
        <4>1. /\ purpose = "first" /\ tries = 0 /\ stalls = 0 /\ got = Nothing
              /\ shown = 0 /\ reacted \in BOOLEAN /\ over \in BOOLEAN
          BY Zenon DEF Init
        <4>. QED
          BY <4>1, NumbersAssumption DEF RequestOK, Nothing, Errors, Replies
      <3>3. GuardOK
        <4>1. headless \in BOOLEAN /\ empty = 0 /\ nudges = 0 /\ streak = [k \in Kinds |-> 0]
          BY Zenon DEF Init
        <4>2. accepted \in BOOLEAN
          BY Zenon DEF Init
        <4>. QED
          BY <4>1, <4>2, NumbersAssumption DEF GuardOK
      <3>. QED
        BY <3>1, <3>2, <3>3
    <2>2. BatchOK /\ DiagOK
      BY DEF Init, BatchOK, DiagOK, Idle, Finds
    <2>3. messages \in Seq(Message)
      BY MessageTypes DEF Init
    <2>. QED
      BY <2>1, <2>2, <2>3, TypeParts
  <1>2. PlaceInv /\ ShownInv
    BY DEF Init, PlaceInv, ShownInv, Requesting
  <1>3. GuardInv
    BY NumbersAssumption DEF Init, GuardInv
  <1>4. BatchInv
    BY DEF Init, BatchInv
  <1>5. HistoryInv
    BY MessageTypes DEF Init, HistoryInv, Opened, Paired, System, User
  <1>6. DiagInv
    BY NoneAssumption DEF Init, DiagInv, Idle, Outdated
  <1>. QED
    BY <1>1, <1>2, <1>3, <1>4, <1>5, <1>6 DEF AgentInv

\* Every part of the invariant holds of every state, and with it the types.
THEOREM AgentInvariant == Spec => []AgentInv
  <1>1. ASSUME AgentInv, [Next]_vars  PROVE AgentInv'
    <2>. USE <1>1 DEF AgentInv
    <2>1. PlaceInv' /\ ShownInv' /\ BatchInv'
      BY NextPlace, NextShown, NextBatch
    <2>2. HistoryInv' /\ GuardInv' /\ DiagInv'
      BY <2>1, NextHistory, NextGuard, NextDiag
    <2>3. FlowOK' /\ RequestOK' /\ GuardOK' /\ BatchOK' /\ DiagOK'
      BY TypeParts, NextFlow, NextRequest, NextGuards, NextCalls, NextChecks
    <2>4. TypeOK'
      BY <2>2, <2>3, TypeParts DEF HistoryInv, Opened
    <2>. QED
      BY <2>1, <2>2, <2>4
  <1>. QED
    BY <1>1, InitAgentInv, PTL DEF Spec

\* Every variable keeps to its values: a turn makes only so many requests and
\* nudges, and the guards count no further than their limits.
THEOREM TypeCorrect == Spec => []TypeOK
  <1>1. AgentInv => TypeOK
    BY DEF AgentInv
  <1>. QED
    BY <1>1, AgentInvariant, PTL

\* No turn shows the text of two streams, whichever retries it took: text goes
\* to the surface of a stream that is asked for while nothing is shown.
THEOREM ShownOnce == Spec => []TextOnce
  <1>1. AgentInv => TextOnce
    BY DEF AgentInv, ShownInv, TextOnce
  <1>. QED
    BY <1>1, AgentInvariant, PTL

\* Reading ahead gives the results of running the calls in order.
THEOREM InOrder == Spec => []RunsInOrder
  <1>1. ASSUME TypeOK, BatchInv  PROVE RunsInOrder
    <2>. SUFFICES ASSUME NEW j \in DOMAIN calls, phase[j] \in {"run", "ask", "done"},
                         NEW k \in 1 .. j - 1, "write" \in {calls[j], calls[k]}
                  PROVE  phase[k] = "done"
      BY DEF RunsInOrder
    <2>1. k \in DOMAIN calls /\ k < j /\ j \in Nat /\ k \in Nat /\ next \in Nat /\ ahead \in Nat
      BY <1>1, BatchesAssumption DEF TypeOK
    <2>2. CASE k < next
      BY <1>1, <2>1, <2>2 DEF BatchInv
    <2>3. CASE next <= k
      <3>1. j < ahead
        BY <1>1, <2>1, <2>3 DEF BatchInv
      <3>2. calls[j] = "read" /\ calls[k] = "read"
        BY <1>1, <2>1, <2>3, <3>1 DEF BatchInv
      <3>. QED
        BY <3>2
    <2>. QED
      BY <2>1, <2>2, <2>3
  <1>2. AgentInv => RunsInOrder
    BY <1>1 DEF AgentInv
  <1>. QED
    BY <1>2, AgentInvariant, PTL

\* Whatever was compacted, halted or interrupted, the history of a request and
\* the one a run leaves answer each advertised call once and at once.
THEOREM HistoriesPaired == Spec => []HistoryPaired
  <1>1. AgentInv => HistoryPaired
    BY DEF AgentInv, HistoryInv, HistoryPaired
  <1>. QED
    BY <1>1, AgentInvariant, PTL

\* What the model is told of a file is true of the file as it is, and a run
\* that was not cancelled takes no answer before the model knows of the errors
\* in what it edited, unless the last wait was too short.
THEOREM ErrorsAreTold == Spec => []ErrorsReachModel
  <1>1. ASSUME TypeOK, PlaceInv, DiagInv  PROVE ErrorsReachModel
    <2>1. ASSUME ~ cancelled, pc \in {"drain", "answer", "last_drain"}, Quiet, NEW f \in Found
          PROVE  results[f] = "errors"
      <3>1. worker.file = None /\ queue = <<>> /\ edited = None /\ f \in Files
        BY <1>1, <2>1 DEF DiagInv, Quiet, Idle, PlaceInv, Found
      <3>2. Range(queue) = {} /\ f # None
        BY <3>1, NoneAssumption DEF Range
      <3>3. results[f] # "old_errors"
        BY <1>1, <2>1, <3>1, <3>2 DEF DiagInv
      <3>. QED
        BY <1>1, <3>1, <3>3 DEF TypeOK, Found
    <2>2. ~ cancelled /\ outcome = "answered" /\ ~ late => broken \subseteq told
      BY <1>1 DEF DiagInv
    <2>. QED
      BY <2>1, <2>2 DEF ErrorsReachModel
  <1>2. AgentInv => ErrorsReachModel
    BY <1>1 DEF AgentInv
  <1>. QED
    BY <1>2, AgentInvariant, PTL
=============================================================================
