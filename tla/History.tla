------------------------------- MODULE History -------------------------------
(***************************************************************************)
(* The history of an agent run (internal/agent): the messages sent with    *)
(* every request, what a provider demands of them, and their compaction    *)
(* (compaction.go).  A message is its role and, for an assistant's, the    *)
(* number of tool calls it advertises, for a tool's, which one it answers. *)
(***************************************************************************)
EXTENDS Naturals, Sequences, FiniteSets, FiniteSetsExt, Functions

System == [role |-> "system", n |-> 0]
User == [role |-> "user", n |-> 0]
Assistant(calls) == [role |-> "assistant", n |-> calls]
Tool(call) == [role |-> "tool", n |-> call]

\* Every call that was advertised is answered, once, in order and at once, and
\* nothing else is.
Paired(ms) ==
    \A p \in DOMAIN ms :
        /\ ms[p].role = "assistant" =>
               \A i \in 1 .. ms[p].n : p + i <= Len(ms) /\ ms[p + i] = Tool(i)
        /\ ms[p].role = "tool" =>
               /\ p > ms[p].n
               /\ ms[p - ms[p].n].role = "assistant" /\ ms[p - ms[p].n].n >= ms[p].n

\* Results for the calls of a turn that are not going to run.
AppendAborted(ms, from, to) == ms \o [i \in 1 .. to + 1 - from |-> Tool(from + i - 1)]

\* Mutant: the suffix has the length that was asked for.
SuffixExact(ms, keep) == 1 + Max({1, Len(ms) - keep})

\* Where what is kept begins: not later than asked for, and with an
\* assistant's message.
SuffixStart(ms, keep) ==
    Max({2} \cup {p \in 3 .. 1 + Max({1, Len(ms) - keep}) : ms[p].role = "assistant"})

Elided(ms, keep) == SuffixStart(ms, keep) > 2

\* One summary takes the place of what is not.
Compacted(ms, keep) ==
    IF Elided(ms, keep) THEN <<System, User>> \o SubSeq(ms, SuffixStart(ms, keep), Len(ms)) ELSE ms
=============================================================================
