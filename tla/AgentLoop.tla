------------------------------ MODULE AgentLoop ------------------------------
(***************************************************************************)
(* internal/agent: one run of the agent, loop.go's Run with its reconnects *)
(* (reconnect.go), compaction, tool batches (parallel_tools.go), guards    *)
(* (guardrails.go) and background diagnostics (async_diagnostics.go).      *)
(*                                                                         *)
(* A tool call is a read, which may run beside its neighbours, or a write. *)
(* What depends on text and its length is a choice: whether a history is   *)
(* too long, whether its summary is shorter, which reminders are due.      *)
(***************************************************************************)
EXTENDS History

CONSTANTS
    Files,          \* files that tools write
    None,           \* no file, no result
    Batches,        \* sequences of calls a reply may make
    MaxTurns, PreserveLast,
    MaxReconnects, MaxStallRetries, MaxEmptyTurns, FailureStopAt, MaxNudges, MaxParallel,
    MaxNotes        \* bound: reminders after a batch

ASSUME BatchesAssumption == Batches \subseteq Seq({"read", "write"}) /\ <<>> \notin Batches
ASSUME NumbersAssumption ==
    /\ {MaxTurns, PreserveLast, MaxEmptyTurns, FailureStopAt, MaxParallel} \subseteq Nat \ {0}
    /\ {MaxReconnects, MaxStallRetries, MaxNudges, MaxNotes} \subseteq Nat
ASSUME NoneAssumption == None \notin Files \cup {"errors", "none", "old_errors", "old_none"}

VARIABLES
    pc, turn,
    messages,
    outcome,    \* how the run has ended
    purpose,    \* what the request is for
    tries,      \* reconnects of this request
    stalls,     \* retries of this turn's stalled stream
    got,        \* what the stream has brought
    shown,      \* streams of this turn whose text went to the surface
    reacted,    \* reactiveAttempted
    headless,   \* RequireCompletionSignal
    empty, nudges, streak,      \* the guards
    accepted,   \* acceptance was demanded, or self-correction is off
    over,       \* the budget is exceeded
    calls, next,    \* the turn's calls, the one to handle
    ahead,          \* the first call that is not read ahead
    phase, res,     \* where each call is, and its result
    edited,         \* the file the call to handle has changed
    cancelled,
    broken, told,   \* files with errors, and those the model knows of
    queue, worker, results,                 \* the diagnostics
    late        \* history: the last wait for them was too short

runVars == <<messages, outcome>>
streamVars == <<purpose, tries, stalls, got, shown>>
callVars == <<streamVars, reacted, over>>
guardVars == <<headless, empty, nudges, accepted, streak>>
batchVars == <<calls, next, ahead, phase, res, edited>>
fileVars == <<broken, told>>
diagVars == <<queue, worker, results>>
vars == <<pc, turn, runVars, callVars, guardVars, batchVars, cancelled, fileVars, diagVars, late>>

Kinds == {"read", "write"}
Errors == {"timeout", "limit", "other"}
Replies == {"empty", "thought", "dropped", "text", "admits", "cue", "calls"}
Nothing == [error |-> "none", kind |-> "empty", text |-> FALSE]
NoStream == /\ purpose' = "first" /\ tries' = 0 /\ stalls' = 0 /\ got' = Nothing /\ shown' = 0
Idle == [on |-> FALSE, file |-> None, saw |-> None]
Finds == {"errors", "none", "old_errors", "old_none"}

TypeOK ==
    /\ pc \in {"turn", "drain", "compact", "connect", "backoff", "collect", "recover_call",
               "recover_stream", "recover_stall", "check", "settle", "reply", "answer", "batch",
               "reads", "consume", "after", "ceiling", "last_drain", "done"}
    /\ turn \in 0 .. MaxTurns
    /\ messages \in Seq([role : {"system", "user", "assistant", "tool"}, n : Nat])
    /\ outcome \in {"none", "answered", "incomplete", "stopped", "error", "ceiling"}
    /\ purpose \in {"first", "again", "reissue", "stall", "reissue_stall", "last"}
    /\ tries \in 0 .. MaxReconnects /\ stalls \in 0 .. MaxStallRetries
    /\ got \in [error : Errors \cup {"none"}, kind : Replies, text : BOOLEAN]
    /\ shown \in Nat /\ reacted \in BOOLEAN /\ over \in BOOLEAN
    /\ headless \in BOOLEAN /\ accepted \in BOOLEAN
    /\ empty \in 0 .. MaxEmptyTurns /\ nudges \in 0 .. MaxNudges
    /\ streak \in [Kinds -> 0 .. FailureStopAt]
    /\ calls \in Batches \cup {<<>>} /\ next \in Nat /\ ahead \in Nat
    /\ phase \in [DOMAIN calls -> {"no", "wait", "run", "ask", "done"}]
    /\ res \in [DOMAIN calls -> {None, "ok", "failed", "denied", "abort", "spec"}]
    /\ edited \in Files \cup {None}
    /\ cancelled \in BOOLEAN /\ late \in BOOLEAN
    /\ broken \subseteq Files /\ told \subseteq Files
    /\ queue \in Seq(Files)
    /\ worker \in [on : BOOLEAN, file : Files \cup {None}, saw : Finds \cup {None}]
    /\ results \in [Files -> {None, "errors", "old_errors"}]

Init ==
    /\ pc = "turn" /\ turn = 0
    /\ messages = <<System, User>> /\ outcome = "none"
    /\ purpose = "first" /\ tries = 0 /\ stalls = 0 /\ got = Nothing
    /\ shown = 0 /\ reacted = FALSE /\ over = FALSE
    /\ headless \in BOOLEAN /\ accepted \in IF headless THEN BOOLEAN ELSE {FALSE}
    /\ empty = 0 /\ nudges = 0 /\ streak = [k \in Kinds |-> 0]
    /\ calls = <<>> /\ next = 1 /\ ahead = 1 /\ phase = <<>> /\ res = <<>> /\ edited = None
    /\ cancelled = FALSE /\ late = FALSE
    /\ broken = {} /\ told = {}
    /\ queue = <<>> /\ worker = Idle /\ results = [f \in Files |-> None]

Return(how, ms) == pc' = "done" /\ outcome' = how /\ messages' = ms
Goto(place) == pc' = place /\ UNCHANGED runVars
Say(place, ms) == pc' = place /\ messages' = ms /\ UNCHANGED outcome

-----------------------------------------------------------------------------
(* The top of a turn.                                                        *)

Turn ==
    /\ pc = "turn"
    /\ IF turn = MaxTurns THEN Goto("ceiling") /\ UNCHANGED turn
       ELSE turn' = turn + 1 /\ Goto(IF over THEN "ceiling" ELSE "drain")
    /\ UNCHANGED <<callVars, guardVars, batchVars, cancelled, fileVars, diagVars, late>>

\* A history near the window is pruned, which changes no message's role, and
\* may be summarised, unless the summariser fails or saves nothing.
Compact ==
    /\ pc = "compact"
    /\ Say("connect", messages) \/ Say("connect", Compacted(messages, PreserveLast))
    /\ UNCHANGED <<turn, callVars, guardVars, batchVars, cancelled, fileVars, diagVars, late>>

-----------------------------------------------------------------------------
(* A request: streamWithReconnect, CollectStreamWithOptions and recover.     *)

\* What becomes of a request that brought no stream.
ConnectFails(error) ==
    CASE purpose = "last" -> Return("ceiling", messages) /\ UNCHANGED got
      [] purpose = "first" -> Goto("recover_call") /\ got' = [Nothing EXCEPT !.error = error]
      [] OTHER -> Return("error", messages) /\ UNCHANGED got

\* Mutant: the attempts are not counted.
Uncounted(n) == n

Counted(n) == n + 1

\* Only a lost connection is tried again.
Connect ==
    /\ pc = "connect"
    /\ \/ Goto("collect") /\ UNCHANGED <<tries, got>>
       \/ \E error \in {"limit", "other"} : ConnectFails(error) /\ UNCHANGED tries
       \/ tries < MaxReconnects /\ ~ cancelled
          /\ Goto("backoff") /\ tries' = Counted(tries) /\ UNCHANGED got
    /\ UNCHANGED <<turn, purpose, stalls, shown, reacted, over, guardVars, batchVars, cancelled,
                   fileVars, diagVars, late>>

Backoff ==
    /\ pc = "backoff"
    /\ \/ Goto("connect") /\ UNCHANGED got
       \/ cancelled /\ ConnectFails("other")
    /\ UNCHANGED <<turn, purpose, tries, stalls, shown, reacted, over, guardVars, batchVars,
                   cancelled, fileVars, diagVars, late>>

Stream ==
    [error : Errors, kind : {"empty"}, text : BOOLEAN]
    \cup [error : {"none"}, kind : {"text", "admits", "cue"}, text : {TRUE}]
    \cup [error : {"none"}, kind : {"empty", "thought"}, text : {FALSE}]
    \cup [error : {"none"}, kind : {"dropped", "calls"}, text : BOOLEAN]

\* Whose text is passed on while it comes.
Forwarded == {"first", "again", "stall"}

Collect ==
    /\ pc = "collect" /\ purpose # "last"
    /\ \E s \in Stream :
        /\ got' = s
        /\ shown' = IF s.text /\ purpose \in Forwarded THEN shown + 1 ELSE shown
        /\ CASE purpose \in {"first", "again"} ->
                    Goto(IF s.error = "none" THEN "check" ELSE "recover_stream")
             [] purpose = "reissue" -> Goto("check")
             [] purpose = "stall" -> Goto("settle")
             [] purpose = "reissue_stall" ->
                    IF s.error = "none" THEN Goto("reply") ELSE Return("error", messages)
    /\ over' \in {over, TRUE}
    /\ UNCHANGED <<turn, purpose, tries, stalls, reacted, guardVars, batchVars, cancelled, fileVars,
                   diagVars, late>>

\* A history that proved too long is compacted, once in a run, and the request
\* made again; nothing is spent if nothing would be saved.
Recover ==
    /\ pc \in {"recover_call", "recover_stream", "recover_stall"}
    /\ \/ /\ got.error = "limit" /\ ~ reacted /\ Elided(messages, PreserveLast)
          /\ reacted' = TRUE
          /\ \/ /\ Say("connect", Compacted(messages, PreserveLast)) /\ tries' = 0
                /\ purpose' = CASE pc = "recover_call" -> "again"
                                [] pc = "recover_stream" -> "reissue"
                                [] pc = "recover_stall" -> "reissue_stall"
             \/ Return("error", messages) /\ UNCHANGED <<purpose, tries>>
       \/ /\ IF pc = "recover_stream" THEN Goto("check") ELSE Return("error", messages)
          /\ UNCHANGED <<reacted, purpose, tries>>
    /\ UNCHANGED <<turn, stalls, got, shown, over, guardVars, batchVars, cancelled, fileVars,
                   diagVars, late>>

Check ==
    /\ pc = "check"
    /\ IF cancelled THEN Return("error", messages) ELSE Goto("settle")
    /\ UNCHANGED <<turn, callVars, guardVars, batchVars, cancelled, fileVars, diagVars, late>>

\* Mutant: what went to the surface is forgotten.
Stalled(s) == s.error = "timeout" /\ ~ s.text

\* Nothing of the answer is out.
Retriable(s) == s.error = "timeout" /\ ~ s.text /\ shown = 0

\* A stalled stream is asked for again; another error ends the run, or is
\* recovered from.
Settle ==
    /\ pc = "settle"
    /\ IF Retriable(got) /\ stalls < MaxStallRetries
       THEN \/ /\ Goto("connect") /\ purpose' = "stall" /\ tries' = 0 /\ stalls' = stalls + 1
            \/ cancelled /\ Return("error", messages) /\ UNCHANGED <<purpose, tries, stalls>>
       ELSE /\ Goto(IF got.error = "none" THEN "reply" ELSE "recover_stall")
            /\ UNCHANGED <<purpose, tries, stalls>>
    /\ UNCHANGED <<turn, got, shown, reacted, over, guardVars, batchVars, cancelled, fileVars,
                   diagVars, late>>

-----------------------------------------------------------------------------
(* A reply, and the guards over those that call no tool.                     *)

Answered == Append(messages, Assistant(0))
Nudge == Say("turn", Append(Answered, User))

\* Its calls are going to run.
Act ==
    /\ pc = "reply" /\ got.kind = "calls"
    /\ \E batch \in Batches :
        /\ Say("batch", Append(messages, Assistant(Len(batch))))
        /\ calls' = batch /\ next' = 1 /\ ahead' = 1
        /\ phase' = [i \in DOMAIN batch |-> "no"] /\ res' = [i \in DOMAIN batch |-> None]
    /\ empty' = 0 /\ NoStream
    /\ UNCHANGED <<turn, reacted, over, headless, nudges, accepted, streak, edited, cancelled,
                   fileVars, diagVars, late>>

Dropped == got.kind = "dropped" /\ Nudge /\ UNCHANGED guardVars

\* Neither text nor a call; a thought does not count as nothing.
Silent ==
    /\ got.kind \in {"empty", "thought"}
    /\ empty' = IF got.kind = "empty" THEN empty + 1 ELSE 0
    /\ IF empty' >= MaxEmptyTurns THEN Return("stopped", Answered) ELSE Nudge
    /\ UNCHANGED <<headless, nudges, accepted, streak>>

\* Text, where it is taken for the answer.  With the gate it must admit no
\* failure, not stop in the middle or leave its plan open, and outlast one
\* demand for acceptance.
Text ==
    /\ got.kind \in {"text", "admits", "cue"}
    /\ empty' = 0 /\ UNCHANGED <<headless, streak>>
    /\ \E open \in BOOLEAN :
        CASE ~ headless -> Say("answer", Answered) /\ UNCHANGED <<nudges, accepted>>
          [] headless /\ got.kind = "admits" ->
                Return("incomplete", Answered) /\ UNCHANGED <<nudges, accepted>>
          [] headless /\ got.kind # "admits" /\ (got.kind = "cue" \/ open) /\ nudges < MaxNudges ->
                Nudge /\ nudges' = nudges + 1 /\ UNCHANGED accepted
          [] headless /\ got.kind = "cue" /\ nudges = MaxNudges ->
                Return("incomplete", Answered) /\ UNCHANGED <<nudges, accepted>>
          [] OTHER ->
                /\ IF accepted THEN Say("answer", Answered) ELSE Nudge
                /\ accepted' = TRUE /\ UNCHANGED nudges

Speak ==
    /\ pc = "reply" /\ got.kind # "calls"
    /\ Dropped \/ Silent \/ Text
    /\ NoStream
    /\ UNCHANGED <<turn, reacted, over, batchVars, cancelled, fileVars, diagVars, late>>

-----------------------------------------------------------------------------
(* A turn's tool calls.                                                      *)

\* Mutant: a batch passes over writes.
RunEndAnywhere(i) == Len(calls) + 1

\* The reads that begin at i and may run together end before the next write.
RunEnd(i) == Min({Len(calls) + 1} \cup {j \in i .. Len(calls) : calls[j] = "write"})

ReadAhead ==
    /\ pc = "batch" /\ next >= ahead /\ RunEnd(next) >= next + 2
    /\ Goto("reads")
    /\ ahead' = RunEnd(next)
    /\ phase' = [i \in DOMAIN calls |-> IF i \in next .. RunEnd(next) - 1 THEN "wait" ELSE phase[i]]
    /\ UNCHANGED <<turn, callVars, guardVars, calls, next, res, edited, cancelled, fileVars,
                   diagVars, late>>

In(state) == {i \in DOMAIN calls : phase[i] = state}

StartRead(i) ==
    /\ phase[i] = "wait" /\ Cardinality(In("run") \cup In("ask")) < MaxParallel
    /\ phase' = [phase EXCEPT ![i] = "run"] /\ UNCHANGED res

\* A permission is asked for, of one call at a time.
AskRead(i) ==
    /\ phase[i] = "run" /\ In("ask") = {}
    /\ phase' = [phase EXCEPT ![i] = "ask"] /\ UNCHANGED res

EndRead(i) ==
    /\ \/ phase[i] = "run" /\ \E r \in {"ok", "failed"} : res' = [res EXCEPT ![i] = r]
       \/ phase[i] = "ask" /\ \E r \in {"ok", "failed", "denied", "abort"} :
                                  res' = [res EXCEPT ![i] = r]
    /\ phase' = [phase EXCEPT ![i] = "done"]

Read(i) ==
    /\ pc = "reads" /\ i \in DOMAIN calls
    /\ StartRead(i) \/ AskRead(i) \/ EndRead(i)
    /\ UNCHANGED <<pc, turn, runVars, callVars, guardVars, calls, next, ahead, edited, cancelled,
                   fileVars, diagVars, late>>

ReadsJoin ==
    /\ pc = "reads" /\ In("wait") \cup In("run") \cup In("ask") = {}
    /\ Goto("consume")
    /\ UNCHANGED <<turn, callVars, guardVars, batchVars, cancelled, fileVars, diagVars, late>>

\* The file is another one now for whoever has looked at it before.
Edit(f) ==
    /\ edited' = f /\ told' = told \ {f}
    /\ broken' \in {broken \cup {f}, broken \ {f}}
    /\ results' = [results EXCEPT ![f] = IF @ = "errors" THEN "old_errors" ELSE @]
    /\ worker' = IF worker.file # f THEN worker
                 ELSE [worker EXCEPT !.saw = CASE @ = "errors" -> "old_errors"
                                               [] @ = "none" -> "old_none"
                                               [] OTHER -> @]
    /\ UNCHANGED queue

\* Any other call runs by itself: done, failed, refused, cancelled by the user,
\* or a hand-over that ends the run.
RunTool ==
    /\ pc = "batch" /\ next >= ahead /\ RunEnd(next) < next + 2
    /\ Goto("consume")
    /\ phase' = [phase EXCEPT ![next] = "done"]
    /\ \E r \in {"ok", "failed", "denied", "abort", "spec"} :
        /\ res' = [res EXCEPT ![next] = r]
        /\ \/ calls[next] = "write" /\ r = "ok" /\ \E f \in Files : Edit(f)
           \/ UNCHANGED <<edited, fileVars, diagVars>>
    /\ UNCHANGED <<turn, callVars, guardVars, calls, next, ahead, cancelled, late>>

\* asyncDiagnostics.enqueue: what is known of the file is out of date.
Enqueue(f) ==
    IF f = None \/ f \in Range(queue) THEN UNCHANGED diagVars
    ELSE /\ queue' = Append(queue, f)
         /\ results' = [results EXCEPT ![f] = None]
         /\ worker' = [worker EXCEPT !.on = TRUE]

\* The history with the result, the calls that will not run answered too.
Halted == AppendAborted(Append(messages, Tool(next)), next + 1, Len(calls))

\* Another failure of a kind of call, alike the one before or not.
Failures(kind) == IF res[next] # "failed" THEN {0} ELSE {1, streak[kind] + 1}

Consume ==
    /\ pc = "consume"
    /\ IF res[next] = "abort" \/ cancelled
       THEN Return("error", Halted) /\ UNCHANGED <<streak, next, diagVars>>
       ELSE IF res[next] = "spec"
       THEN Return("stopped", Halted) /\ UNCHANGED <<streak, next, diagVars>>
       ELSE \E n \in Failures(calls[next]) :
            /\ streak' = [streak EXCEPT ![calls[next]] = n]
            /\ IF n >= FailureStopAt
               THEN Return("stopped", Halted) /\ UNCHANGED <<next, diagVars>>
               ELSE /\ Say(IF next = Len(calls) THEN "after"
                           ELSE IF next + 1 < ahead THEN "consume" ELSE "batch",
                           Append(messages, Tool(next)))
                    /\ next' = next + 1
                    /\ Enqueue(edited)
    /\ edited' = None
    /\ UNCHANGED <<turn, callVars, headless, empty, nudges, accepted, calls, ahead, phase, res,
                   cancelled, fileVars, late>>

\* Feedback, a failed switch of models, a dropped call, a hint or a reminder,
\* after all results.
After ==
    /\ pc = "after"
    /\ \E n \in 0 .. MaxNotes : Say("turn", messages \o [i \in 1 .. n |-> User])
    /\ calls' = <<>> /\ phase' = <<>> /\ res' = <<>> /\ next' = 1 /\ ahead' = 1
    /\ UNCHANGED <<turn, callVars, guardVars, edited, cancelled, fileVars, diagVars, late>>

-----------------------------------------------------------------------------
(* The diagnostics of edited files.                                          *)

\* The worker takes the next file, or ends.
Take ==
    /\ worker.on /\ worker.file = None
    /\ IF queue = <<>> \/ cancelled THEN worker' = Idle /\ UNCHANGED queue
       ELSE worker' = [worker EXCEPT !.file = Head(queue)] /\ queue' = Tail(queue)
    /\ UNCHANGED <<results, broken, told>>

\* The check reads the file some time before it reports.
Look ==
    /\ worker.file # None /\ worker.saw = None
    /\ \/ worker' = [worker EXCEPT !.saw = IF worker.file \in broken THEN "errors" ELSE "none"]
       \/ cancelled /\ worker' = [worker EXCEPT !.saw = "none"]
    /\ UNCHANGED <<queue, results, broken, told>>

Report ==
    /\ worker.saw # None
    /\ results' = [results EXCEPT ![worker.file] =
                       IF worker.saw \in {"errors", "old_errors"} THEN worker.saw ELSE None]
    /\ worker' = [worker EXCEPT !.file = None, !.saw = None]
    /\ UNCHANGED <<queue, broken, told>>

Diagnose ==
    /\ Take \/ Look \/ Report
    /\ UNCHANGED <<pc, turn, runVars, callVars, guardVars, batchVars, cancelled, late>>

\* Mutant: nobody waits for the worker.
Always == TRUE

Quiet == ~ worker.on

\* Which files' errors are reported on.
Found == {f \in Files : results[f] # None}

\* What is found is told to the model.
Tell(place) ==
    /\ Quiet /\ Found # {}
    /\ Say(place, Append(messages, User))
    /\ results' = [f \in Files |-> None]
    /\ told' = told \cup {f \in Found : results[f] = "errors"}
    /\ UNCHANGED <<queue, worker, broken, late>>

NothingToTell == Quiet /\ Found = {} /\ UNCHANGED <<diagVars, fileVars, late>>

\* The wait is over before the worker is.
TooLate(final) == worker.on /\ late' = (late \/ final) /\ UNCHANGED <<diagVars, fileVars>>

Drain ==
    /\ pc = "drain"
    /\ Tell("compact") \/ (NothingToTell /\ Goto("compact")) \/ (TooLate(FALSE) /\ Goto("compact"))
    /\ UNCHANGED <<turn, callVars, guardVars, batchVars, cancelled>>

\* An answer is not the last word on edits that are still being checked.
Answer ==
    /\ pc = "answer"
    /\ Tell("turn") \/ ((NothingToTell \/ TooLate(TRUE)) /\ Return("answered", messages))
    /\ UNCHANGED <<turn, callVars, guardVars, batchVars, cancelled>>

-----------------------------------------------------------------------------
(* The end of the turns, or of the budget.                                   *)

Ceiling ==
    /\ pc = "ceiling"
    /\ IF cancelled THEN Return("error", messages) ELSE Goto("last_drain")
    /\ UNCHANGED <<turn, callVars, guardVars, batchVars, cancelled, fileVars, diagVars, late>>

LastDrain ==
    /\ pc = "last_drain"
    /\ Tell("connect") \/ ((NothingToTell \/ TooLate(TRUE)) /\ Goto("connect"))
    /\ purpose' = "last"
    /\ UNCHANGED <<turn, tries, stalls, got, shown, reacted, over, guardVars, batchVars, cancelled>>

\* finalAnswerAfterMaxTurns: one more request, for a summary.
LastAnswer ==
    /\ pc = "collect" /\ purpose = "last"
    /\ \/ /\ ~ cancelled
          /\ Return(IF headless THEN "incomplete" ELSE "answered",
                    messages \o <<User, Assistant(0)>>)
       \/ Return("ceiling", messages)
    /\ UNCHANGED <<turn, callVars, guardVars, batchVars, cancelled, fileVars, diagVars, late>>

Cancel ==
    /\ ~ cancelled /\ pc # "done" /\ cancelled' = TRUE
    /\ UNCHANGED <<pc, turn, runVars, callVars, guardVars, batchVars, fileVars, diagVars, late>>

-----------------------------------------------------------------------------
Run ==
    \/ Turn \/ Drain \/ Compact \/ Connect \/ Backoff \/ Collect \/ Recover \/ Check \/ Settle
    \/ Act \/ Speak \/ Answer \/ ReadAhead \/ ReadsJoin \/ RunTool \/ Consume \/ After
    \/ Ceiling \/ LastDrain \/ LastAnswer

Reads == \E i \in DOMAIN calls : Read(i)

Next == Run \/ Reads \/ Diagnose \/ Cancel

Spec == Init /\ [][Next]_vars

\* Streams end, tools return and prompts are answered; waits have a limit.
LiveSpec == Spec /\ WF_vars(Run) /\ WF_vars(Reads)

-----------------------------------------------------------------------------
(* Properties.                                                               *)

\* Whatever was compacted, halted or interrupted, the history of every request,
\* and the one a run leaves, answers each advertised tool call once and at
\* once, or a strict provider refuses the session from then on.
HistoryPaired == pc \in {"connect", "done"} => Paired(messages)

\* A call never runs before a write that precedes it, nor a write before what
\* precedes it: reading ahead gives the results of running in order.
RunsInOrder ==
    \A j \in DOMAIN calls : phase[j] \in {"run", "ask", "done"} =>
        \A k \in 1 .. j - 1 : "write" \in {calls[j], calls[k]} => phase[k] = "done"

\* What the model is told of a file is true of the file as it is, though the
\* checks run beside the edits; and a run does not take an answer as long as
\* the model has not been told of errors in what it edited, unless the last
\* wait for the checks was too short.
ErrorsReachModel ==
    ~ cancelled =>
        /\ pc \in {"drain", "answer", "last_drain"} /\ Quiet =>
               \A f \in Found : results[f] = "errors"
        /\ outcome = "answered" /\ ~ late => broken \subseteq told

\* No turn shows the text of two streams, whichever retries it took.
TextOnce == shown <= 1

\* A run ends, by itself or cancelled.
RunReturns == <>(pc = "done")

\* The comment of Run: "stop issuing model calls once the cap is hit".
StopsAtBudget == over => ~ (pc = "connect" /\ purpose = "last")
=============================================================================
