---------------------------- MODULE SessionStream ----------------------------
(***************************************************************************)
(* internal/daemon/session.go and the streaming half of server.go: one     *)
(* session's output, kept in a ring of recent lines and fanned out over    *)
(* bounded channels to the clients attached to it.  A client first gets    *)
(* the ring as it was when it subscribed, then the live lines; lines that  *)
(* find its channel full are counted and reported by a gap notice.         *)
(*                                                                         *)
(* Lines are numbered; a step is one critical section of Session.mu, one   *)
(* channel operation, or the begin or end of a frame's write to a client:  *)
(* with no deadline on the connection, a write lasts until the client reads*)
(* or the connection is gone.                                              *)
(***************************************************************************)
EXTENDS Integers, Sequences

CONSTANTS
    Clients,    \* connections that run or attach to the session
    MaxBuffer,  \* Session.maxBuffer
    ChanCap,    \* capacity of a subscriber's channel
    MaxLines    \* bound: lines the worker writes

ASSUME BufferAssumption == MaxBuffer \in Nat \ {0}
ASSUME ChanAssumption == ChanCap \in Nat \ {0}
ASSUME LinesAssumption == MaxLines \in Nat

VARIABLES
    lines,    \* Session.lines
    buffer,   \* Session.buffer, as line numbers
    state,    \* Session.state; the last two with Session.finished
    subs,     \* Session.subscribers
    chan,     \* chan[c]: the channel of c's subscription
    dropped,  \* dropped[c]: subscriber.dropped
    closes,   \* closes[c]: how often c's channel has been closed
    closing,  \* the subscribers finish has taken out and still has to close
    client,   \* client[c]: where the handler of c is
    history,  \* history[c]: what is left of the buffer c got from Subscribe
    pos,      \* pos[c]: the line that has to follow those written to c so far
    held,     \* held[c]: what the handler has as its session: this one, none,
              \* or another one of the same id
    end,      \* end[c]: the frame that ended c's stream
    down,     \* Server.done is closed
    hungUp    \* Shutdown has closed the connections

sessionVars == <<lines, buffer, state, subs, dropped, closing>>
clientVars  == <<client, history, pos, held, end>>
serverVars  == <<down, hungUp>>
streamVars == <<sessionVars, chan, closes, clientVars, serverVars>>

LineItem(n) == [gap |-> FALSE, n |-> n]
GapItem(d)  == [gap |-> TRUE, n |-> d]

Finished == state \in {"done", "failed"}

Items == [gap : BOOLEAN, n : 1 .. MaxLines]

\* A handler first finds its session, acknowledges, then streams; it is
\* writing an item, or the last frame, and at last cancels its subscription.
Attached == {"attached", "ack", "streaming", "writing"}
HandlerPlaces == {"away", "ending", "cancel", "left"} \cup Attached

StreamTypeOK ==
    /\ lines \in 0 .. MaxLines
    /\ buffer \in Seq(1 .. MaxLines) /\ Len(buffer) <= MaxBuffer
    /\ state \in {"queued", "running", "done", "failed"}
    /\ subs \in SUBSET Clients
    /\ chan \in [Clients -> Seq(Items)]
    /\ \A c \in Clients : Len(chan[c]) <= ChanCap
    /\ dropped \in [Clients -> 0 .. MaxLines]
    /\ closes \in [Clients -> Nat]
    /\ closing \in SUBSET Clients
    /\ client \in [Clients -> HandlerPlaces]
    /\ history \in [Clients -> Seq(1 .. MaxLines)]
    /\ pos \in [Clients -> 1 .. MaxLines + 1]
    /\ held \in [Clients -> {"unknown", "own", "none", "other"}]
    /\ end \in [Clients -> {"none", "end", "error", "lost"}]
    /\ down \in BOOLEAN
    /\ hungUp \in BOOLEAN

StreamInit ==
    /\ lines = 0 /\ buffer = <<>> /\ state = "queued"
    /\ subs = {} /\ closing = {}
    /\ chan = [c \in Clients |-> <<>>]
    /\ dropped = [c \in Clients |-> 0]
    /\ closes = [c \in Clients |-> 0]
    /\ client = [c \in Clients |-> "away"]
    /\ history = [c \in Clients |-> <<>>]
    /\ pos = [c \in Clients |-> 1]
    /\ held = [c \in Clients |-> "unknown"]
    /\ end = [c \in Clients |-> "none"]
    /\ down = FALSE
    /\ hungUp = FALSE

-----------------------------------------------------------------------------
(* The session, driven by the goroutine of its Run.                          *)

Started ==
    /\ state = "queued"
    /\ state' = "running"
    /\ UNCHANGED <<lines, buffer, subs, dropped, closing, chan, closes,
                   clientVars, serverVars>>

HasRoom(q) == Len(q) < ChanCap

\* Mutant: the live line is sent before the gap it follows is reported.
DeliverLineFirst(q, d, n) ==
    IF ~ HasRoom(q) THEN [q |-> q, d |-> d + 1]
    ELSE LET q1 == Append(q, LineItem(n)) IN
         IF d > 0 /\ HasRoom(q1) THEN [q |-> Append(q1, GapItem(d)), d |-> 0]
                                 ELSE [q |-> q1, d |-> d]

\* A subscriber's channel and count once line n has been offered to it.
Deliver(q, d, n) ==
    IF ~ HasRoom(q) THEN [q |-> q, d |-> d + 1]
    ELSE LET q1 == IF d > 0 THEN Append(q, GapItem(d)) ELSE q IN
         IF HasRoom(q1) THEN [q |-> Append(q1, LineItem(n)), d |-> 0]
                        ELSE [q |-> q1, d |-> 1]

RingUnbounded(s) == s  \* mutant: old lines are not dropped

\* The ring keeps the most recent MaxBuffer lines.
Ring(s) == IF Len(s) > MaxBuffer THEN Tail(s) ELSE s

Line ==
    LET n == lines + 1  to(c) == Deliver(chan[c], dropped[c], n) IN
    /\ state = "running" /\ lines < MaxLines
    /\ lines' = n
    /\ buffer' = Ring(Append(buffer, n))
    /\ chan' = [c \in Clients |-> IF c \in subs THEN to(c).q ELSE chan[c]]
    /\ dropped' = [c \in Clients |-> IF c \in subs THEN to(c).d ELSE dropped[c]]
    /\ UNCHANGED <<state, subs, closing, closes, clientVars, serverVars>>

\* Mutant: the channels are closed before the outcome is stored.
FinishClosingFirst ==
    /\ ~ Finished
    /\ IF subs # {}
       THEN closing' = subs /\ subs' = {} /\ UNCHANGED state
       ELSE /\ state' \in IF state = "running" THEN {"done", "failed"}
                                               ELSE {"failed"}
            /\ UNCHANGED <<subs, closing>>
    /\ UNCHANGED <<lines, buffer, dropped, chan, closes, clientVars, serverVars>>

\* finish: a session that was never leased only fails.
Finish ==
    /\ ~ Finished
    /\ state' \in IF state = "running" THEN {"done", "failed"} ELSE {"failed"}
    /\ closing' = subs
    /\ subs' = {}
    /\ UNCHANGED <<lines, buffer, dropped, chan, closes, clientVars, serverVars>>

\* Outside the lock, finish closes the channels it took out, one by one.
CloseOne(c) ==
    /\ c \in closing
    /\ closing' = closing \ {c}
    /\ closes' = [closes EXCEPT ![c] = @ + 1]
    /\ UNCHANGED <<lines, buffer, state, subs, dropped, chan, clientVars, serverVars>>

-----------------------------------------------------------------------------
(* A client's handler.                                                       *)

\* Subscribe: the buffer and the subscription in one critical section; a
\* finished session hands out a channel that is closed already.  The handler of
\* Run has the session it started, that of Attach still has to look it up.
Subscribe(c) ==
    /\ client[c] = "away"
    /\ \/ /\ client' = [client EXCEPT ![c] = "streaming"]
          /\ held' = [held EXCEPT ![c] = "own"]
       \/ client' = [client EXCEPT ![c] = "attached"] /\ UNCHANGED held
    /\ history' = [history EXCEPT ![c] = buffer]
    /\ pos' = [pos EXCEPT ![c] = lines - Len(buffer) + 1]
    /\ IF Finished THEN closes' = [closes EXCEPT ![c] = 1] /\ UNCHANGED subs
                   ELSE subs' = subs \cup {c} /\ UNCHANGED closes
    /\ UNCHANGED <<lines, buffer, state, dropped, closing, chan, end, serverVars>>

\* The second lookup of Attach: a finished session may have been evicted since,
\* and its id given to another.
LookUp(c) ==
    /\ client[c] = "attached"
    /\ client' = [client EXCEPT ![c] = "ack"]
    /\ held' \in {[held EXCEPT ![c] = h] :
                     h \in {"own"} \cup IF Finished THEN {"none", "other"} ELSE {}}
    /\ UNCHANGED <<sessionVars, chan, closes, history, pos, end, serverVars>>

\* The line a client expects after an item it has been sent.
After(p, item) == IF item.gap THEN p + item.n ELSE item.n + 1

\* The write of an item begins.
Write(c, item) ==
    /\ client[c] = "streaming"
    /\ client' = [client EXCEPT ![c] = "writing"]
    /\ pos' = [pos EXCEPT ![c] = After(@, item)]
    /\ UNCHANGED <<held, end>>

Replay(c) ==
    /\ history[c] # <<>> /\ ~ down
    /\ Write(c, LineItem(Head(history[c])))
    /\ history' = [history EXCEPT ![c] = Tail(@)]
    /\ UNCHANGED <<sessionVars, chan, closes, serverVars>>

Receive(c) ==
    /\ history[c] = <<>> /\ chan[c] # <<>>
    /\ Write(c, Head(chan[c]))
    /\ chan' = [chan EXCEPT ![c] = Tail(@)]
    /\ UNCHANGED <<sessionVars, closes, history, serverVars>>

\* A write ends once the connection's buffer has room for the frame, which for
\* a full one takes a client that reads.
Written(c) ==
    /\ ~ hungUp
    /\ \/ /\ client[c] \in {"ack", "writing"}
          /\ client' = [client EXCEPT ![c] = "streaming"]
       \/ /\ client[c] = "ending"
          /\ client' = [client EXCEPT ![c] = "cancel"]
    /\ UNCHANGED <<sessionVars, chan, closes, history, pos, held, end, serverVars>>

\* Or it fails, when the client has gone or the connection is closed; the handler
\* does not look at what becomes of the acknowledgement.
WriteFails(c) ==
    /\ \/ /\ client[c] = "ack"
          /\ client' = [client EXCEPT ![c] = "streaming"] /\ UNCHANGED end
       \/ /\ client[c] \in {"writing", "ending"}
          /\ client' = [client EXCEPT ![c] = "cancel"]
          /\ end' = [end EXCEPT ![c] = "lost"]
    /\ UNCHANGED <<sessionVars, chan, closes, history, pos, held, serverVars>>

\* The write of the last frame begins.
EndStream(c, frame) ==
    /\ client[c] = "streaming"
    /\ client' = [client EXCEPT ![c] = "ending"]
    /\ end' = [end EXCEPT ![c] = frame]
    /\ UNCHANGED <<sessionVars, chan, closes, history, pos, held, serverVars>>

\* What the handler makes of the session it has, if any; another one than the
\* subscribed may have failed or not.
LastFrames(c) ==
    CASE held[c] = "own"   -> {IF state = "failed" THEN "error" ELSE "end"}
      [] held[c] = "other" -> {"end", "error"}
      [] OTHER             -> {"end"}

\* finishStream, when the channel is drained and closed.
SeeClosed(c) ==
    /\ history[c] = <<>> /\ chan[c] = <<>> /\ closes[c] > 0
    /\ \E frame \in LastFrames(c) : EndStream(c, frame)

\* Mutant: only the replay of history looks at the shutdown.
SeeShutdownInReplay(c) == down /\ history[c] # <<>> /\ EndStream(c, "end")

\* A shutdown is told with the frame of a clean end.
SeeShutdown(c) == down /\ EndStream(c, "end")

\* The deferred cancel of the subscription.
Unsubscribe(c) ==
    /\ client[c] = "cancel"
    /\ client' = [client EXCEPT ![c] = "left"]
    /\ IF c \in subs
       THEN subs' = subs \ {c} /\ closes' = [closes EXCEPT ![c] = @ + 1]
       ELSE UNCHANGED <<subs, closes>>
    /\ UNCHANGED <<lines, buffer, state, dropped, closing, chan, history, pos,
                   held, end, serverVars>>


-----------------------------------------------------------------------------
(* Shutdown closes Server.done, and then the connections.                    *)

ServerDown ==
    /\ ~ down
    /\ down' = TRUE
    /\ UNCHANGED <<sessionVars, chan, closes, clientVars, hungUp>>

HangUp ==
    /\ down /\ ~ hungUp
    /\ hungUp' = TRUE
    /\ UNCHANGED <<sessionVars, chan, closes, clientVars, down>>

-----------------------------------------------------------------------------
Serve(c) ==
    \/ LookUp(c) \/ Replay(c) \/ Receive(c) \/ SeeClosed(c) \/ SeeShutdown(c)
    \/ Unsubscribe(c)

WriteReturns(c) == Written(c) \/ WriteFails(c)

StreamNext ==
    \/ Started \/ Line \/ Finish \/ ServerDown \/ HangUp
    \/ \E c \in Clients : \/ CloseOne(c) \/ Subscribe(c) \/ Serve(c)
                         \/ WriteReturns(c)

StreamSpec == StreamInit /\ [][StreamNext]_streamVars

\* Handlers, the closing loop of finish and Shutdown go on, and a write on a
\* closed connection returns.  Nothing makes a worker write, a session finish, a
\* client come, or read what is sent to it.
FairSpec ==
    /\ StreamSpec
    /\ WF_streamVars(HangUp)
    /\ \A c \in Clients :
          /\ WF_streamVars(Serve(c)) /\ WF_streamVars(CloseOne(c))
          /\ WF_streamVars(hungUp /\ WriteReturns(c))

-----------------------------------------------------------------------------
(* Safety.                                                                   *)

\* No channel is closed twice and no line is sent on a closed one (either would
\* crash the daemon), with finish, cancel and Line in any order.
NoChannelPanic ==
    \A c \in Clients : closes[c] <= 1 /\ (c \in subs => closes[c] = 0)

\* Where a client that has been sent items up to p is after all of s; 0 when
\* a line is missing without notice, or comes twice.
Position(p, s) ==
    LET at[i \in 0 .. Len(s)] ==
            IF i = 0 THEN p
            ELSE IF at[i - 1] > 0 /\ (s[i].gap \/ s[i].n = at[i - 1])
                 THEN After(at[i - 1], s[i]) ELSE 0
    IN at[Len(s)]

Pending(c) ==
    [i \in 1 .. Len(history[c]) |-> LineItem(history[c][i])] \o chan[c]

\* A subscriber's stream has no hole and no repetition, across the seam between
\* history and live lines too: what it has been sent, what waits for it and what
\* is counted as dropped add up to all the lines since its first one.
StreamContiguous ==
    \A c \in Clients :
        client[c] \in Attached =>
            /\ Position(pos[c], Pending(c)) > 0
            /\ c \in subs =>
                  Position(pos[c], Pending(c)) + dropped[c] = lines + 1

\* A stream ends cleanly only when the session has finished or the server goes
\* down, and a handler that has the session tells its outcome: an error only of a
\* failed one, and a clean end of a failed one only by a shutdown.
HonestEnd ==
    \A c \in Clients :
        /\ end[c] = "end" => Finished \/ down
        /\ held[c] = "own" => /\ end[c] = "error" => state = "failed"
                              /\ end[c] = "end" => state # "failed" \/ down

-----------------------------------------------------------------------------
(* Liveness.                                                                 *)

\* The client takes what is written to it, or leaves.
ClientHeeds(c) == WF_streamVars(WriteReturns(c))

\* Once the server shuts down every stream ends, also that of a client that does
\* not read, that subscribes meanwhile, or whose channel is full.  Once the
\* session has finished, that of a client that goes on reading or leaves does.
StreamsEnd ==
    \A c \in Clients :
        /\ client[c] \in Attached /\ down ~> client[c] = "left"
        /\ ClientHeeds(c) =>
               (client[c] \in Attached /\ Finished ~> client[c] = "left")

-----------------------------------------------------------------------------
(* What comments of the code say, and the code does not do.                  *)

\* session.go:61-63: the drop count is flushed as a gap notice, so a lagging
\* client learns its stream is incomplete instead of silently losing output.
\* Hence a stream that ends of itself has accounted for every line.
NothingLostSilently ==
    \A c \in Clients : end[c] \in {"end", "error"} /\ ~ down => pos[c] = lines + 1

\* server.go:317-318: streamToClient finishes with CtrlEnd, or CtrlError if the
\* session failed; client.go:99 takes the former for a run without an error.
EndTellsOutcome == \A c \in Clients : end[c] = "end" => state # "failed"
=============================================================================
