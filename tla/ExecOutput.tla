----------------------------- MODULE ExecOutput -----------------------------
(***************************************************************************)
(* The output path of one exec of the guest daemon: the two pipes of the   *)
(* child, the waiter that drains them (super_wait, Capped), the replay     *)
(* ring and live channel it publishes into (Log, Shared), the SSE streams  *)
(* attached to them (stream, Attach, build_stream) and the client that     *)
(* follows a stream across reconnects (ExecHandle::advance).               *)
(*                                                                         *)
(* A byte is its offset in the combined output, so a chunk is an interval  *)
(* [lo, hi).  The deques of the code (ring, backlog, broadcast queue) hold *)
(* chunks in increasing offset order; here they are sets of chunks and the *)
(* front is the chunk with the least lo.                                   *)
(*                                                                         *)
(* The daemon runs on one thread, so code between two awaits is atomic.    *)
(* Every lock of this path is free whenever it is polled (no holder awaits)*)
(* and an await on it suspends only when tokio's cooperative budget is     *)
(* spent.  The variable yields says whether that may happen in a behavior. *)
(***************************************************************************)
EXTENDS Naturals, FiniteSets, Sequences

CONSTANTS
  Reader,         \* clients that follow this exec's output
  Options,        \* the StreamOptions a reader may use
  MaxReconnects,  \* StreamOptions.max_reconnects
  MaxBytes,       \* bound: bytes the processes write in all
  BufferCap,      \* stream_buffer_bytes, the size of the replay ring
  ChannelCap,     \* stream_channel_capacity.max(1)
  OutputCap       \* max_output_bytes, the head buffer of each pipe

ASSUME OptionsAssumption ==
  Options \subseteq [offset : Nat, reconnect : BOOLEAN, errorOnGap : BOOLEAN]
ASSUME BoundAssumption  == /\ MaxReconnects \in Nat
                           /\ MaxBytes \in Nat
ASSUME CapAssumption    == /\ BufferCap \in Nat
                           /\ ChannelCap \in Nat \ {0}
                           /\ OutputCap \in Nat

VARIABLES
  written,    \* bytes written into the pipes so far
  pipe,       \* pipe[s]: bytes in pipe s nobody has read
  open,       \* open[s]: some process still holds the write end of pipe s
  yields,     \* an await on a free lock may suspend the task
  child,      \* the direct child: "alive", or "exited" once wait() is ready
  waiter,     \* where the waiter task is
  pump,       \* pump[s]: the Capped reader of pipe s
  log,        \* the replay window
  terminal,   \* the Terminal marker is set
  pc,         \* pc[r]: where reader r and its connection are
  options,    \* options[r]: the StreamOptions r streams with
  cursor,     \* cursor[r]: the client's next resume offset
  attempts,   \* attempts[r]: connections r has lost
  conn        \* conn[r]: the server's Attach for r's connection

waiterVars == <<written, pipe, open, yields, child, waiter, pump, terminal>>
readerVars == <<pc, options, cursor, attempts>>
vars == <<waiterVars, log, readerVars, conn>>

Stream == {"out", "err"}
Chunk  == [lo : Nat, hi : Nat]
Event  == [kind : {"output", "gap"}, lo : Nat, hi : Nat]

\* Log, Capped and Attach.
LogState  == [ring : SUBSET Chunk, total : Nat, start : Nat, retained : Nat]
PumpState == [eof : BOOLEAN, held : Nat, buf : Nat, truncated : BOOLEAN]
ConnState == [pending : Seq(Event), backlog : SUBSET Chunk, cursor : Nat,
              finished : BOOLEAN, queue : SUBSET Chunk, fin : BOOLEAN, lagged : BOOLEAN]

WaiterStep == {"wait", "linger", "terminal", "finish", "done"}
Connected  == {"snapshot", "attached"}
Ended      == {"exit", "cut", "error"}
ReaderStep == {"reconnect"} \cup Connected \cup Ended

Other(s) == IF s = "out" THEN "err" ELSE "out"
Both(f)  == f["out"] + f["err"]
Larger(a, b) == IF a >= b THEN a ELSE b

----------------------------------------------------------------------------
(* The replay window.                                                      *)

EmptyLog == [ring |-> {}, total |-> 0, start |-> 0, retained |-> 0]

\* Log::trim.  Whole chunks go while they fit in the excess; the chunk the
\* new start falls into is sliced.
Trim(l, cap) ==
  LET s == l.start + (l.retained - cap) IN
  IF l.retained <= cap
  THEN l
  ELSE [ring |-> {[lo |-> Larger(c.lo, s), hi |-> c.hi] : c \in {d \in l.ring : d.hi > s}},
        total |-> l.total, start |-> s, retained |-> cap]

\* Shared::publish, the part under the log lock that changes the ring.
Push(l, n) ==
  Trim([ring |-> l.ring \cup {[lo |-> l.total, hi |-> l.total + n]},
        total |-> l.total + n, start |-> l.start, retained |-> l.retained + n],
       BufferCap)

\* Log::since: the frames from an offset on, and the cursor they start at.
SinceCursor(l, from) == Larger(from, l.start)
SinceFrames(l, from) == {c \in l.ring : c.hi > SinceCursor(l, from)}
SinceGap(l, from) ==
  IF from < l.start THEN <<[kind |-> "gap", lo |-> from, hi |-> l.start]>> ELSE <<>>

----------------------------------------------------------------------------
(* The live channel.  A receiver's queue holds at most ChannelCap messages; *)
(* a send to a full one drops its oldest message and the receiver's next    *)
(* recv reports Lagged.                                                     *)

NoConn == [pending |-> <<>>, backlog |-> {}, cursor |-> 0, finished |-> FALSE,
           queue |-> {}, fin |-> FALSE, lagged |-> FALSE]

Oldest(q) == {c \in q : \A d \in q : c.lo <= d.lo}
Full(q)   == Cardinality(q) >= ChannelCap

SendChunk(k, c) ==
  IF Full(k.queue)
  THEN [k EXCEPT !.queue = (@ \ Oldest(@)) \cup {c}, !.lagged = TRUE]
  ELSE [k EXCEPT !.queue = @ \cup {c}]

SendFinished(k) ==
  IF Full(k.queue)
  THEN [k EXCEPT !.queue = @ \ Oldest(@), !.fin = TRUE, !.lagged = TRUE]
  ELSE [k EXCEPT !.fin = TRUE]

\* live.send of a chunk and of Finished: every subscribed receiver gets it.
Broadcast(Send(_)) ==
  conn' = [r \in Reader |-> IF pc[r] \in Connected THEN Send(conn[r]) ELSE conn[r]]

----------------------------------------------------------------------------
(* The processes at the other end of the pipes: the child and whatever it  *)
(* left running with the write ends inherited.                             *)

Write(s) ==
  /\ open[s]
  /\ written < MaxBytes
  /\ written' = written + 1
  /\ pipe' = [pipe EXCEPT ![s] = @ + 1]
  /\ UNCHANGED <<open, yields, child, waiter, pump, terminal, log, readerVars, conn>>

CloseWriteEnd(s) ==
  /\ open[s]
  /\ open' = [open EXCEPT ![s] = FALSE]
  /\ UNCHANGED <<written, pipe, yields, child, waiter, pump, terminal, log, readerVars, conn>>

ChildExits ==
  /\ child = "alive"
  /\ child' = "exited"
  /\ UNCHANGED <<written, pipe, open, yields, waiter, pump, terminal, log, readerVars, conn>>

----------------------------------------------------------------------------
(* The waiter.                                                             *)

NewPump == [eof |-> FALSE, held |-> 0, buf |-> 0, truncated |-> FALSE]

\* Mutant of Keep: compares the chunk, not the buffer, with the cap.
KeepComparesChunk(p, n) ==
  [eof |-> p.eof, held |-> 0,
   buf |-> IF p.buf + n <= OutputCap THEN p.buf + n ELSE OutputCap,
   truncated |-> p.truncated \/ n > OutputCap]

\* The head buffer after n more bytes: Capped keeps the first OutputCap.
Keep(p, n) ==
  [eof |-> p.eof, held |-> 0,
   buf |-> IF p.buf + n <= OutputCap THEN p.buf + n ELSE OutputCap,
   truncated |-> p.truncated \/ p.buf + n > OutputCap]

\* A select! arm that completes drops the futures of the other arms, and
\* with them the bytes a suspended pump had already read.
Dropped(p) == [p EXCEPT !.held = 0]
AtEof(p)   == [p EXCEPT !.eof = TRUE]

\* The pump of pipe s is polled.  Phase one polls its arms in order (biased):
\* no pump runs once the child's exit is ready, and a suspended stdout pump
\* completes before stderr's is polled.  Phase two has no order.
PumpPolled(s) ==
  /\ \/ waiter = "wait" /\ child = "alive" /\ (s = "err" => pump["out"].held = 0)
     \/ waiter = "linger"
  /\ ~pump[s].eof

\* Mutant of PublishBytes: publishes only what the head buffer keeps.
PublishKept(s, n) ==
  /\ log' = Push(log, Keep(pump[s], n).buf - pump[s].buf)
  /\ Broadcast(LAMBDA k : SendChunk(k, [lo |-> log.total, hi |-> log.total + n]))
  /\ pump' = [pump EXCEPT ![s] = Keep(@, n), ![Other(s)] = Dropped(@)]
  /\ UNCHANGED <<written, open, yields, child, waiter, terminal, readerVars>>

\* Capped::pump reads n bytes and publishes them; the arm completes.
PublishBytes(s, n) ==
  /\ log' = Push(log, n)
  /\ Broadcast(LAMBDA k : SendChunk(k, [lo |-> log.total, hi |-> log.total + n]))
  /\ pump' = [pump EXCEPT ![s] = Keep(@, n), ![Other(s)] = Dropped(@)]
  /\ UNCHANGED <<written, open, yields, child, waiter, terminal, readerVars>>

Pump(s) ==
  /\ PumpPolled(s)
  /\ pump[s].held = 0
  /\ \E n \in 1..pipe[s] :
       /\ pipe' = [pipe EXCEPT ![s] = @ - n]
       /\ PublishBytes(s, n)

\* The budget runs out between the read and publish's lock: the pump is
\* suspended with the bytes in its scratch buffer.
PumpSuspends(s) ==
  /\ yields
  /\ PumpPolled(s)
  /\ Both([t \in Stream |-> pump[t].held]) = 0
  /\ \E n \in 1..pipe[s] :
       /\ pipe' = [pipe EXCEPT ![s] = @ - n]
       /\ pump' = [pump EXCEPT ![s].held = n]
  /\ UNCHANGED <<written, open, yields, child, waiter, terminal, log, readerVars, conn>>

PumpResumes(s) ==
  /\ PumpPolled(s)
  /\ pump[s].held > 0
  /\ PublishBytes(s, pump[s].held)
  /\ UNCHANGED pipe

\* read answers Ok(0), or an error that is treated as the end of the pipe.
PumpEof(s) ==
  /\ PumpPolled(s)
  /\ pump[s].held = 0
  /\ pipe[s] = 0 /\ ~open[s]
  /\ pump' = [pump EXCEPT ![s] = AtEof(@), ![Other(s)] = Dropped(@)]
  /\ UNCHANGED <<written, pipe, open, yields, child, waiter, terminal, log, readerVars, conn>>

PumpReadError(s) ==
  /\ PumpPolled(s)
  /\ pump[s].held = 0
  /\ pump' = [pump EXCEPT ![s] = AtEof(@), ![Other(s)] = Dropped(@)]
  /\ UNCHANGED <<written, pipe, open, yields, child, waiter, terminal, log, readerVars, conn>>

\* Phase one ends: wait() returns.
ChildWaited ==
  /\ waiter = "wait" /\ child = "exited"
  /\ waiter' = "linger"
  /\ pump' = [s \in Stream |-> Dropped(pump[s])]
  /\ UNCHANGED <<written, pipe, open, yields, child, terminal, log, readerVars, conn>>

\* Phase two ends: both pipes at EOF, or the linger deadline.
Drained ==
  /\ waiter = "linger"
  /\ \A s \in Stream : pump[s].eof
  /\ waiter' = "terminal"
  /\ UNCHANGED <<written, pipe, open, yields, child, pump, terminal, log, readerVars, conn>>

LingerExpires ==
  /\ waiter = "linger"
  /\ \E s \in Stream : ~pump[s].eof
  /\ waiter' = "terminal"
  /\ pump' = [s \in Stream |-> Dropped(pump[s])]
  /\ UNCHANGED <<written, pipe, open, yields, child, terminal, log, readerVars, conn>>

\* spawn's task after super_wait: the marker first, Finished last.
SetTerminal ==
  /\ waiter = "terminal"
  /\ waiter' = "finish"
  /\ terminal' = TRUE
  /\ UNCHANGED <<written, pipe, open, yields, child, pump, log, readerVars, conn>>

AnnounceFinished ==
  /\ waiter = "finish"
  /\ waiter' = "done"
  /\ Broadcast(SendFinished)
  /\ UNCHANGED <<written, pipe, open, yields, child, pump, terminal, log, readerVars>>

----------------------------------------------------------------------------
(* A reader and its connection.                                            *)

\* Mutant of OpenStream: relies on Finished alone, never on the marker.
OpenStreamUnmarked(r) ==
  /\ pc[r] = "reconnect"
  /\ attempts[r] <= MaxReconnects
  /\ pc' = [pc EXCEPT ![r] = "attached"]
  /\ conn' = [conn EXCEPT ![r] =
       [NoConn EXCEPT !.pending = SinceGap(log, cursor[r]),
                      !.backlog = SinceFrames(log, cursor[r]),
                      !.cursor = SinceCursor(log, cursor[r])]]
  /\ UNCHANGED <<waiterVars, log, options, cursor, attempts>>

\* GET .../stream?offset=cursor: subscribe and snapshot under the log lock,
\* then read the terminal marker.
OpenStream(r) ==
  /\ pc[r] = "reconnect"
  /\ attempts[r] <= MaxReconnects
  /\ \E now \in {TRUE} \cup (IF yields THEN {FALSE} ELSE {}) :
       /\ pc' = [pc EXCEPT ![r] = IF now THEN "attached" ELSE "snapshot"]
       /\ conn' = [conn EXCEPT ![r] =
            [NoConn EXCEPT !.pending = SinceGap(log, cursor[r]),
                           !.backlog = SinceFrames(log, cursor[r]),
                           !.cursor = SinceCursor(log, cursor[r]),
                           !.finished = now /\ terminal]]
  /\ UNCHANGED <<waiterVars, log, options, cursor, attempts>>

ReadTerminal(r) ==
  /\ pc[r] = "snapshot"
  /\ pc' = [pc EXCEPT ![r] = "attached"]
  /\ conn' = [conn EXCEPT ![r].finished = terminal]
  /\ UNCHANGED <<waiterVars, log, options, cursor, attempts>>

\* The body or the connection attempt is cut: nothing the server had queued
\* reaches the client.  A reader that does not reconnect ends: without an item
\* when the body just ended, with the error when the read failed.
LoseConnection(r) ==
  /\ conn' = [conn EXCEPT ![r] = NoConn]
  /\ \E next \in IF options[r].reconnect THEN {"reconnect"} ELSE {"cut", "error"} :
       pc' = [pc EXCEPT ![r] = next]
  /\ attempts' = [attempts EXCEPT ![r] = @ + 1]
  /\ UNCHANGED <<waiterVars, log, options, cursor>>

Cut(r) ==
  /\ pc[r] \in Connected
  /\ LoseConnection(r)

AttachFails(r) ==
  /\ pc[r] = "reconnect" /\ attempts[r] <= MaxReconnects
  /\ options[r].reconnect
  /\ LoseConnection(r)

\* More drops than max_reconnects, a retryable attach failure of a reader
\* that does not reconnect, or a 404 once an acked entry is collected.
StreamErrors(r) ==
  /\ pc[r] = "reconnect"
  /\ \/ attempts[r] > MaxReconnects
     \/ ~options[r].reconnect
     \/ terminal
  /\ pc' = [pc EXCEPT ![r] = "error"]
  /\ UNCHANGED <<waiterVars, log, options, cursor, attempts, conn>>

\* One event of the body reaches the client, which moves its cursor past it.
Deliver(r) ==
  /\ pc[r] = "attached"
  /\ conn[r].pending # <<>>
  /\ LET e == Head(conn[r].pending) IN
       /\ cursor' = [cursor EXCEPT ![r] = Larger(@, e.hi)]
       /\ IF e.kind = "gap" /\ options[r].errorOnGap
          THEN /\ pc' = [pc EXCEPT ![r] = "error"]
               /\ conn' = [conn EXCEPT ![r] = NoConn]
          ELSE /\ conn' = [conn EXCEPT ![r].pending = Tail(@)]
               /\ UNCHANGED pc
  /\ UNCHANGED <<waiterVars, log, options, attempts>>

\* Mutant of TakeEvents: resends the whole chunk the cursor falls into.
TakeEventsWhole(k, c) ==
  IF c.hi <= k THEN <<>>
  ELSE IF c.lo > k
       THEN << [kind |-> "gap", lo |-> k, hi |-> c.lo],
               [kind |-> "output", lo |-> c.lo, hi |-> c.hi] >>
       ELSE << [kind |-> "output", lo |-> c.lo, hi |-> c.hi] >>

\* Attach::take_chunk: the events chunk c adds at server cursor k, and the
\* cursor after it.
TakeEvents(k, c) ==
  IF c.hi <= k THEN <<>>
  ELSE IF c.lo > k
       THEN << [kind |-> "gap", lo |-> k, hi |-> c.lo],
               [kind |-> "output", lo |-> c.lo, hi |-> c.hi] >>
       ELSE << [kind |-> "output", lo |-> k, hi |-> c.hi] >>

TakeChunk(k, c) ==
  [k EXCEPT !.pending = TakeEvents(k.cursor, c), !.cursor = Larger(k.cursor, c.hi)]

\* The server side is polled for its next event: nothing is pending.
StreamPolled(r) == pc[r] = "attached" /\ conn[r].pending = <<>>

Replay(r) ==
  /\ StreamPolled(r)
  /\ \E c \in Oldest(conn[r].backlog) :
       conn' = [conn EXCEPT ![r] = TakeChunk([@ EXCEPT !.backlog = conn[r].backlog \ {c}], c)]
  /\ UNCHANGED <<waiterVars, log, readerVars>>

\* The exit event, and the end of the body.
Exit(r) ==
  /\ pc' = [pc EXCEPT ![r] = "exit"]
  /\ conn' = [conn EXCEPT ![r] = NoConn]
  /\ UNCHANGED <<waiterVars, log, options, cursor, attempts>>

\* Mutant of ExitAttachedLate: ends the body before the backlog is replayed.
ExitBeforeBacklog(r) ==
  /\ StreamPolled(r)
  /\ conn[r].finished
  /\ Exit(r)

ExitAttachedLate(r) ==
  /\ StreamPolled(r)
  /\ conn[r].backlog = {}
  /\ conn[r].finished
  /\ Exit(r)

\* live.recv() is polled.
Receives(r) == StreamPolled(r) /\ conn[r].backlog = {} /\ ~conn[r].finished

RecvChunk(r) ==
  /\ Receives(r)
  /\ ~conn[r].lagged
  /\ \E c \in Oldest(conn[r].queue) :
       conn' = [conn EXCEPT ![r] = TakeChunk([@ EXCEPT !.queue = conn[r].queue \ {c}], c)]
  /\ UNCHANGED <<waiterVars, log, readerVars>>

\* Lagged: whatever lies between the cursor and the end is reported lost.
SkipTo(k, total) ==
  [k EXCEPT !.lagged = FALSE,
            !.cursor = Larger(k.cursor, total),
            !.pending = IF total > k.cursor
                        THEN <<[kind |-> "gap", lo |-> k.cursor, hi |-> total]>>
                        ELSE <<>>]

RecvLagged(r) ==
  /\ Receives(r)
  /\ conn[r].lagged
  /\ conn' = [conn EXCEPT ![r] = SkipTo(@, log.total)]
  /\ UNCHANGED <<waiterVars, log, readerVars>>

RecvFinished(r) ==
  /\ Receives(r)
  /\ ~conn[r].lagged /\ conn[r].queue = {} /\ conn[r].fin
  /\ Exit(r)

----------------------------------------------------------------------------
Init ==
  /\ written = 0
  /\ pipe = [s \in Stream |-> 0]
  /\ open = [s \in Stream |-> TRUE]
  /\ yields \in BOOLEAN
  /\ child = "alive"
  /\ waiter = "wait"
  /\ pump = [s \in Stream |-> NewPump]
  /\ log = EmptyLog
  /\ terminal = FALSE
  /\ pc = [r \in Reader |-> "reconnect"]
  /\ options \in [Reader -> Options]
  /\ cursor = [r \in Reader |-> options[r].offset]
  /\ attempts = [r \in Reader |-> 0]
  /\ conn = [r \in Reader |-> NoConn]

Environment ==
  \/ \E s \in Stream : Write(s) \/ CloseWriteEnd(s) \/ PumpReadError(s)
  \/ ChildExits

PumpStep(s) == Pump(s) \/ PumpSuspends(s) \/ PumpResumes(s) \/ PumpEof(s)

WaiterTask ==
  \/ \E s \in Stream : PumpStep(s)
  \/ ChildWaited \/ Drained \/ LingerExpires \/ SetTerminal \/ AnnounceFinished

Connection(r) ==
  \/ OpenStream(r) \/ ReadTerminal(r) \/ Deliver(r) \/ Replay(r)
  \/ ExitAttachedLate(r) \/ RecvChunk(r) \/ RecvLagged(r) \/ RecvFinished(r)
  \/ StreamErrors(r)

Network(r) == Cut(r) \/ AttachFails(r)

Next ==
  \/ Environment
  \/ WaiterTask
  \/ \E r \in Reader : Connection(r) \/ Network(r)

Spec == Init /\ [][Next]_vars

\* The runtime polls every ready task again and again; nothing is promised
\* of the processes or of the network.
Fairness ==
  /\ WF_vars(WaiterTask)
  /\ \A r \in Reader : WF_vars(Connection(r))

FairSpec == Spec /\ Fairness

----------------------------------------------------------------------------
(* Properties.                                                             *)

\* The type invariant: in particular no counter of the window, the pipes or
\* the head buffers ever goes below zero (Log, Capped, Attach).
TypeOK ==
  /\ written \in Nat
  /\ pipe \in [Stream -> Nat]
  /\ open \in [Stream -> BOOLEAN]
  /\ yields \in BOOLEAN
  /\ child \in {"alive", "exited"}
  /\ waiter \in WaiterStep
  /\ pump \in [Stream -> PumpState]
  /\ log \in LogState
  /\ terminal \in BOOLEAN
  /\ pc \in [Reader -> ReaderStep]
  /\ options \in [Reader -> Options]
  /\ cursor \in [Reader -> Nat]
  /\ attempts \in [Reader -> Nat]
  /\ conn \in [Reader -> ConnState]

\* The ring holds exactly the last bytes of the output: it covers every
\* offset from start to total and nothing else, its size counter is right,
\* and it never outgrows the configured window (Log::trim, Shared::publish).
Covers(S, x) == \E c \in S : c.lo <= x /\ x < c.hi

ExactWindow(l) ==
  /\ l.start + l.retained = l.total
  /\ \A c \in l.ring : l.start <= c.lo /\ c.lo < c.hi /\ c.hi <= l.total
  /\ \A x \in 0..l.total : l.start <= x /\ x < l.total => Covers(l.ring, x)

RingExact == ExactWindow(log) /\ log.retained <= BufferCap

\* The next event a connection hands its client starts exactly at the
\* client's cursor: no byte is sent twice, none is skipped without a gap
\* event, across replay, the live channel, lag and reconnects
\* (Attach::take_chunk, ExecHandle::advance).
EventsContiguous ==
  \A r \in Reader : pc[r] = "attached" /\ conn[r].pending # <<>> =>
    /\ conn[r].pending[1].lo = cursor[r]
    /\ conn[r].pending[1].lo < conn[r].pending[1].hi
    /\ Len(conn[r].pending) = 1

\* A client that was told the exec ended has been handed, or told it lost,
\* every byte up to the end of the output: "a client that cannot tell
\* missing output from no output will read a truncated log as a complete
\* one" (exec.rs, stream).
NoSilentLoss ==
  \A r \in Reader : pc[r] = "exit" => cursor[r] >= log.total

\* Every byte taken out of a pipe reaches the replay window (Capped:
\* "Everything read is published to the exec's stream log regardless").
EverythingReadIsPublished ==
  log.total + Both(pipe) + Both([s \in Stream |-> pump[s].held]) = written

\* An outcome that is not flagged truncated holds every byte the daemon
\* read, however the reads of the two pipes interleaved with the child's
\* exit and the linger deadline (Capped::pump, super_wait).
OutcomeComplete ==
  waiter \in {"terminal", "finish", "done"} /\ (\A s \in Stream : ~pump[s].truncated)
    => Both([s \in Stream |-> pump[s].buf]) + Both(pipe) = written

\* NoSilentLoss holds whenever no await on a free lock suspends its task: the
\* window between the snapshot and the read of the marker is closed (stream).
NoSilentLossUnlessYields == yields \/ NoSilentLoss

\* EverythingReadIsPublished holds whenever no await on a free lock suspends:
\* a pump that read is never cancelled before it published (Capped::pump).
ReadIsPublishedUnlessYields == yields \/ EverythingReadIsPublished

\* OutcomeComplete holds whenever no await on a free lock suspends: the head
\* buffers miss nothing they do not admit to missing (Capped, super_wait).
OutcomeCompleteUnlessYields == yields \/ OutcomeComplete

\* Once the exec is over every stream of it ends: no connection is left
\* waiting for a Finished it can never receive (stream, build_stream).
StreamEnds ==
  \A r \in Reader : terminal ~> pc[r] \in Ended

----------------------------------------------------------------------------
(* The inductive invariant behind RingExact, EventsContiguous and          *)
(* NoSilentLossUnlessYields.                                               *)

\* The marker is set exactly when nothing more will be published.
TerminalLast == terminal <=> waiter \in {"finish", "done"}

\* At most one event is pending; it joins the client's cursor to the
\* server's.
PendingInv(r) ==
  \/ conn[r].pending = <<>> /\ conn[r].cursor = cursor[r]
  \/ /\ conn[r].pending = <<Head(conn[r].pending)>>
     /\ Head(conn[r].pending).lo = cursor[r]
     /\ Head(conn[r].pending).lo < Head(conn[r].pending).hi
     /\ Head(conn[r].pending).hi = conn[r].cursor

\* What a connection still holds: the backlog comes before the queue, has
\* no hole above the server's cursor, and unless the channel overran it the
\* two together reach the end of the output.
HoldingsInv(r) ==
  LET k == conn[r] IN
  /\ \A c \in k.backlog \cup k.queue : c.lo < c.hi /\ c.hi <= log.total
  /\ \A b \in k.backlog, q \in k.queue : b.hi <= q.lo
  /\ \A x \in 0..log.total :
       k.cursor <= x /\ (\E c \in k.backlog : x < c.hi) => Covers(k.backlog, x)
  /\ ~k.lagged =>
       \A x \in 0..log.total :
         k.cursor <= x /\ x < log.total => Covers(k.backlog \cup k.queue, x)

\* A connection that knows the exec is over knows the whole output.
FinishedInv(r) ==
  LET k == conn[r] IN
  /\ k.fin => waiter = "done"
  /\ ~yields /\ k.finished =>
       /\ terminal
       /\ \A x \in 0..log.total :
            k.cursor <= x /\ x < log.total => Covers(k.backlog, x)

ExitInv(r) == ~yields /\ pc[r] = "exit" => terminal /\ cursor[r] >= log.total

ConnInv(r) == /\ pc[r] \in Connected => PendingInv(r) /\ HoldingsInv(r) /\ FinishedInv(r)
              /\ ExitInv(r)

OutputInv == /\ RingExact
             /\ TerminalLast
             /\ \A r \in Reader : ConnInv(r)

\* Without suspensions no attach stops between its snapshot and the marker
\* and no pump stops between its read and its publish.
NoWindows ==
  ~yields => /\ \A r \in Reader : pc[r] # "snapshot"
             /\ \A s \in Stream : pump[s].held = 0

============================================================================
