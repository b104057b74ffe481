-------------------------- MODULE ExecOutputProofs --------------------------
(***************************************************************************)
(* Proofs about ExecOutput, for every set of readers and every size of the *)
(* ring, the channel and the head buffers.                                 *)
(***************************************************************************)
EXTENDS ExecOutput, TLAPS

(***************************************************************************)
(* The operators the actions are built from keep their types.              *)
(***************************************************************************)

LEMMA LargerType == ASSUME NEW a \in Nat, NEW b \in Nat
                    PROVE  Larger(a, b) \in Nat /\ Larger(a, b) >= a /\ Larger(a, b) >= b
  BY DEF Larger

LEMMA TrimType ==
  ASSUME NEW l \in LogState, NEW cap \in Nat
  PROVE  Trim(l, cap) \in LogState
<1>1. CASE l.retained <= cap
  BY <1>1 DEF Trim
<1>2. CASE l.retained > cap
  <2> DEFINE s == l.start + (l.retained - cap)
             R == {[lo |-> Larger(c.lo, s), hi |-> c.hi] : c \in {d \in l.ring : d.hi > s}}
  <2>1. s \in Nat
    BY <1>2 DEF LogState
  <2>2. R \in SUBSET Chunk
    BY <2>1, LargerType DEF LogState, Chunk
  <2>3. Trim(l, cap) = [ring |-> R, total |-> l.total, start |-> s, retained |-> cap]
    BY <1>2 DEF Trim, LogState
  <2> HIDE DEF R, s
  <2> QED
    BY <2>1, <2>2, <2>3 DEF LogState
<1> QED
  BY <1>1, <1>2 DEF LogState

LEMMA PushType ==
  ASSUME NEW l \in LogState, NEW n \in Nat
  PROVE  Push(l, n) \in LogState
<1> DEFINE R == l.ring \cup {[lo |-> l.total, hi |-> l.total + n]}
           m == [ring |-> R, total |-> l.total + n, start |-> l.start,
                 retained |-> l.retained + n]
<1>1. R \in SUBSET Chunk
  BY DEF LogState, Chunk
<1>2. m \in LogState
  <2> HIDE DEF R
  <2> QED BY <1>1 DEF LogState
<1> QED
  BY <1>2, TrimType, CapAssumption DEF Push

LEMMA SendType ==
  ASSUME NEW k \in ConnState, NEW c \in Chunk
  PROVE  SendChunk(k, c) \in ConnState /\ SendFinished(k) \in ConnState
  BY DEF SendChunk, SendFinished, ConnState

LEMMA TakeType ==
  ASSUME NEW k \in ConnState, NEW c \in Chunk
  PROVE  TakeChunk(k, c) \in ConnState
<1>1. TakeEvents(k.cursor, c) \in Seq(Event)
  <2> DEFINE gap    == [kind |-> "gap", lo |-> k.cursor, hi |-> c.lo]
             whole  == [kind |-> "output", lo |-> c.lo, hi |-> c.hi]
             suffix == [kind |-> "output", lo |-> k.cursor, hi |-> c.hi]
  <2>1. gap \in Event /\ whole \in Event /\ suffix \in Event
    BY DEF Event, Chunk, ConnState
  <2>2. TakeEvents(k.cursor, c) \in {<<>>, <<gap, whole>>, <<suffix>>}
    BY DEF TakeEvents
  <2>3. <<>> \in Seq(Event) /\ <<gap, whole>> \in Seq(Event) /\ <<suffix>> \in Seq(Event)
    <3> HIDE DEF gap, whole, suffix
    <3> QED BY <2>1
  <2> QED
    BY <2>2, <2>3
<1>2. Larger(k.cursor, c.hi) \in Nat
  BY LargerType DEF ConnState, Chunk
<1> QED
  BY <1>1, <1>2 DEF TakeChunk, ConnState

LEMMA SkipType ==
  ASSUME NEW k \in ConnState, NEW t \in Nat
  PROVE  SkipTo(k, t) \in ConnState
<1> DEFINE gap == [kind |-> "gap", lo |-> k.cursor, hi |-> t]
           m   == Larger(k.cursor, t)
           q   == IF t > k.cursor THEN <<gap>> ELSE <<>>
<1>1. gap \in Event
  BY DEF Event, ConnState
<1>2. q \in Seq(Event)
  <2> HIDE DEF gap
  <2> QED BY <1>1
<1>3. m \in Nat
  BY LargerType DEF ConnState
<1>4. SkipTo(k, t) = [k EXCEPT !.lagged = FALSE, !.cursor = m, !.pending = q]
  BY DEF SkipTo
<1> HIDE DEF m, q
<1> QED
  BY <1>2, <1>3, <1>4 DEF ConnState

LEMMA NoConnType == NoConn \in ConnState
  BY DEF NoConn, ConnState

LEMMA KeepType ==
  ASSUME NEW p \in PumpState, NEW n \in Nat
  PROVE  Keep(p, n) \in PumpState /\ Dropped(p) \in PumpState
<1> DEFINE b == IF p.buf + n <= OutputCap THEN p.buf + n ELSE OutputCap
           t == p.truncated \/ p.buf + n > OutputCap
<1>1. b \in Nat /\ t \in BOOLEAN
  BY CapAssumption DEF PumpState
<1>2. Keep(p, n) = [eof |-> p.eof, held |-> 0, buf |-> b, truncated |-> t]
  BY DEF Keep
<1> HIDE DEF b, t
<1>3. Keep(p, n) \in PumpState
  BY <1>1, <1>2 DEF PumpState
<1> QED
  BY <1>3 DEF Dropped, PumpState

LEMMA OtherType == ASSUME NEW s \in Stream PROVE Other(s) \in Stream /\ Other(s) # s
  BY DEF Other, Stream

LEMMA SinceType ==
  ASSUME NEW l \in LogState, NEW from \in Nat, NEW done \in BOOLEAN
  PROVE  [NoConn EXCEPT !.pending = SinceGap(l, from),
                        !.backlog = SinceFrames(l, from),
                        !.cursor = SinceCursor(l, from),
                        !.finished = done] \in ConnState
<1>1. SinceGap(l, from) \in Seq(Event)
  <2> DEFINE gap == [kind |-> "gap", lo |-> from, hi |-> l.start]
  <2>1. gap \in Event
    BY DEF Event, LogState
  <2>2. <<gap>> \in Seq(Event) /\ <<>> \in Seq(Event)
    <3> HIDE DEF gap
    <3> QED BY <2>1
  <2> QED
    BY <2>2 DEF SinceGap
<1>2. SinceFrames(l, from) \in SUBSET Chunk
  BY DEF SinceFrames, LogState
<1>3. SinceCursor(l, from) \in Nat
  BY LargerType DEF SinceCursor, LogState
<1> QED
  BY <1>1, <1>2, <1>3 DEF NoConn, ConnState

(***************************************************************************)
(* Type correctness.                                                       *)
(***************************************************************************)

LEMMA PublishType ==
  ASSUME TypeOK, NEW s \in Stream, NEW n \in Nat, PublishBytes(s, n)
  PROVE  log' \in LogState /\ conn' \in [Reader -> ConnState]
         /\ pump' \in [Stream -> PumpState]
<1>1. log' \in LogState
  BY PushType DEF PublishBytes, TypeOK
<1>2. [lo |-> log.total, hi |-> log.total + n] \in Chunk
  BY DEF TypeOK, LogState, Chunk
<1>3. conn' \in [Reader -> ConnState]
  BY <1>2, SendType DEF PublishBytes, Broadcast, TypeOK
<1>4. pump' \in [Stream -> PumpState]
  BY KeepType, OtherType DEF PublishBytes, TypeOK
<1> QED
  BY <1>1, <1>3, <1>4

LEMMA TypeStep == TypeOK /\ [Next]_vars => TypeOK'
<1> SUFFICES ASSUME TypeOK, [Next]_vars PROVE TypeOK'
  OBVIOUS
<1> USE DEF TypeOK
<1>1. ASSUME NEW s \in Stream, Write(s) PROVE TypeOK'
  BY <1>1 DEF Write, readerVars
<1>2. ASSUME NEW s \in Stream, CloseWriteEnd(s) PROVE TypeOK'
  BY <1>2 DEF CloseWriteEnd, readerVars
<1>3. CASE ChildExits
  BY <1>3 DEF ChildExits, readerVars
<1>4. ASSUME NEW s \in Stream, Pump(s) PROVE TypeOK'
  <2> PICK n \in 1..pipe[s] : pipe' = [pipe EXCEPT ![s] = @ - n] /\ PublishBytes(s, n)
    BY <1>4 DEF Pump
  <2>1. n \in Nat /\ pipe[s] - n \in Nat
    OBVIOUS
  <2>2. log' \in LogState /\ conn' \in [Reader -> ConnState] /\ pump' \in [Stream -> PumpState]
    BY <2>1, PublishType
  <2> QED
    BY <2>1, <2>2 DEF PublishBytes, readerVars
<1>5. ASSUME NEW s \in Stream, PumpSuspends(s) PROVE TypeOK'
  <2> PICK n \in 1..pipe[s] : /\ pipe' = [pipe EXCEPT ![s] = @ - n]
                              /\ pump' = [pump EXCEPT ![s].held = n]
    BY <1>5 DEF PumpSuspends
  <2>1. n \in Nat /\ pipe[s] - n \in Nat
    OBVIOUS
  <2>2. pump' \in [Stream -> PumpState]
    BY <2>1 DEF PumpState
  <2> QED
    BY <1>5, <2>1, <2>2 DEF PumpSuspends, readerVars
<1>6. ASSUME NEW s \in Stream, PumpResumes(s) PROVE TypeOK'
  <2>1. pump[s].held \in Nat
    BY DEF PumpState
  <2>2. log' \in LogState /\ conn' \in [Reader -> ConnState] /\ pump' \in [Stream -> PumpState]
    BY <1>6, <2>1, PublishType DEF PumpResumes
  <2> QED
    BY <1>6, <2>2 DEF PumpResumes, PublishBytes, readerVars
<1>7. ASSUME NEW s \in Stream, PumpEof(s) \/ PumpReadError(s) PROVE TypeOK'
  <2>0. \A p \in PumpState : AtEof(p) \in PumpState /\ Dropped(p) \in PumpState
    BY DEF PumpState, Dropped, AtEof
  <2>1. pump' \in [Stream -> PumpState]
    BY <1>7, <2>0, OtherType DEF PumpEof, PumpReadError
  <2> QED
    BY <1>7, <2>1 DEF PumpEof, PumpReadError, readerVars
<1>8. CASE ChildWaited \/ LingerExpires
  <2>0. \A p \in PumpState : Dropped(p) \in PumpState
    BY DEF PumpState, Dropped
  <2>1. pump' \in [Stream -> PumpState]
    BY <1>8, <2>0 DEF ChildWaited, LingerExpires
  <2> QED
    BY <1>8, <2>1 DEF ChildWaited, LingerExpires, WaiterStep, readerVars
<1>9. CASE Drained \/ SetTerminal
  BY <1>9 DEF Drained, SetTerminal, WaiterStep, readerVars
<1>10. CASE AnnounceFinished
  <2>1. conn' \in [Reader -> ConnState]
    <3>1. \A k \in ConnState : SendFinished(k) \in ConnState
      BY DEF SendFinished, ConnState
    <3> QED
      BY <1>10, <3>1 DEF AnnounceFinished, Broadcast
  <2> QED
    BY <1>10, <2>1 DEF AnnounceFinished, WaiterStep, readerVars
<1>11. ASSUME NEW r \in Reader, OpenStream(r) PROVE TypeOK'
  <2> PICK now \in BOOLEAN :
        /\ pc' = [pc EXCEPT ![r] = IF now THEN "attached" ELSE "snapshot"]
        /\ conn' = [conn EXCEPT ![r] =
             [NoConn EXCEPT !.pending = SinceGap(log, cursor[r]),
                            !.backlog = SinceFrames(log, cursor[r]),
                            !.cursor = SinceCursor(log, cursor[r]),
                            !.finished = now /\ terminal]]
    BY <1>11 DEF OpenStream
  <2>1. conn' \in [Reader -> ConnState]
    BY SinceType
  <2>2. pc' \in [Reader -> ReaderStep]
    BY DEF ReaderStep, Connected
  <2> QED
    BY <1>11, <2>1, <2>2 DEF OpenStream, waiterVars
<1>12. ASSUME NEW r \in Reader, ReadTerminal(r) PROVE TypeOK'
  BY <1>12 DEF ReadTerminal, waiterVars, ReaderStep, Connected, ConnState
<1>13. ASSUME NEW r \in Reader, Cut(r) \/ AttachFails(r) PROVE TypeOK'
  BY <1>13, NoConnType DEF Cut, AttachFails, LoseConnection, waiterVars, ReaderStep, Ended
<1>14. ASSUME NEW r \in Reader, StreamErrors(r) PROVE TypeOK'
  BY <1>14 DEF StreamErrors, waiterVars, ReaderStep, Ended
<1>15. ASSUME NEW r \in Reader, Deliver(r) PROVE TypeOK'
  <2> DEFINE e == Head(conn[r].pending)
  <2>1. conn[r].pending \in Seq(Event) /\ conn[r].pending # <<>>
    BY <1>15 DEF Deliver, ConnState
  <2>2. e \in Event /\ Tail(conn[r].pending) \in Seq(Event)
    BY <2>1
  <2>3. Larger(cursor[r], e.hi) \in Nat
    BY <2>2, LargerType DEF Event
  <2> HIDE DEF e
  <2>4. conn' \in [Reader -> ConnState]
    <3>1. [conn[r] EXCEPT !.pending = Tail(@)] \in ConnState
      BY <2>2 DEF ConnState
    <3> QED
      BY <1>15, <3>1, NoConnType DEF Deliver
  <2>5. pc' \in [Reader -> ReaderStep]
    BY <1>15 DEF Deliver, ReaderStep, Ended
  <2>6. cursor' \in [Reader -> Nat]
    BY <1>15, <2>3 DEF Deliver, e
  <2> QED
    BY <1>15, <2>4, <2>5, <2>6 DEF Deliver, waiterVars
<1>16. ASSUME NEW r \in Reader, Replay(r) PROVE TypeOK'
  <2> PICK c \in Oldest(conn[r].backlog) :
        conn' = [conn EXCEPT ![r] = TakeChunk([@ EXCEPT !.backlog = conn[r].backlog \ {c}], c)]
    BY <1>16 DEF Replay
  <2>1. c \in Chunk
    BY DEF Oldest, ConnState
  <2> DEFINE k == [conn[r] EXCEPT !.backlog = conn[r].backlog \ {c}]
  <2>2. TakeChunk(k, c) \in ConnState
    <3>1. k \in ConnState
      BY DEF ConnState
    <3> QED
      BY <2>1, <3>1, TakeType
  <2>3. conn' \in [Reader -> ConnState]
    BY <2>2
  <2> QED
    BY <1>16, <2>3 DEF Replay, waiterVars, readerVars
<1>17. ASSUME NEW r \in Reader, RecvChunk(r) PROVE TypeOK'
  <2> PICK c \in Oldest(conn[r].queue) :
        conn' = [conn EXCEPT ![r] = TakeChunk([@ EXCEPT !.queue = conn[r].queue \ {c}], c)]
    BY <1>17 DEF RecvChunk
  <2>1. c \in Chunk
    BY DEF Oldest, ConnState
  <2> DEFINE k == [conn[r] EXCEPT !.queue = conn[r].queue \ {c}]
  <2>2. TakeChunk(k, c) \in ConnState
    <3>1. k \in ConnState
      BY DEF ConnState
    <3> QED
      BY <2>1, <3>1, TakeType
  <2>3. conn' \in [Reader -> ConnState]
    BY <2>2
  <2> QED
    BY <1>17, <2>3 DEF RecvChunk, waiterVars, readerVars
<1>18. ASSUME NEW r \in Reader, RecvLagged(r) PROVE TypeOK'
  <2>1. log.total \in Nat
    BY DEF LogState
  <2>2. SkipTo(conn[r], log.total) \in ConnState
    BY <2>1, SkipType
  <2>3. conn' \in [Reader -> ConnState]
    BY <1>18, <2>2 DEF RecvLagged
  <2> QED
    BY <1>18, <2>3 DEF RecvLagged, waiterVars, readerVars
<1>19. ASSUME NEW r \in Reader, ExitAttachedLate(r) \/ RecvFinished(r) PROVE TypeOK'
  BY <1>19, NoConnType DEF ExitAttachedLate, RecvFinished, Exit, waiterVars, ReaderStep, Ended
<1>20. CASE UNCHANGED vars
  BY <1>20 DEF vars, waiterVars, readerVars
<1> QED
  BY <1>1, <1>2, <1>3, <1>4, <1>5, <1>6, <1>7, <1>8, <1>9, <1>10, <1>11, <1>12, <1>13,
     <1>14, <1>15, <1>16, <1>17, <1>18, <1>19, <1>20
     DEF Next, Environment, WaiterTask, PumpStep, Connection, Network

LEMMA TypeInit == Init => TypeOK
<1>1. NewPump \in PumpState /\ EmptyLog \in LogState
  BY DEF NewPump, PumpState, EmptyLog, LogState
<1> SUFFICES ASSUME Init PROVE TypeOK
  OBVIOUS
<1>2. cursor \in [Reader -> Nat] /\ attempts \in [Reader -> Nat]
  BY OptionsAssumption DEF Init
<1>3. conn \in [Reader -> ConnState] /\ pc \in [Reader -> ReaderStep]
  BY NoConnType DEF Init, ReaderStep
<1>4. pipe \in [Stream -> Nat] /\ open \in [Stream -> BOOLEAN] /\ pump \in [Stream -> PumpState]
  BY <1>1 DEF Init
<1> QED
  BY <1>1, <1>2, <1>3, <1>4 DEF Init, TypeOK, WaiterStep

\* Every variable of the output path keeps its type in every behavior.
THEOREM TypeCorrect == Spec => []TypeOK
  BY TypeInit, TypeStep, PTL DEF Spec

(***************************************************************************)
(* The replay window.                                                      *)
(***************************************************************************)

\* Trimming an exact window leaves an exact window of at most cap bytes with
\* the same end.
LEMMA TrimWindow ==
  ASSUME NEW l \in LogState, NEW cap \in Nat, ExactWindow(l)
  PROVE  /\ ExactWindow(Trim(l, cap))
         /\ Trim(l, cap).retained <= cap
         /\ Trim(l, cap).total = l.total
<1>1. CASE l.retained <= cap
  BY <1>1 DEF Trim
<1>2. CASE l.retained > cap
  <2> DEFINE s == l.start + (l.retained - cap)
             R == {[lo |-> Larger(c.lo, s), hi |-> c.hi] : c \in {d \in l.ring : d.hi > s}}
             t == Trim(l, cap)
  <2>1. s \in Nat /\ l.start <= s /\ s + cap = l.total
    BY <1>2 DEF LogState, ExactWindow
  <2>2. t = [ring |-> R, total |-> l.total, start |-> s, retained |-> cap]
    BY <1>2 DEF Trim, LogState
  <2>3. \A c \in R : s <= c.lo /\ c.lo < c.hi /\ c.hi <= l.total
    BY <2>1 DEF LogState, Chunk, Larger, ExactWindow
  <2>4. ASSUME NEW x \in 0..l.total, s <= x, x < l.total PROVE Covers(R, x)
    <3>1. l.start <= x
      BY <2>1, <2>4 DEF LogState
    <3>2. PICK d \in l.ring : d.lo <= x /\ x < d.hi
      BY <2>4, <3>1 DEF ExactWindow, Covers
    <3>3. d \in Chunk /\ d.hi > s
      BY <2>1, <2>4, <3>2 DEF LogState, Chunk
    <3>4. [lo |-> Larger(d.lo, s), hi |-> d.hi] \in R
      BY <3>3
    <3>5. Larger(d.lo, s) <= x
      BY <2>1, <2>4, <3>2, <3>3 DEF Larger, Chunk
    <3> QED
      BY <3>2, <3>4, <3>5 DEF Covers
  <2> HIDE DEF R, s
  <2>5. t.ring = R /\ t.total = l.total /\ t.start = s /\ t.retained = cap
    BY <2>2
  <2> HIDE DEF t
  <2>6. ExactWindow(t)
    BY <2>1, <2>3, <2>4, <2>5 DEF ExactWindow
  <2> QED
    BY <2>5, <2>6 DEF t
<1> QED
  BY <1>1, <1>2 DEF LogState

\* Publishing n bytes keeps the window exact and moves its end by n.
LEMMA PushWindow ==
  ASSUME NEW l \in LogState, NEW n \in Nat \ {0}, ExactWindow(l)
  PROVE  /\ ExactWindow(Push(l, n))
         /\ Push(l, n).retained <= BufferCap
         /\ Push(l, n).total = l.total + n
<1> DEFINE c == [lo |-> l.total, hi |-> l.total + n]
           R == l.ring \cup {c}
           m == [ring |-> R, total |-> l.total + n, start |-> l.start,
                 retained |-> l.retained + n]
<1>1. c \in Chunk /\ c.lo = l.total /\ c.hi = l.total + n
  BY DEF LogState, Chunk
<1>2. R \in SUBSET Chunk
  BY <1>1 DEF LogState
<1>3. m \in LogState
  <2> HIDE DEF R
  <2> QED BY <1>2 DEF LogState
<1>4. ExactWindow(m)
  <2> HIDE DEF c
  <2>1. m.start + m.retained = m.total
    BY DEF ExactWindow, LogState
  <2>2. \A d \in R : l.start <= d.lo /\ d.lo < d.hi /\ d.hi <= l.total + n
    BY <1>1, <1>2 DEF ExactWindow, LogState, Chunk
  <2>3. ASSUME NEW x \in 0..(l.total + n), l.start <= x, x < l.total + n
        PROVE  Covers(R, x)
    <3>1. CASE x < l.total
      <4>1. x \in 0..l.total
        BY <3>1 DEF LogState
      <4> QED
        BY <2>3, <3>1, <4>1 DEF ExactWindow, Covers
    <3>2. CASE ~(x < l.total)
      BY <1>1, <2>3, <3>2 DEF Covers, LogState
    <3> QED
      BY <3>1, <3>2
  <2> HIDE DEF R
  <2> QED
    BY <2>1, <2>2, <2>3 DEF ExactWindow
<1> HIDE DEF m
<1>5. Push(l, n) = Trim(m, BufferCap)
  BY DEF Push, m
<1>6. m.total = l.total + n
  BY DEF m
<1> QED
  BY <1>3, <1>4, <1>5, <1>6, TrimWindow, CapAssumption

(***************************************************************************)
(* The live channel and the events of a connection.                        *)
(***************************************************************************)

\* A send touches only the queue; a receiver that is not told it lagged has
\* lost nothing.
LEMMA SendFacts ==
  ASSUME NEW k \in ConnState, NEW c \in Chunk
  PROVE  LET h == SendChunk(k, c)
             f == SendFinished(k)
         IN /\ h.pending = k.pending /\ h.backlog = k.backlog /\ h.cursor = k.cursor
            /\ h.finished = k.finished /\ h.fin = k.fin
            /\ h.queue \subseteq k.queue \cup {c}
            /\ ~h.lagged => ~k.lagged /\ h.queue = k.queue \cup {c}
            /\ f.pending = k.pending /\ f.backlog = k.backlog /\ f.cursor = k.cursor
            /\ f.finished = k.finished
            /\ f.queue \subseteq k.queue
            /\ ~f.lagged => ~k.lagged /\ f.queue = k.queue
<1>1. CASE Full(k.queue)
  BY <1>1 DEF SendChunk, SendFinished, ConnState
<1>2. CASE ~Full(k.queue)
  BY <1>2 DEF SendChunk, SendFinished, ConnState
<1> QED
  BY <1>1, <1>2

\* Taking a chunk that does not lie beyond the cursor yields at most one
\* event, which joins the old cursor to the new one.
LEMMA TakeFacts ==
  ASSUME NEW k \in ConnState, NEW c \in Chunk, c.hi <= k.cursor \/ c.lo <= k.cursor
  PROVE  LET t == TakeChunk(k, c)
         IN /\ t.backlog = k.backlog /\ t.queue = k.queue /\ t.finished = k.finished
            /\ t.fin = k.fin /\ t.lagged = k.lagged
            /\ t.cursor = Larger(k.cursor, c.hi)
            /\ \/ t.pending = <<>> /\ t.cursor = k.cursor
               \/ /\ t.pending = <<Head(t.pending)>>
                  /\ Head(t.pending).lo = k.cursor
                  /\ Head(t.pending).lo < Head(t.pending).hi
                  /\ Head(t.pending).hi = t.cursor
<1> DEFINE t == TakeChunk(k, c)
           e == [kind |-> "output", lo |-> k.cursor, hi |-> c.hi]
<1>1. /\ t.backlog = k.backlog /\ t.queue = k.queue /\ t.finished = k.finished
      /\ t.fin = k.fin /\ t.lagged = k.lagged
      /\ t.cursor = Larger(k.cursor, c.hi)
      /\ t.pending = TakeEvents(k.cursor, c)
  BY DEF TakeChunk, ConnState
<1>2. CASE c.hi <= k.cursor
  <2>1. t.pending = <<>>
    BY <1>1, <1>2 DEF TakeEvents
  <2>2. t.cursor = k.cursor
    BY <1>1, <1>2 DEF Larger, ConnState, Chunk
  <2> QED
    BY <1>1, <2>1, <2>2
<1>3. CASE ~(c.hi <= k.cursor)
  <2>1. t.pending = <<e>>
    BY <1>1, <1>3 DEF TakeEvents, ConnState, Chunk
  <2>2. Head(t.pending) = e
    <3> HIDE DEF e
    <3> QED BY <2>1
  <2>3. t.cursor = c.hi /\ e.lo = k.cursor /\ e.hi = c.hi /\ k.cursor < c.hi
    BY <1>1, <1>3 DEF Larger, ConnState, Chunk
  <2> HIDE DEF e, t
  <2> QED
    BY <1>1, <2>1, <2>2, <2>3 DEF t
<1> QED
  BY <1>2, <1>3

(***************************************************************************)
(* The inductive invariant is preserved.                                   *)
(***************************************************************************)

LEMMA SameConn ==
  ASSUME NEW r \in Reader, ConnInv(r), pc'[r] = pc[r], cursor'[r] = cursor[r],
         conn'[r] = conn[r], log' = log, waiter' = waiter, terminal' = terminal,
         yields' = yields
  PROVE  ConnInv(r)'
  BY DEF ConnInv, PendingInv, HoldingsInv, FinishedInv, ExitInv

\* A step of one reader: the rest of the invariant is untouched.
LEMMA ReaderOnly ==
  ASSUME OutputInv, NEW r \in Reader, UNCHANGED <<waiterVars, log>>, ConnInv(r)',
         \A q \in Reader \ {r} : pc'[q] = pc[q] /\ cursor'[q] = cursor[q] /\ conn'[q] = conn[q]
  PROVE  OutputInv'
<1>1. (RingExact /\ TerminalLast)'
  BY DEF OutputInv, RingExact, ExactWindow, TerminalLast, waiterVars
<1>2. ASSUME NEW q \in Reader PROVE ConnInv(q)'
  <2>1. CASE q = r
    BY <2>1
  <2>2. CASE q # r
    <3>1. ConnInv(q)
      BY DEF OutputInv
    <3> QED
      BY <2>2, <3>1, SameConn DEF waiterVars
  <2> QED
    BY <2>1, <2>2
<1> QED
  BY <1>1, <1>2 DEF OutputInv

\* A step of the processes or of the waiter that publishes nothing and sets
\* no marker.
LEMMA QuietStep ==
  ASSUME OutputInv, UNCHANGED <<log, readerVars, conn, yields, terminal>>,
         waiter' = waiter \/ (waiter \notin {"finish", "done"} /\ waiter' \notin {"finish", "done"})
  PROVE  OutputInv'
<1>1. (RingExact /\ TerminalLast)'
  BY DEF OutputInv, RingExact, ExactWindow, TerminalLast
<1>2. ASSUME NEW q \in Reader PROVE ConnInv(q)'
  <2>1. ConnInv(q)
    BY DEF OutputInv
  <2>2. PendingInv(q) => PendingInv(q)'
    BY DEF PendingInv, readerVars
  <2>3. HoldingsInv(q) => HoldingsInv(q)'
    BY DEF HoldingsInv
  <2>4. FinishedInv(q) => FinishedInv(q)'
    BY DEF FinishedInv
  <2>5. ExitInv(q)'
    BY <2>1 DEF ConnInv, ExitInv, readerVars
  <2> QED
    BY <2>1, <2>2, <2>3, <2>4, <2>5 DEF ConnInv, readerVars
<1> QED
  BY <1>1, <1>2 DEF OutputInv

LEMMA PublishInv ==
  ASSUME TypeOK, OutputInv, NEW s \in Stream, NEW n \in Nat \ {0}, PublishBytes(s, n),
         waiter \in {"wait", "linger"}
  PROVE  OutputInv'
<1> DEFINE c == [lo |-> log.total, hi |-> log.total + n]
<1>1. log \in LogState /\ log.total \in Nat /\ c \in Chunk
      /\ c.lo = log.total /\ c.hi = log.total + n
  BY DEF TypeOK, LogState, Chunk
<1>2. RingExact' /\ log'.total = log.total + n
  BY <1>1, PushWindow DEF PublishBytes, OutputInv, RingExact
<1>3. TerminalLast' /\ ~terminal
  BY DEF OutputInv, TerminalLast, PublishBytes
<1>4. ASSUME NEW r \in Reader PROVE ConnInv(r)'
  <2>1. ConnInv(r) /\ pc'[r] = pc[r] /\ cursor'[r] = cursor[r] /\ yields' = yields
        /\ terminal' = terminal /\ waiter' = waiter
    BY DEF OutputInv, PublishBytes, readerVars
  <2>2. ExitInv(r)'
    BY <1>3, <2>1 DEF ConnInv, ExitInv
  <2>3. ASSUME pc[r] \in Connected PROVE (PendingInv(r) /\ HoldingsInv(r) /\ FinishedInv(r))'
    <3> DEFINE k == conn[r]
               h == conn'[r]
    <3>1. h = SendChunk(k, c)
      BY <2>3 DEF PublishBytes, Broadcast
    <3>2. k \in ConnState
      BY DEF TypeOK
    <3>3. /\ h.pending = k.pending /\ h.backlog = k.backlog /\ h.cursor = k.cursor
          /\ h.finished = k.finished /\ h.fin = k.fin
          /\ h.queue \subseteq k.queue \cup {c}
          /\ ~h.lagged => ~k.lagged /\ h.queue = k.queue \cup {c}
      BY <1>1, <3>1, <3>2, SendFacts
    <3>4. PendingInv(r)'
      BY <2>1, <2>3, <3>3 DEF ConnInv, PendingInv
    <3>5. FinishedInv(r)'
      BY <1>3, <2>1, <2>3, <3>3 DEF ConnInv, FinishedInv
    <3>6. HoldingsInv(r)
      BY <2>1, <2>3 DEF ConnInv
    <3>7. /\ k.backlog \subseteq Chunk /\ k.queue \subseteq Chunk /\ k.cursor \in Nat
      BY <3>2 DEF ConnState
    <3> HIDE DEF h, k, c
    <3>8. \A d \in h.backlog \cup h.queue : d.lo < d.hi /\ d.hi <= log'.total
      BY <1>1, <1>2, <3>3, <3>6, <3>7 DEF HoldingsInv, k, Chunk
    <3>9. \A b \in h.backlog, q \in h.queue : b.hi <= q.lo
      BY <1>1, <3>3, <3>6, <3>7 DEF HoldingsInv, k, Chunk
    <3>10. ASSUME NEW x \in 0..log'.total, h.cursor <= x, \E d \in h.backlog : x < d.hi
           PROVE  Covers(h.backlog, x)
      <4>1. PICK d \in h.backlog : x < d.hi
        BY <3>10
      <4>2. x \in 0..log.total
        BY <1>1, <1>2, <3>3, <3>6, <3>7, <4>1 DEF HoldingsInv, k, Chunk
      <4> QED
        BY <3>3, <3>6, <3>10, <4>2 DEF HoldingsInv, k
    <3>11. ASSUME ~h.lagged, NEW x \in 0..log'.total, h.cursor <= x, x < log'.total
           PROVE  Covers(h.backlog \cup h.queue, x)
      <4>1. CASE x < log.total
        <5>1. x \in 0..log.total
          BY <1>1, <4>1
        <5>2. Covers(k.backlog \cup k.queue, x)
          BY <3>3, <3>6, <3>11, <4>1, <5>1 DEF HoldingsInv, k
        <5> QED
          BY <3>3, <3>11, <5>2 DEF Covers
      <4>2. CASE ~(x < log.total)
        BY <1>1, <1>2, <3>3, <3>11, <4>2 DEF Covers
      <4> QED
        BY <4>1, <4>2
    <3>12. HoldingsInv(r)'
      BY <3>8, <3>9, <3>10, <3>11 DEF HoldingsInv, h
    <3> QED
      BY <3>4, <3>5, <3>12
  <2> QED
    BY <2>1, <2>2, <2>3 DEF ConnInv
<1> QED
  BY <1>2, <1>3, <1>4 DEF OutputInv

LEMMA ReplayInv ==
  ASSUME TypeOK, OutputInv, NEW r \in Reader, Replay(r)
  PROVE  OutputInv'
<1> DEFINE k == conn[r]
           h == conn'[r]
<1>1. PICK c \in Oldest(k.backlog) :
        conn' = [conn EXCEPT ![r] = TakeChunk([@ EXCEPT !.backlog = k.backlog \ {c}], c)]
  BY DEF Replay
<1> DEFINE m == [k EXCEPT !.backlog = k.backlog \ {c}]
<1>2. k \in ConnState /\ c \in k.backlog /\ c \in Chunk /\ log.total \in Nat
      /\ \A d \in k.backlog : c.lo <= d.lo
  BY <1>1 DEF TypeOK, ConnState, LogState, Oldest
<1>3. /\ m \in ConnState /\ m.cursor = k.cursor /\ m.backlog = k.backlog \ {c}
      /\ m.queue = k.queue /\ m.finished = k.finished /\ m.fin = k.fin
      /\ m.lagged = k.lagged
  BY <1>2 DEF ConnState
<1>4. h = TakeChunk(m, c)
  BY <1>1 DEF TypeOK
<1>5. /\ pc[r] = "attached" /\ k.pending = <<>>
  BY DEF Replay, Receives, StreamPolled
<1>6. PendingInv(r) /\ HoldingsInv(r) /\ FinishedInv(r)
  BY <1>5 DEF OutputInv, ConnInv, Connected
<1>7. /\ k.backlog \subseteq Chunk /\ k.queue \subseteq Chunk /\ k.cursor \in Nat
      /\ c.lo \in Nat /\ c.hi \in Nat
  BY <1>2 DEF ConnState, Chunk
<1>8. c.hi <= m.cursor \/ c.lo <= m.cursor
  <2> SUFFICES ASSUME k.cursor < c.hi PROVE c.lo <= k.cursor
    BY <1>3, <1>7
  <2>1. k.cursor \in 0..log.total
    BY <1>2, <1>6, <1>7 DEF HoldingsInv
  <2>2. PICK d \in k.backlog : d.lo <= k.cursor
    BY <1>2, <1>6, <1>7, <2>1 DEF HoldingsInv, Covers
  <2>3. d.lo \in Nat /\ c.lo <= d.lo
    BY <1>2, <1>7 DEF Chunk
  <2> QED
    BY <1>7, <2>2, <2>3
<1>9. /\ h.backlog = k.backlog \ {c} /\ h.queue = k.queue /\ h.finished = k.finished
      /\ h.fin = k.fin /\ h.lagged = k.lagged /\ h.cursor = Larger(k.cursor, c.hi)
      /\ \/ h.pending = <<>> /\ h.cursor = k.cursor
         \/ /\ h.pending = <<Head(h.pending)>>
            /\ Head(h.pending).lo = k.cursor
            /\ Head(h.pending).lo < Head(h.pending).hi
            /\ Head(h.pending).hi = h.cursor
  <2> HIDE DEF h, k, m
  <2> QED BY <1>2, <1>3, <1>4, <1>8, TakeFacts
<1>10. h.cursor \in Nat /\ h.cursor >= k.cursor /\ h.cursor >= c.hi
  BY <1>7, <1>9, LargerType
<1>11. /\ UNCHANGED <<waiterVars, log, readerVars>>
       /\ \A q \in Reader \ {r} : conn'[q] = conn[q]
  BY <1>1 DEF Replay, TypeOK
<1>12. k.cursor = cursor[r]
  BY <1>5, <1>6 DEF PendingInv
<1> HIDE DEF h, k, m
<1>13. PendingInv(r)'
  BY <1>9, <1>11, <1>12 DEF PendingInv, h, readerVars
<1>14. HoldingsInv(r)'
  <2>1. \A d \in h.backlog \cup h.queue : d.lo < d.hi /\ d.hi <= log.total
    BY <1>6, <1>9 DEF HoldingsInv, k
  <2>2. \A b \in h.backlog, q \in h.queue : b.hi <= q.lo
    BY <1>6, <1>9 DEF HoldingsInv, k
  <2>3. ASSUME NEW x \in 0..log.total, h.cursor <= x, \E d \in h.backlog : x < d.hi
        PROVE  Covers(h.backlog, x)
    <3>1. k.cursor <= x /\ ~(x < c.hi)
      BY <1>2, <1>7, <1>10, <2>3
    <3>2. Covers(k.backlog, x)
      BY <1>6, <1>9, <2>3, <3>1 DEF HoldingsInv, k
    <3> QED
      BY <1>9, <3>1, <3>2 DEF Covers
  <2>4. ASSUME ~h.lagged, NEW x \in 0..log.total, h.cursor <= x, x < log.total
        PROVE  Covers(h.backlog \cup h.queue, x)
    <3>1. k.cursor <= x /\ ~(x < c.hi)
      BY <1>2, <1>7, <1>10, <2>4
    <3>2. Covers(k.backlog \cup k.queue, x)
      BY <1>6, <1>9, <2>4, <3>1 DEF HoldingsInv, k
    <3> QED
      BY <1>9, <3>1, <3>2 DEF Covers
  <2> QED
    BY <1>11, <2>1, <2>2, <2>3, <2>4 DEF HoldingsInv, h
<1>15. FinishedInv(r)'
  <2>1. h.fin => waiter = "done"
    BY <1>6, <1>9 DEF FinishedInv, k
  <2>2. ASSUME ~yields, h.finished PROVE terminal
    BY <1>6, <1>9, <2>2 DEF FinishedInv, k
  <2>3. ASSUME ~yields, h.finished, NEW x \in 0..log.total, h.cursor <= x, x < log.total
        PROVE  Covers(h.backlog, x)
    <3>1. k.cursor <= x /\ ~(x < c.hi)
      BY <1>2, <1>7, <1>10, <2>3
    <3>2. Covers(k.backlog, x)
      BY <1>6, <1>9, <2>3, <3>1 DEF FinishedInv, k
    <3> QED
      BY <1>9, <3>1, <3>2 DEF Covers
  <2> QED
    BY <1>11, <2>1, <2>2, <2>3 DEF FinishedInv, h, waiterVars
<1>16. ExitInv(r)'
  BY <1>5, <1>11 DEF ExitInv, readerVars
<1>17. ConnInv(r)'
  BY <1>13, <1>14, <1>15, <1>16 DEF ConnInv
<1> QED
  BY <1>11, <1>17, ReaderOnly DEF readerVars

LEMMA RecvChunkInv ==
  ASSUME TypeOK, OutputInv, NEW r \in Reader, RecvChunk(r)
  PROVE  OutputInv'
<1> DEFINE k == conn[r]
           h == conn'[r]
<1>1. PICK c \in Oldest(k.queue) :
        conn' = [conn EXCEPT ![r] = TakeChunk([@ EXCEPT !.queue = k.queue \ {c}], c)]
  BY DEF RecvChunk
<1> DEFINE m == [k EXCEPT !.queue = k.queue \ {c}]
<1>2. k \in ConnState /\ c \in k.queue /\ c \in Chunk /\ log.total \in Nat
      /\ \A d \in k.queue : c.lo <= d.lo
  BY <1>1 DEF TypeOK, ConnState, LogState, Oldest
<1>3. /\ m \in ConnState /\ m.cursor = k.cursor /\ m.queue = k.queue \ {c}
      /\ m.backlog = k.backlog /\ m.finished = k.finished /\ m.fin = k.fin
      /\ m.lagged = k.lagged
  BY <1>2 DEF ConnState
<1>4. h = TakeChunk(m, c)
  BY <1>1 DEF TypeOK
<1>5. /\ pc[r] = "attached" /\ k.pending = <<>> /\ k.backlog = {} /\ ~k.finished /\ ~k.lagged
  BY DEF RecvChunk, Receives, StreamPolled
<1>6. PendingInv(r) /\ HoldingsInv(r) /\ FinishedInv(r)
  BY <1>5 DEF OutputInv, ConnInv, Connected
<1>7. /\ k.backlog \subseteq Chunk /\ k.queue \subseteq Chunk /\ k.cursor \in Nat
      /\ c.lo \in Nat /\ c.hi \in Nat
  BY <1>2 DEF ConnState, Chunk
<1>8. c.hi <= m.cursor \/ c.lo <= m.cursor
  <2> SUFFICES ASSUME k.cursor < c.hi PROVE c.lo <= k.cursor
    BY <1>3, <1>7
  <2>1. k.cursor \in 0..log.total /\ k.cursor < log.total
    BY <1>2, <1>6, <1>7 DEF HoldingsInv
  <2>2. PICK d \in k.backlog \cup k.queue : d.lo <= k.cursor
    BY <1>5, <1>6, <1>7, <2>1 DEF HoldingsInv, Covers
  <2>3. d.lo \in Nat /\ c.lo <= d.lo
    BY <1>2, <1>5, <1>7 DEF Chunk
  <2> QED
    BY <1>7, <2>2, <2>3
<1>9. /\ h.queue = k.queue \ {c} /\ h.backlog = k.backlog /\ h.finished = k.finished
      /\ h.fin = k.fin /\ h.lagged = k.lagged /\ h.cursor = Larger(k.cursor, c.hi)
      /\ \/ h.pending = <<>> /\ h.cursor = k.cursor
         \/ /\ h.pending = <<Head(h.pending)>>
            /\ Head(h.pending).lo = k.cursor
            /\ Head(h.pending).lo < Head(h.pending).hi
            /\ Head(h.pending).hi = h.cursor
  <2> HIDE DEF h, k, m
  <2> QED BY <1>2, <1>3, <1>4, <1>8, TakeFacts
<1>10. h.cursor \in Nat /\ h.cursor >= k.cursor /\ h.cursor >= c.hi
  BY <1>7, <1>9, LargerType
<1>11. /\ UNCHANGED <<waiterVars, log, readerVars>>
       /\ \A q \in Reader \ {r} : conn'[q] = conn[q]
  BY <1>1 DEF RecvChunk, TypeOK
<1>12. k.cursor = cursor[r]
  BY <1>5, <1>6 DEF PendingInv
<1> HIDE DEF h, k, m
<1>13. PendingInv(r)'
  BY <1>9, <1>11, <1>12 DEF PendingInv, h, readerVars
<1>14. HoldingsInv(r)'
  <2>1. \A d \in h.backlog \cup h.queue : d.lo < d.hi /\ d.hi <= log.total
    BY <1>6, <1>9 DEF HoldingsInv, k
  <2>2. \A b \in h.backlog, q \in h.queue : b.hi <= q.lo
    BY <1>6, <1>9 DEF HoldingsInv, k
  <2>3. ASSUME NEW x \in 0..log.total, h.cursor <= x, \E d \in h.backlog : x < d.hi
        PROVE  Covers(h.backlog, x)
    <3>1. k.cursor <= x /\ ~(x < c.hi)
      BY <1>2, <1>7, <1>10, <2>3
    <3>2. Covers(k.backlog, x)
      BY <1>6, <1>9, <2>3, <3>1 DEF HoldingsInv, k
    <3> QED
      BY <1>9, <3>1, <3>2 DEF Covers
  <2>4. ASSUME ~h.lagged, NEW x \in 0..log.total, h.cursor <= x, x < log.total
        PROVE  Covers(h.backlog \cup h.queue, x)
    <3>1. k.cursor <= x /\ ~(x < c.hi)
      BY <1>2, <1>7, <1>10, <2>4
    <3>2. Covers(k.backlog \cup k.queue, x)
      BY <1>6, <1>9, <2>4, <3>1 DEF HoldingsInv, k
    <3> QED
      BY <1>9, <3>1, <3>2 DEF Covers
  <2> QED
    BY <1>11, <2>1, <2>2, <2>3, <2>4 DEF HoldingsInv, h
<1>15. FinishedInv(r)'
  <2>1. h.fin => waiter = "done"
    BY <1>6, <1>9 DEF FinishedInv, k
  <2>2. ASSUME ~yields, h.finished PROVE terminal
    BY <1>6, <1>9, <2>2 DEF FinishedInv, k
  <2>3. ASSUME ~yields, h.finished, NEW x \in 0..log.total, h.cursor <= x, x < log.total
        PROVE  Covers(h.backlog, x)
    <3>1. k.cursor <= x /\ ~(x < c.hi)
      BY <1>2, <1>7, <1>10, <2>3
    <3>2. Covers(k.backlog, x)
      BY <1>6, <1>9, <2>3, <3>1 DEF FinishedInv, k
    <3> QED
      BY <1>9, <3>1, <3>2 DEF Covers
  <2> QED
    BY <1>11, <2>1, <2>2, <2>3 DEF FinishedInv, h, waiterVars
<1>16. ExitInv(r)'
  BY <1>5, <1>11 DEF ExitInv, readerVars
<1>17. ConnInv(r)'
  BY <1>13, <1>14, <1>15, <1>16 DEF ConnInv
<1> QED
  BY <1>11, <1>17, ReaderOnly DEF readerVars

LEMMA RecvLaggedInv ==
  ASSUME TypeOK, OutputInv, NEW r \in Reader, RecvLagged(r)
  PROVE  OutputInv'
<1> DEFINE k == conn[r]
           h == conn'[r]
           g == [kind |-> "gap", lo |-> k.cursor, hi |-> log.total]
<1>1. k \in ConnState /\ k.cursor \in Nat /\ log.total \in Nat
  BY DEF TypeOK, ConnState, LogState
<1>2. h = SkipTo(k, log.total)
  BY DEF RecvLagged, TypeOK
<1>3. /\ h.backlog = k.backlog /\ h.queue = k.queue /\ h.finished = k.finished
      /\ h.fin = k.fin /\ h.cursor = Larger(k.cursor, log.total)
      /\ h.pending = IF log.total > k.cursor THEN <<g>> ELSE <<>>
  BY <1>1, <1>2 DEF SkipTo, ConnState
<1>4. h.cursor \in Nat /\ h.cursor >= log.total
  BY <1>1, <1>3, LargerType
<1>5. pc[r] = "attached" /\ k.pending = <<>> /\ k.backlog = {} /\ ~k.finished
  BY DEF RecvLagged, Receives, StreamPolled
<1>6. PendingInv(r) /\ HoldingsInv(r) /\ FinishedInv(r) /\ k.cursor = cursor[r]
  BY <1>5 DEF OutputInv, ConnInv, Connected, PendingInv
<1>7. /\ UNCHANGED <<waiterVars, log, readerVars>>
      /\ \A q \in Reader \ {r} : conn'[q] = conn[q]
  BY DEF RecvLagged, TypeOK
<1>8. \/ h.pending = <<>> /\ h.cursor = k.cursor
      \/ h.pending = <<g>> /\ g.lo = k.cursor /\ g.lo < g.hi /\ g.hi = h.cursor
  BY <1>1, <1>3 DEF Larger
<1> HIDE DEF h, k, g
<1>9. PendingInv(r)'
  <2>1. CASE h.pending = <<>>
    BY <1>6, <1>7, <1>8, <2>1 DEF PendingInv, h, readerVars
  <2>2. CASE h.pending = <<g>> /\ g.lo = k.cursor /\ g.lo < g.hi /\ g.hi = h.cursor
    <3>1. Head(h.pending) = g
      BY <2>2
    <3> QED
      BY <1>6, <1>7, <2>2, <3>1 DEF PendingInv, h, readerVars
  <2> QED
    BY <1>8, <2>1, <2>2
<1>10. HoldingsInv(r)'
  <2>1. \A x \in 0..log.total : h.cursor <= x => ~(x < log.total)
    BY <1>1, <1>4
  <2>2. /\ \A d \in h.backlog \cup h.queue : d.lo < d.hi /\ d.hi <= log.total
        /\ h.backlog = {}
    BY <1>3, <1>5, <1>6 DEF HoldingsInv, k
  <2> QED
    BY <1>7, <2>1, <2>2 DEF HoldingsInv, h
<1>11. FinishedInv(r)'
  BY <1>3, <1>5, <1>6, <1>7 DEF FinishedInv, h, k, waiterVars
<1>12. ExitInv(r)'
  BY <1>5, <1>7 DEF ExitInv, readerVars
<1>13. ConnInv(r)'
  BY <1>9, <1>10, <1>11, <1>12 DEF ConnInv
<1> QED
  BY <1>7, <1>13, ReaderOnly DEF readerVars

LEMMA DeliverInv ==
  ASSUME TypeOK, OutputInv, NEW r \in Reader, Deliver(r)
  PROVE  OutputInv'
<1> DEFINE k == conn[r]
           h == conn'[r]
           e == Head(k.pending)
<1>1. /\ UNCHANGED <<waiterVars, log>>
      /\ \A q \in Reader \ {r} : pc'[q] = pc[q] /\ cursor'[q] = cursor[q] /\ conn'[q] = conn[q]
  BY DEF Deliver, TypeOK
<1>2. pc[r] = "attached" /\ k.pending # <<>> /\ k \in ConnState /\ cursor[r] \in Nat
      /\ k.cursor \in Nat
  BY DEF Deliver, TypeOK, ConnState
<1>3. PendingInv(r) /\ HoldingsInv(r) /\ FinishedInv(r)
  BY <1>2 DEF OutputInv, ConnInv, Connected
<1>4. k.pending = <<e>> /\ e.lo = cursor[r] /\ e.lo < e.hi /\ e.hi = k.cursor
  BY <1>2, <1>3 DEF PendingInv
<1>5. cursor'[r] = k.cursor
  BY <1>2, <1>4 DEF Deliver, TypeOK, Larger
<1>6. CASE e.kind = "gap" /\ options[r].errorOnGap
  <2>1. pc'[r] = "error"
    BY <1>6 DEF Deliver, TypeOK
  <2>2. ConnInv(r)'
    BY <2>1 DEF ConnInv, Connected, ExitInv
  <2> QED
    BY <1>1, <2>2, ReaderOnly
<1>7. CASE ~(e.kind = "gap" /\ options[r].errorOnGap)
  <2>1. h = [k EXCEPT !.pending = Tail(k.pending)] /\ pc' = pc
    BY <1>7 DEF Deliver, TypeOK
  <2>2. Tail(k.pending) = <<>>
    <3> HIDE DEF e, k
    <3> QED BY <1>4
  <2>3. /\ h.pending = <<>> /\ h.cursor = k.cursor /\ h.backlog = k.backlog
        /\ h.queue = k.queue /\ h.finished = k.finished /\ h.fin = k.fin
        /\ h.lagged = k.lagged
    BY <1>2, <2>1, <2>2 DEF ConnState
  <2> HIDE DEF h
  <2>4. PendingInv(r)'
    BY <1>5, <2>3 DEF PendingInv, h
  <2>5. HoldingsInv(r)'
    BY <1>1, <1>3, <2>3 DEF HoldingsInv, h
  <2>6. FinishedInv(r)'
    BY <1>1, <1>3, <2>3 DEF FinishedInv, h, waiterVars
  <2>7. ConnInv(r)'
    BY <1>2, <2>1, <2>4, <2>5, <2>6 DEF ConnInv, ExitInv
  <2> QED
    BY <1>1, <2>7, ReaderOnly
<1> QED
  BY <1>6, <1>7

LEMMA OpenStreamInv ==
  ASSUME TypeOK, OutputInv, NEW r \in Reader, OpenStream(r)
  PROVE  OutputInv'
<1> DEFINE h == conn'[r]
           from == cursor[r]
           g == [kind |-> "gap", lo |-> from, hi |-> log.start]
<1>1. PICK now \in BOOLEAN :
        /\ now \/ yields
        /\ pc' = [pc EXCEPT ![r] = IF now THEN "attached" ELSE "snapshot"]
        /\ conn' = [conn EXCEPT ![r] =
             [NoConn EXCEPT !.pending = SinceGap(log, cursor[r]),
                            !.backlog = SinceFrames(log, cursor[r]),
                            !.cursor = SinceCursor(log, cursor[r]),
                            !.finished = now /\ terminal]]
  BY DEF OpenStream, TypeOK
<1>2. /\ UNCHANGED <<waiterVars, log, cursor>>
      /\ \A q \in Reader \ {r} : pc'[q] = pc[q] /\ cursor'[q] = cursor[q] /\ conn'[q] = conn[q]
      /\ pc'[r] \in Connected
  BY <1>1 DEF OpenStream, TypeOK, Connected
<1>3. /\ h.pending = SinceGap(log, from) /\ h.backlog = SinceFrames(log, from)
      /\ h.cursor = SinceCursor(log, from) /\ h.finished = (now /\ terminal)
      /\ h.queue = {} /\ h.fin = FALSE /\ h.lagged = FALSE
  BY <1>1 DEF TypeOK, NoConn
<1>4. /\ from \in Nat /\ log.start \in Nat /\ log.total \in Nat /\ log.ring \subseteq Chunk
  BY DEF TypeOK, LogState
<1>5. h.cursor \in Nat /\ h.cursor >= log.start
  BY <1>3, <1>4, LargerType DEF SinceCursor
<1>6. RingExact
  BY DEF OutputInv
<1>7. \/ h.pending = <<>> /\ h.cursor = from
      \/ h.pending = <<g>> /\ g.lo = from /\ g.lo < g.hi /\ g.hi = h.cursor
  BY <1>3, <1>4 DEF SinceGap, SinceCursor, Larger
<1> HIDE DEF h, g
<1>8. PendingInv(r)'
  <2>1. CASE h.pending = <<>>
    BY <1>2, <1>7, <2>1 DEF PendingInv, h
  <2>2. CASE h.pending = <<g>> /\ g.lo = from /\ g.lo < g.hi /\ g.hi = h.cursor
    <3>1. Head(h.pending) = g
      BY <2>2
    <3> QED
      BY <1>2, <2>2, <3>1 DEF PendingInv, h
  <2> QED
    BY <1>7, <2>1, <2>2
<1>9. ASSUME NEW x \in 0..log.total, h.cursor <= x, x < log.total
      PROVE  Covers(h.backlog, x)
  <2>1. log.start <= x
    BY <1>4, <1>5, <1>9
  <2>2. PICK d \in log.ring : d.lo <= x /\ x < d.hi
    BY <1>6, <1>9, <2>1 DEF RingExact, ExactWindow, Covers
  <2>3. d.hi > h.cursor /\ d \in Chunk
    BY <1>4, <1>5, <1>9, <2>2 DEF Chunk
  <2> QED
    BY <1>3, <2>2, <2>3 DEF SinceFrames, Covers
<1>10. HoldingsInv(r)'
  <2>1. \A d \in h.backlog : d.lo < d.hi /\ d.hi <= log.total /\ d \in Chunk
    BY <1>3, <1>4, <1>6 DEF SinceFrames, RingExact, ExactWindow
  <2>2. ASSUME NEW x \in 0..log.total, h.cursor <= x, \E d \in h.backlog : x < d.hi
        PROVE  Covers(h.backlog, x)
    <3>1. x < log.total
      BY <1>4, <2>1, <2>2 DEF Chunk
    <3> QED
      BY <1>9, <2>2, <3>1
  <2>3. h.backlog \cup h.queue = h.backlog
    BY <1>3
  <2> QED
    BY <1>2, <1>3, <1>9, <2>1, <2>2, <2>3 DEF HoldingsInv, h
<1>11. FinishedInv(r)'
  BY <1>2, <1>3, <1>9 DEF FinishedInv, h, waiterVars
<1>12. ConnInv(r)'
  BY <1>2, <1>8, <1>10, <1>11 DEF ConnInv, ExitInv, Connected
<1> QED
  BY <1>2, <1>12, ReaderOnly

LEMMA ReadTerminalInv ==
  ASSUME TypeOK, OutputInv, NoWindows, NEW r \in Reader, ReadTerminal(r)
  PROVE  OutputInv'
<1> DEFINE k == conn[r]
           h == conn'[r]
<1>1. /\ UNCHANGED <<waiterVars, log, cursor>>
      /\ \A q \in Reader \ {r} : pc'[q] = pc[q] /\ cursor'[q] = cursor[q] /\ conn'[q] = conn[q]
      /\ pc[r] = "snapshot" /\ pc'[r] = "attached" /\ yields /\ k \in ConnState
  BY DEF ReadTerminal, TypeOK, NoWindows
<1>2. h = [k EXCEPT !.finished = terminal]
  BY DEF ReadTerminal, TypeOK
<1>3. /\ h.pending = k.pending /\ h.cursor = k.cursor /\ h.backlog = k.backlog
      /\ h.queue = k.queue /\ h.fin = k.fin /\ h.lagged = k.lagged
  BY <1>1, <1>2 DEF ConnState
<1>4. PendingInv(r) /\ HoldingsInv(r) /\ FinishedInv(r)
  BY <1>1 DEF OutputInv, ConnInv, Connected
<1> HIDE DEF h
<1>5. PendingInv(r)'
  BY <1>1, <1>3, <1>4 DEF PendingInv, h
<1>6. HoldingsInv(r)'
  BY <1>1, <1>3, <1>4 DEF HoldingsInv, h
<1>7. FinishedInv(r)'
  BY <1>1, <1>3, <1>4 DEF FinishedInv, h, waiterVars
<1>8. ConnInv(r)'
  BY <1>1, <1>5, <1>6, <1>7 DEF ConnInv, ExitInv, waiterVars
<1> QED
  BY <1>1, <1>8, ReaderOnly

LEMMA ExitStepInv ==
  ASSUME TypeOK, OutputInv, NEW r \in Reader, ExitAttachedLate(r) \/ RecvFinished(r)
  PROVE  OutputInv'
<1>1. /\ UNCHANGED <<waiterVars, log, cursor>>
      /\ \A q \in Reader \ {r} : pc'[q] = pc[q] /\ cursor'[q] = cursor[q] /\ conn'[q] = conn[q]
      /\ pc[r] = "attached" /\ pc'[r] = "exit" /\ conn[r].pending = <<>> /\ conn[r].backlog = {}
  BY DEF ExitAttachedLate, RecvFinished, Exit, StreamPolled, Receives, TypeOK
<1>2. PendingInv(r) /\ HoldingsInv(r) /\ FinishedInv(r) /\ TerminalLast
  BY <1>1 DEF OutputInv, ConnInv, Connected
<1>3. conn[r].cursor = cursor[r] /\ cursor[r] \in Nat /\ log.total \in Nat
  BY <1>1, <1>2 DEF PendingInv, TypeOK, LogState
<1>4. ASSUME ~yields PROVE terminal /\ cursor[r] >= log.total
  <2>1. ~Covers({}, cursor[r])
    BY DEF Covers
  <2>2. CASE ExitAttachedLate(r)
    <3>1. terminal /\ \A x \in 0..log.total :
                        cursor[r] <= x /\ x < log.total => Covers({}, x)
      BY <1>1, <1>2, <1>3, <1>4, <2>2 DEF ExitAttachedLate, FinishedInv
    <3> QED
      BY <1>3, <2>1, <3>1
  <2>3. CASE RecvFinished(r)
    <3>1. conn[r].queue = {} /\ ~conn[r].lagged /\ conn[r].fin
      BY <2>3 DEF RecvFinished
    <3>2. terminal
      BY <1>2, <3>1 DEF FinishedInv, TerminalLast
    <3>3. \A x \in 0..log.total : cursor[r] <= x /\ x < log.total => Covers({} \cup {}, x)
      BY <1>1, <1>2, <1>3, <3>1 DEF HoldingsInv
    <3>4. {} \cup {} = {}
      OBVIOUS
    <3> QED
      BY <1>3, <2>1, <3>2, <3>3, <3>4
  <2> QED
    BY <2>2, <2>3
<1>5. ConnInv(r)'
  BY <1>1, <1>4 DEF ConnInv, ExitInv, Connected, waiterVars
<1> QED
  BY <1>1, <1>5, ReaderOnly

LEMMA LostInv ==
  ASSUME TypeOK, OutputInv, NEW r \in Reader, Cut(r) \/ AttachFails(r) \/ StreamErrors(r)
  PROVE  OutputInv'
<1>1. /\ UNCHANGED <<waiterVars, log>>
      /\ \A q \in Reader \ {r} : pc'[q] = pc[q] /\ cursor'[q] = cursor[q] /\ conn'[q] = conn[q]
      /\ pc'[r] \in {"cut", "reconnect", "error"}
  BY DEF Cut, AttachFails, LoseConnection, StreamErrors, TypeOK
<1>2. ConnInv(r)'
  BY <1>1 DEF ConnInv, Connected, ExitInv
<1> QED
  BY <1>1, <1>2, ReaderOnly

LEMMA SetTerminalInv ==
  ASSUME TypeOK, OutputInv, SetTerminal
  PROVE  OutputInv'
<1>1. /\ UNCHANGED <<log, readerVars, conn, yields>>
      /\ waiter = "terminal" /\ waiter' = "finish" /\ terminal'
  BY DEF SetTerminal
<1>2. (RingExact /\ TerminalLast)' /\ ~terminal
  BY <1>1 DEF OutputInv, RingExact, ExactWindow, TerminalLast
<1>3. ASSUME NEW q \in Reader PROVE ConnInv(q)'
  <2>1. ConnInv(q) /\ UNCHANGED <<pc, cursor, conn, log, yields>>
    BY <1>1 DEF OutputInv, readerVars
  <2>2. PendingInv(q) => PendingInv(q)'
    BY <2>1 DEF PendingInv
  <2>3. HoldingsInv(q) => HoldingsInv(q)'
    BY <2>1 DEF HoldingsInv
  <2>4. FinishedInv(q) => FinishedInv(q)'
    BY <1>1, <1>2, <2>1 DEF FinishedInv
  <2>5. ExitInv(q)'
    BY <1>2, <2>1 DEF ConnInv, ExitInv
  <2> QED
    BY <2>1, <2>2, <2>3, <2>4, <2>5 DEF ConnInv
<1> QED
  BY <1>2, <1>3 DEF OutputInv

LEMMA AnnounceInv ==
  ASSUME TypeOK, OutputInv, AnnounceFinished
  PROVE  OutputInv'
<1>1. /\ UNCHANGED <<log, readerVars, yields, terminal>>
      /\ waiter = "finish" /\ waiter' = "done"
  BY DEF AnnounceFinished
<1>2. (RingExact /\ TerminalLast)'
  BY <1>1 DEF OutputInv, RingExact, ExactWindow, TerminalLast
<1>3. ASSUME NEW q \in Reader PROVE ConnInv(q)'
  <2> DEFINE k == conn[q]
             h == conn'[q]
  <2>1. ConnInv(q) /\ UNCHANGED <<pc, cursor, log, yields, terminal>>
    BY <1>1 DEF OutputInv, readerVars
  <2>2. CASE pc[q] \in Connected
    <3>1. k \in ConnState /\ h = SendFinished(k)
      BY <2>2 DEF AnnounceFinished, Broadcast, TypeOK
    <3>2. /\ h.pending = k.pending /\ h.backlog = k.backlog /\ h.cursor = k.cursor
          /\ h.finished = k.finished /\ h.queue \subseteq k.queue
          /\ ~h.lagged => ~k.lagged /\ h.queue = k.queue
      <4>1. [lo |-> 0, hi |-> 0] \in Chunk
        BY DEF Chunk
      <4> HIDE DEF h, k
      <4> QED BY <3>1, <4>1, SendFacts
    <3>3. PendingInv(q) /\ HoldingsInv(q) /\ FinishedInv(q) /\ ExitInv(q)
      BY <2>1, <2>2 DEF ConnInv
    <3> HIDE DEF h, k
    <3>4. PendingInv(q)'
      BY <2>1, <3>2, <3>3 DEF PendingInv, h, k
    <3>5. HoldingsInv(q)'
      <4>1. /\ \A d \in h.backlog \cup h.queue : d.lo < d.hi /\ d.hi <= log.total
            /\ \A b \in h.backlog, d \in h.queue : b.hi <= d.lo
        BY <3>2, <3>3 DEF HoldingsInv, k
      <4>2. \A x \in 0..log.total :
              h.cursor <= x /\ (\E d \in h.backlog : x < d.hi) => Covers(h.backlog, x)
        BY <3>2, <3>3 DEF HoldingsInv, k
      <4>3. ~h.lagged => \A x \in 0..log.total :
              h.cursor <= x /\ x < log.total => Covers(h.backlog \cup h.queue, x)
        BY <3>2, <3>3 DEF HoldingsInv, k
      <4> QED
        BY <2>1, <4>1, <4>2, <4>3 DEF HoldingsInv, h
    <3>6. FinishedInv(q)'
      BY <1>1, <2>1, <3>2, <3>3 DEF FinishedInv, h, k
    <3>7. ExitInv(q)'
      BY <2>1, <3>3 DEF ExitInv
    <3> QED
      BY <3>4, <3>5, <3>6, <3>7 DEF ConnInv
  <2>3. CASE pc[q] \notin Connected
    BY <2>1, <2>3 DEF ConnInv, ExitInv
  <2> QED
    BY <2>2, <2>3
<1> QED
  BY <1>2, <1>3 DEF OutputInv

(***************************************************************************)
(* The invariant of the whole path, and what it gives.                     *)
(***************************************************************************)

LEMMA WindowsStep == TypeOK /\ NoWindows /\ [Next]_vars => NoWindows'
<1> SUFFICES ASSUME TypeOK, NoWindows, [Next]_vars PROVE NoWindows'
  OBVIOUS
<1>1. yields' = yields
  BY DEF Next, Environment, WaiterTask, PumpStep, Connection, Network, vars, waiterVars,
         Write, CloseWriteEnd, PumpReadError, ChildExits, Pump, PumpSuspends, PumpResumes,
         PumpEof, PublishBytes, ChildWaited, Drained, LingerExpires, SetTerminal,
         AnnounceFinished, OpenStream, ReadTerminal, Deliver, Replay, ExitAttachedLate,
         RecvChunk, RecvLagged, RecvFinished, Exit, StreamErrors, Cut, AttachFails,
         LoseConnection
<1> SUFFICES ASSUME ~yields
             PROVE  /\ \A r \in Reader : pc'[r] # "snapshot"
                    /\ \A s \in Stream : pump'[s].held = 0
  BY <1>1 DEF NoWindows
<1>2. /\ \A r \in Reader : pc[r] # "snapshot"
      /\ \A s \in Stream : pump[s].held = 0
  BY DEF NoWindows
<1>3. \A r \in Reader : pc'[r] # "snapshot"
  <2>1. CASE pc' = pc
    BY <1>2, <2>1
  <2>2. ASSUME NEW r \in Reader, NEW v \in ReaderStep \ {"snapshot"}, pc' = [pc EXCEPT ![r] = v]
        PROVE  \A q \in Reader : pc'[q] # "snapshot"
    BY <1>2, <2>2 DEF TypeOK
  <2>3. ASSUME NEW r \in Reader, Connection(r) \/ Network(r)
        PROVE  pc' = pc \/ \E v \in ReaderStep \ {"snapshot"} : pc' = [pc EXCEPT ![r] = v]
    BY <2>3 DEF Connection, Network, OpenStream, ReadTerminal, Deliver, Replay,
         ExitAttachedLate, RecvChunk, RecvLagged, RecvFinished, Exit, StreamErrors, Cut,
         AttachFails, LoseConnection, ReaderStep, Connected, Ended, readerVars
  <2>4. ASSUME Environment \/ WaiterTask \/ UNCHANGED vars PROVE pc' = pc
    BY <2>4 DEF Environment, WaiterTask, PumpStep, vars, readerVars,
         Write, CloseWriteEnd, PumpReadError, ChildExits, Pump, PumpSuspends, PumpResumes,
         PumpEof, PublishBytes, ChildWaited, Drained, LingerExpires, SetTerminal,
         AnnounceFinished
  <2> QED
    BY <2>1, <2>2, <2>3, <2>4 DEF Next
<1>4. \A s \in Stream : pump'[s].held = 0
  <2>1. /\ \A p \in PumpState, n \in Nat : Keep(p, n).held = 0
        /\ \A p \in PumpState : Dropped(p).held = 0 /\ (p.held = 0 => AtEof(p).held = 0)
    BY DEF Keep, Dropped, AtEof, PumpState
  <2>2. CASE pump' = pump
    BY <1>2, <2>2
  <2>0. pump \in [Stream -> PumpState] /\ \A s \in Stream : Stream = {s, Other(s)}
    BY DEF TypeOK, Stream, Other
  <2>3. ASSUME NEW s \in Stream, NEW n \in Nat, PublishBytes(s, n)
        PROVE  \A t \in Stream : pump'[t].held = 0
    <3>1. pump' = [pump EXCEPT ![s] = Keep(@, n), ![Other(s)] = Dropped(@)]
      BY <2>3 DEF PublishBytes
    <3>2. pump'[s] = Keep(pump[s], n) /\ pump'[Other(s)] = Dropped(pump[Other(s)])
      BY <2>0, <3>1, OtherType
    <3>3. pump'[s].held = 0 /\ pump'[Other(s)].held = 0
      BY <2>0, <2>1, <3>2, OtherType
    <3> QED
      BY <2>0, <3>3
  <2>4. ASSUME NEW s \in Stream, PumpEof(s) \/ PumpReadError(s)
        PROVE  \A t \in Stream : pump'[t].held = 0
    <3>1. pump' = [pump EXCEPT ![s] = AtEof(@), ![Other(s)] = Dropped(@)]
      BY <2>4 DEF PumpEof, PumpReadError
    <3>2. pump'[s] = AtEof(pump[s]) /\ pump'[Other(s)] = Dropped(pump[Other(s)])
      BY <2>0, <3>1, OtherType
    <3>3. pump'[s].held = 0 /\ pump'[Other(s)].held = 0
      <4>1. pump[s] \in PumpState /\ pump[Other(s)] \in PumpState /\ pump[s].held = 0
        BY <1>2, <2>0, OtherType
      <4> QED
        BY <2>1, <3>2, <4>1
    <3> QED
      BY <2>0, <3>3
  <2>5. ASSUME ChildWaited \/ LingerExpires PROVE \A t \in Stream : pump'[t].held = 0
    <3>1. pump' = [s \in Stream |-> Dropped(pump[s])]
      BY <2>5 DEF ChildWaited, LingerExpires
    <3> QED
      BY <2>0, <2>1, <3>1
  <2>6. ASSUME NEW s \in Stream, Pump(s) PROVE \E n \in Nat : PublishBytes(s, n)
    BY <2>6 DEF Pump, TypeOK
  <2>7. ASSUME NEW s \in Stream, PumpResumes(s) \/ PumpSuspends(s) PROVE FALSE
    BY <1>2, <2>7 DEF PumpResumes, PumpSuspends
  <2>8. ASSUME NEW r \in Reader, Connection(r) \/ Network(r) PROVE pump' = pump
    BY <2>8 DEF Connection, Network, OpenStream, ReadTerminal, Deliver, Replay,
         ExitAttachedLate, RecvChunk, RecvLagged, RecvFinished, Exit, StreamErrors, Cut,
         AttachFails, LoseConnection, waiterVars
  <2>9. ASSUME \/ \E s \in Stream : Write(s) \/ CloseWriteEnd(s)
               \/ ChildExits \/ Drained \/ SetTerminal \/ AnnounceFinished \/ UNCHANGED vars
        PROVE  pump' = pump
    BY <2>9 DEF Write, CloseWriteEnd, ChildExits, Drained, SetTerminal, AnnounceFinished,
         vars, waiterVars
  <2> QED
    BY <2>2, <2>3, <2>4, <2>5, <2>6, <2>7, <2>8, <2>9
       DEF Next, Environment, WaiterTask, PumpStep
<1> QED
  BY <1>3, <1>4

LEMMA OutputStep == TypeOK /\ OutputInv /\ NoWindows /\ [Next]_vars => OutputInv'
<1> SUFFICES ASSUME TypeOK, OutputInv, NoWindows, [Next]_vars PROVE OutputInv'
  OBVIOUS
<1>1. ASSUME NEW s \in Stream,
             Write(s) \/ CloseWriteEnd(s) \/ PumpReadError(s) \/ PumpEof(s) \/ PumpSuspends(s)
      PROVE  OutputInv'
  BY <1>1, QuietStep DEF Write, CloseWriteEnd, PumpReadError, PumpEof, PumpSuspends
<1>2. CASE ChildExits \/ ChildWaited \/ Drained \/ LingerExpires
  BY <1>2, QuietStep DEF ChildExits, ChildWaited, Drained, LingerExpires
<1>3. ASSUME NEW s \in Stream, Pump(s) PROVE OutputInv'
  <2>1. PICK n \in 1..pipe[s] : PublishBytes(s, n)
    BY <1>3 DEF Pump
  <2>2. n \in Nat \ {0} /\ waiter \in {"wait", "linger"}
    BY <1>3 DEF Pump, PumpPolled, TypeOK
  <2> QED
    BY <2>1, <2>2, PublishInv
<1>4. ASSUME NEW s \in Stream, PumpResumes(s) PROVE OutputInv'
  <2>1. pump[s].held \in Nat \ {0} /\ waiter \in {"wait", "linger"}
    BY <1>4 DEF PumpResumes, PumpPolled, TypeOK, PumpState
  <2> QED
    BY <1>4, <2>1, PublishInv DEF PumpResumes
<1>5. CASE SetTerminal
  BY <1>5, SetTerminalInv
<1>6. CASE AnnounceFinished
  BY <1>6, AnnounceInv
<1>7. ASSUME NEW r \in Reader, Connection(r) \/ Network(r) PROVE OutputInv'
  BY <1>7, OpenStreamInv, ReadTerminalInv, DeliverInv, ReplayInv, ExitStepInv, RecvChunkInv,
     RecvLaggedInv, LostInv DEF Connection, Network
<1>8. CASE UNCHANGED vars
  BY <1>8, QuietStep DEF vars, waiterVars
<1> QED
  BY <1>1, <1>2, <1>3, <1>4, <1>5, <1>6, <1>7, <1>8
     DEF Next, Environment, WaiterTask, PumpStep

LEMMA OutputInit == Init => OutputInv /\ NoWindows
<1> SUFFICES ASSUME Init PROVE OutputInv /\ NoWindows
  OBVIOUS
<1>1. RingExact
  BY CapAssumption DEF Init, RingExact, ExactWindow, EmptyLog
<1>2. TerminalLast
  BY DEF Init, TerminalLast
<1>3. \A r \in Reader : ConnInv(r)
  BY DEF Init, ConnInv, Connected, ExitInv
<1>4. NoWindows
  BY DEF Init, NoWindows, NewPump
<1> QED
  BY <1>1, <1>2, <1>3, <1>4 DEF OutputInv

\* The invariant of the output path holds in every behavior.
THEOREM OutputInvariant == Spec => [](TypeOK /\ OutputInv /\ NoWindows)
  BY TypeInit, TypeStep, OutputInit, OutputStep, WindowsStep, PTL DEF Spec

\* The replay ring holds exactly the last bytes of the output, however the
\* publishes and trims follow each other.
THEOREM RingIsExact == Spec => []RingExact
<1>1. OutputInv => RingExact
  BY DEF OutputInv
<1> QED
  BY <1>1, OutputInvariant, PTL

\* The events of a stream follow each other without overlap or hole across
\* replay, live delivery, lag and any number of reconnects.
THEOREM StreamIsContiguous == Spec => []EventsContiguous
<1>1. TypeOK /\ OutputInv => EventsContiguous
  <2> SUFFICES ASSUME TypeOK, OutputInv, NEW r \in Reader,
                      pc[r] = "attached", conn[r].pending # <<>>
               PROVE  /\ conn[r].pending[1].lo = cursor[r]
                      /\ conn[r].pending[1].lo < conn[r].pending[1].hi
                      /\ Len(conn[r].pending) = 1
    BY DEF EventsContiguous
  <2> DEFINE p == conn[r].pending
             e == Head(p)
  <2>1. p = <<e>> /\ e.lo = cursor[r] /\ e.lo < e.hi
    BY DEF OutputInv, ConnInv, Connected, PendingInv
  <2>2. p[1] = e /\ Len(p) = 1
    <3> HIDE DEF e
    <3> QED BY <2>1
  <2> QED
    BY <2>1, <2>2
<1> QED
  BY <1>1, OutputInvariant, PTL

\* Without suspensions of free locks a client that sees the exec end has been
\* accounted every byte of the output.
THEOREM NoLossUnlessYields == Spec => []NoSilentLossUnlessYields
<1>1. TypeOK /\ OutputInv => NoSilentLossUnlessYields
  BY DEF TypeOK, OutputInv, ConnInv, ExitInv, NoSilentLossUnlessYields, NoSilentLoss
<1> QED
  BY <1>1, OutputInvariant, PTL

LEMMA PublishedStep ==
  TypeOK /\ OutputInv /\ NoWindows /\ NoWindows' /\ ReadIsPublishedUnlessYields /\ [Next]_vars
    => ReadIsPublishedUnlessYields'
<1> SUFFICES ASSUME TypeOK, OutputInv, NoWindows, NoWindows', ReadIsPublishedUnlessYields,
                    [Next]_vars
             PROVE  ReadIsPublishedUnlessYields'
  OBVIOUS
<1>1. yields' = yields
  BY DEF Next, Environment, WaiterTask, PumpStep, Connection, Network, vars, waiterVars,
         Write, CloseWriteEnd, PumpReadError, ChildExits, Pump, PumpSuspends, PumpResumes,
         PumpEof, PublishBytes, ChildWaited, Drained, LingerExpires, SetTerminal,
         AnnounceFinished, OpenStream, ReadTerminal, Deliver, Replay, ExitAttachedLate,
         RecvChunk, RecvLagged, RecvFinished, Exit, StreamErrors, Cut, AttachFails,
         LoseConnection
<1> SUFFICES ASSUME ~yields PROVE EverythingReadIsPublished'
  BY <1>1 DEF ReadIsPublishedUnlessYields
<1>2. /\ \A s \in Stream : pump[s].held = 0
      /\ \A s \in Stream : pump'[s].held = 0
  BY <1>1 DEF NoWindows
<1>3. /\ Both([s \in Stream |-> pump[s].held]) = 0
      /\ Both([s \in Stream |-> pump'[s].held]) = 0
  BY <1>2 DEF Both, Stream
<1>4. /\ pipe["out"] \in Nat /\ pipe["err"] \in Nat /\ written \in Nat /\ log \in LogState
      /\ log.total \in Nat
  BY DEF TypeOK, Stream, LogState
<1>5. log.total + (pipe["out"] + pipe["err"]) = written
  <2>1. log.total + Both(pipe) + Both([s \in Stream |-> pump[s].held]) = written
    BY DEF ReadIsPublishedUnlessYields, EverythingReadIsPublished
  <2> QED
    BY <1>3, <1>4, <2>1 DEF Both
<1> SUFFICES ASSUME TRUE
             PROVE  log'.total + (pipe'["out"] + pipe'["err"]) + 0 = written'
  BY <1>3 DEF EverythingReadIsPublished, Both
<1>6. CASE log' = log /\ pipe' = pipe /\ written' = written
  BY <1>4, <1>5, <1>6
<1>7. ASSUME NEW s \in Stream, Write(s)
      PROVE  log'.total + (pipe'["out"] + pipe'["err"]) + 0 = written'
  <2>1. /\ log' = log /\ written' = written + 1
        /\ pipe' = [pipe EXCEPT ![s] = pipe[s] + 1] /\ s \in {"out", "err"}
    BY <1>7 DEF Write, Stream
  <2>2. \/ pipe'["out"] = pipe["out"] + 1 /\ pipe'["err"] = pipe["err"]
        \/ pipe'["out"] = pipe["out"] /\ pipe'["err"] = pipe["err"] + 1
    BY <2>1 DEF TypeOK, Stream
  <2> QED
    BY <1>4, <1>5, <2>1, <2>2
<1>8. ASSUME NEW s \in Stream, Pump(s)
      PROVE  log'.total + (pipe'["out"] + pipe'["err"]) + 0 = written'
  <2>1. PICK n \in 1..pipe[s] : pipe' = [pipe EXCEPT ![s] = @ - n] /\ PublishBytes(s, n)
    BY <1>8 DEF Pump
  <2>2. n \in Nat \ {0} /\ s \in {"out", "err"}
    BY <1>4 DEF Stream
  <2>3. log'.total = log.total + n
    BY <1>4, <2>1, <2>2, PushWindow DEF PublishBytes, OutputInv, RingExact
  <2>4. \/ pipe'["out"] = pipe["out"] - n /\ pipe'["err"] = pipe["err"]
        \/ pipe'["out"] = pipe["out"] /\ pipe'["err"] = pipe["err"] - n
    BY <2>1, <2>2 DEF TypeOK, Stream
  <2>5. written' = written
    BY <2>1 DEF PublishBytes
  <2> QED
    BY <1>4, <1>5, <2>2, <2>3, <2>4, <2>5
<1>9. ASSUME NEW s \in Stream, PumpResumes(s) \/ PumpSuspends(s) PROVE FALSE
  BY <1>2, <1>9 DEF PumpResumes, PumpSuspends
<1>10. ASSUME \/ \E s \in Stream : CloseWriteEnd(s) \/ PumpEof(s) \/ PumpReadError(s)
              \/ ChildExits \/ ChildWaited \/ Drained \/ LingerExpires \/ SetTerminal
              \/ AnnounceFinished \/ UNCHANGED vars
       PROVE  log' = log /\ pipe' = pipe /\ written' = written
  BY <1>10 DEF CloseWriteEnd, PumpEof, PumpReadError, ChildExits, ChildWaited, Drained,
       LingerExpires, SetTerminal, AnnounceFinished, vars, waiterVars
<1>11. ASSUME NEW r \in Reader, Connection(r) \/ Network(r)
       PROVE  log' = log /\ pipe' = pipe /\ written' = written
  BY <1>11 DEF Connection, Network, OpenStream, ReadTerminal, Deliver, Replay,
       ExitAttachedLate, RecvChunk, RecvLagged, RecvFinished, Exit, StreamErrors, Cut,
       AttachFails, LoseConnection, waiterVars
<1> QED
  BY <1>6, <1>7, <1>8, <1>9, <1>10, <1>11 DEF Next, Environment, WaiterTask, PumpStep

\* Without suspensions of free locks every byte read from a pipe has been
\* published to the stream log.
THEOREM ReadIsPublished == Spec => []ReadIsPublishedUnlessYields
<1>1. Init => ReadIsPublishedUnlessYields
  BY DEF Init, ReadIsPublishedUnlessYields, EverythingReadIsPublished, Both, Stream, EmptyLog,
         NewPump
<1> QED
  BY <1>1, OutputInvariant, PublishedStep, PTL DEF Spec

(***************************************************************************)
(* The head buffers.                                                       *)
(***************************************************************************)

\* Buffers that have dropped nothing hold all that was published.
HeadInv ==
  (\A s \in Stream : ~pump[s].truncated) => pump["out"].buf + pump["err"].buf = log.total

\* What a pump's steps do to its head buffer.
LEMMA KeepFacts ==
  ASSUME NEW p \in PumpState, NEW n \in Nat
  PROVE  /\ ~Keep(p, n).truncated => ~p.truncated /\ Keep(p, n).buf = p.buf + n
         /\ Dropped(p).buf = p.buf /\ Dropped(p).truncated = p.truncated
         /\ AtEof(p).buf = p.buf /\ AtEof(p).truncated = p.truncated
<1>1. /\ Dropped(p).buf = p.buf /\ Dropped(p).truncated = p.truncated
      /\ AtEof(p).buf = p.buf /\ AtEof(p).truncated = p.truncated
  BY DEF Dropped, AtEof, PumpState
<1>2. /\ Keep(p, n).truncated = (p.truncated \/ p.buf + n > OutputCap)
      /\ p.buf + n <= OutputCap => Keep(p, n).buf = p.buf + n
  BY DEF Keep
<1>3. p.buf + n <= OutputCap \/ p.buf + n > OutputCap
  BY CapAssumption DEF PumpState
<1> QED
  BY <1>1, <1>2, <1>3

LEMMA PublishHead ==
  ASSUME TypeOK, OutputInv, HeadInv, NEW s \in Stream, NEW n \in Nat \ {0}, PublishBytes(s, n)
  PROVE  HeadInv'
<1>1. log \in LogState /\ log.total \in Nat /\ pump["out"].buf \in Nat /\ pump["err"].buf \in Nat
      /\ pump \in [Stream -> PumpState] /\ n \in Nat /\ n > 0
  BY DEF TypeOK, LogState, Stream, PumpState
<1>2. log'.total = log.total + n
  BY <1>1, PushWindow DEF PublishBytes, OutputInv, RingExact
<1>3. pump'[s] = Keep(pump[s], n) /\ pump'[Other(s)] = Dropped(pump[Other(s)])
  BY <1>1, OtherType DEF PublishBytes
<1>4. /\ ~pump'[s].truncated => ~pump[s].truncated /\ pump'[s].buf = pump[s].buf + n
      /\ pump'[Other(s)].buf = pump[Other(s)].buf
      /\ pump'[Other(s)].truncated = pump[Other(s)].truncated
  BY <1>1, <1>3, OtherType, KeepFacts
<1>5. ASSUME \A t \in Stream : ~pump'[t].truncated
      PROVE  pump'["out"].buf + pump'["err"].buf = log'.total
  <2>1. /\ pump'[s].buf = pump[s].buf + n /\ pump'[Other(s)].buf = pump[Other(s)].buf
        /\ ~pump[s].truncated /\ ~pump[Other(s)].truncated
    BY <1>4, <1>5, OtherType
  <2>2. pump["out"].buf + pump["err"].buf = log.total
    BY <2>1 DEF HeadInv, Stream, Other
  <2>3. CASE s = "out"
    BY <1>1, <1>2, <2>1, <2>2, <2>3 DEF Other
  <2>4. CASE s = "err"
    BY <1>1, <1>2, <2>1, <2>2, <2>4 DEF Other
  <2> QED
    BY <2>3, <2>4 DEF Stream
<1> QED
  BY <1>5 DEF HeadInv

\* Steps that publish nothing leave the buffers as they are.
LEMMA SameHead ==
  ASSUME HeadInv, log' = log,
         \A s \in Stream : pump'[s].buf = pump[s].buf /\ pump'[s].truncated = pump[s].truncated
  PROVE  HeadInv'
BY DEF HeadInv, Stream

LEMMA HeadStep ==
  ASSUME TypeOK, OutputInv, HeadInv, [Next]_vars
  PROVE  HeadInv'
<1>1. pump \in [Stream -> PumpState] /\ pipe \in [Stream -> Nat]
  BY DEF TypeOK
<1>2. ASSUME NEW s \in Stream, Pump(s) PROVE HeadInv'
  <2>1. PICK n \in 1..pipe[s] : PublishBytes(s, n)
    BY <1>2 DEF Pump
  <2>2. n \in Nat \ {0}
    BY <1>1
  <2> QED
    BY <2>1, <2>2, PublishHead
<1>3. ASSUME NEW s \in Stream, PumpResumes(s) PROVE HeadInv'
  <2>1. pump[s].held \in Nat \ {0} /\ PublishBytes(s, pump[s].held)
    BY <1>1, <1>3 DEF PumpResumes, PumpState
  <2> QED
    BY <2>1, PublishHead
<1>4. ASSUME NEW s \in Stream, PumpSuspends(s) PROVE HeadInv'
  <2>1. PICK n \in 1..pipe[s] : pump' = [pump EXCEPT ![s].held = n]
    BY <1>4 DEF PumpSuspends
  <2>2. \A t \in Stream : pump'[t].buf = pump[t].buf /\ pump'[t].truncated = pump[t].truncated
    BY <1>1, <2>1 DEF PumpState
  <2> QED
    BY <1>4, <2>2, SameHead DEF PumpSuspends
<1>5. ASSUME NEW s \in Stream, PumpEof(s) \/ PumpReadError(s) PROVE HeadInv'
  <2>1. log' = log /\ pump' = [pump EXCEPT ![s] = AtEof(pump[s]), ![Other(s)] = Dropped(pump[Other(s)])]
    BY <1>1, <1>5, OtherType DEF PumpEof, PumpReadError
  <2>2. pump'[s] = AtEof(pump[s]) /\ pump'[Other(s)] = Dropped(pump[Other(s)])
    BY <1>1, <2>1, OtherType
  <2>3. \A t \in Stream : t = s \/ t = Other(s)
    BY DEF Stream, Other
  <2>4. /\ pump'[s].buf = pump[s].buf /\ pump'[s].truncated = pump[s].truncated
        /\ pump'[Other(s)].buf = pump[Other(s)].buf
        /\ pump'[Other(s)].truncated = pump[Other(s)].truncated
    <3>1. 0 \in Nat /\ pump[s] \in PumpState /\ pump[Other(s)] \in PumpState
      BY <1>1, OtherType
    <3> QED
      BY <2>2, <3>1, KeepFacts
  <2> QED
    BY <2>1, <2>3, <2>4, SameHead
<1>6. ASSUME ChildWaited \/ LingerExpires PROVE HeadInv'
  <2>1. log' = log /\ \A t \in Stream : pump'[t] = Dropped(pump[t])
    BY <1>6 DEF ChildWaited, LingerExpires
  <2>2. ASSUME NEW t \in Stream
        PROVE  pump'[t].buf = pump[t].buf /\ pump'[t].truncated = pump[t].truncated
    <3>1. 0 \in Nat /\ pump[t] \in PumpState
      BY <1>1
    <3> QED
      BY <2>1, <3>1, KeepFacts
  <2> QED
    BY <2>1, <2>2, SameHead
<1>7. ASSUME \/ \E s \in Stream : Write(s) \/ CloseWriteEnd(s)
             \/ ChildExits \/ Drained \/ SetTerminal \/ AnnounceFinished \/ UNCHANGED vars
      PROVE  log' = log /\ pump' = pump
  BY <1>7 DEF Write, CloseWriteEnd, ChildExits, Drained, SetTerminal, AnnounceFinished, vars,
       waiterVars
<1>8. ASSUME NEW r \in Reader, Connection(r) \/ Network(r) PROVE log' = log /\ pump' = pump
  BY <1>8 DEF Connection, Network, OpenStream, ReadTerminal, Deliver, Replay,
       ExitAttachedLate, RecvChunk, RecvLagged, RecvFinished, Exit, StreamErrors, Cut,
       AttachFails, LoseConnection, waiterVars
<1>9. log' = log /\ pump' = pump => HeadInv'
  BY DEF HeadInv
<1> QED
  BY <1>2, <1>3, <1>4, <1>5, <1>6, <1>7, <1>8, <1>9 DEF Next, Environment, WaiterTask, PumpStep

\* Without suspensions of free locks an outcome that is not flagged truncated
\* holds every byte the daemon read, however the reads of the two pipes
\* interleaved with the child's exit and the linger deadline.
THEOREM OutcomeIsComplete == Spec => []OutcomeCompleteUnlessYields
<1>1. Init => HeadInv
  BY DEF Init, HeadInv, Stream, EmptyLog, NewPump
<1>2. TypeOK /\ OutputInv /\ HeadInv /\ [Next]_vars => HeadInv'
  BY HeadStep
<1>3. ASSUME TypeOK, NoWindows, HeadInv, ReadIsPublishedUnlessYields
      PROVE  OutcomeCompleteUnlessYields
  <2>1. SUFFICES ASSUME ~yields, \A s \in Stream : ~pump[s].truncated
                 PROVE  Both([s \in Stream |-> pump[s].buf]) + Both(pipe) = written
    BY DEF OutcomeCompleteUnlessYields, OutcomeComplete
  <2>2. pump["out"].buf + pump["err"].buf = log.total /\ log.total \in Nat
        /\ pipe["out"] \in Nat /\ pipe["err"] \in Nat
    BY <1>3, <2>1 DEF HeadInv, TypeOK, LogState, Stream
  <2>3. log.total + Both(pipe) + Both([s \in Stream |-> pump[s].held]) = written
    BY <1>3, <2>1 DEF ReadIsPublishedUnlessYields, EverythingReadIsPublished
  <2>4. Both([s \in Stream |-> pump[s].held]) = 0
    BY <1>3, <2>1 DEF NoWindows, Both, Stream
  <2>5. Both([s \in Stream |-> pump[s].buf]) = log.total
    BY <2>2 DEF Both, Stream
  <2>6. Both(pipe) \in Nat
    BY <2>2 DEF Both
  <2> QED
    BY <2>2, <2>3, <2>4, <2>5, <2>6
<1> QED
  BY <1>1, <1>2, <1>3, OutputInvariant, ReadIsPublished, PTL DEF Spec

============================================================================
