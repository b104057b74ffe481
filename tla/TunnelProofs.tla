---------------------------- MODULE TunnelProofs ----------------------------
(***************************************************************************)
(* Proofs about Tunnel, for any number of chunks, any socket and path      *)
(* sizes and any faults: its types, that nobody is dialled for a caller    *)
(* that has not proved itself, and that a clean end of a verified tunnel   *)
(* is a complete one.                                                      *)
(***************************************************************************)
EXTENDS Tunnel, TLAPS

Over(s) == relay[s].step \in {"ending", "done"}
Active(s) == relay[s].step \in {"relaying", "sending", "writing"}

\* Causes after which the client's relay tells its application of a failure.
Bad == {"normal", "failure", "hangup", "error"}

\* Where a relay is, and what its application's connection is meanwhile.
Coherent(s) ==
  /\ relay[s].cause \notin {None, "replied"} <=> Over(s)
  /\ relay[s].cause = "replied" => s = "daemon" /\ relay[s].step \in {"shaking", "dialing"}
  /\ relay[s].farewell # <<>> => relay[s].step = "ending"
  /\ relay[s].farewell = <<"end", "normal">> => relay[s].cause = "finished"
  /\ relay[s].farewell = <<"failure">> => relay[s].cause # "finished"
  /\ Active(s) => app[s].sees = "open"
  /\ app[s].sees = "none" =>
       app[s].wrote = 0 /\ app[s].unread = 0 /\ app[s].got = 0 /\ ~app[s].fin /\ ~app[s].gone
  /\ app[s].sees \in {"eof", "reset"} => relay[s].step = "done"
  /\ app[s].gone => app[s].fin
  /\ app[s].unread + (IF relay[s].step = "sending" THEN 1 ELSE 0) <= app[s].wrote

\* What only the client's relay, and only the daemon's, can be at.
ClientInv ==
  /\ relay["client"].step # "dialing"
  /\ relay["client"].cause # "refused"
  /\ relay["client"].cause = "aborted" => relay["client"].step = "done"
  /\ relay["client"].step = "shaking" => ~relay["client"].proved
  /\ setup.probe <=> app["client"].sees = "none"

DaemonInv ==
  /\ relay["daemon"].cause # "aborted"
  /\ relay["daemon"].step \in {"shaking", "dialing"} => app["daemon"].sees = "none"
  /\ relay["daemon"].cause = "refused" => app["daemon"].sees = "none"
  /\ Over("daemon") /\ relay["daemon"].cause # "refused" => app["daemon"].sees # "none"
  /\ relay["daemon"].cause = "error" => app["daemon"].fin

\* The handshake: who may have sent what.
ShakeInv ==
  /\ net["client"].hand = "confirm" => relay["client"].proved
  /\ net["daemon"].hand = "reply" => setup.agree
  /\ relay["client"].proved => setup.agree
  /\ setup.identity /\ relay["daemon"].step \notin {"shaking", "ending", "done"}
       => relay["client"].proved
  /\ setup.identity /\ app["daemon"].sees # "none" => relay["client"].proved
  /\ setup.identity /\ ~relay["client"].proved =>
       relay["client"].step \in {"shaking", "ending", "done"} /\ app["client"].got = 0

\* Every chunk an application wrote is in one place.
Conserved(s) ==
  app[s].wrote = app[Peer(s)].got + (IF relay[Peer(s)].step = "writing" THEN 1 ELSE 0)
                   + net[s].data + (IF relay[s].step = "sending" THEN 1 ELSE 0)
                   + app[s].unread

\* Nothing of side s has been lost so far.
FlowInv(s) ==
  path # "cut" /\ net[s].close = None /\ ~Over(Peer(s)) /\ relay[s].cause # "aborted"
    => Conserved(s)

\* The application of side s writes no more and its relay has read it all, unless
\* it is the local one and went away.
Spent(s) ==
  /\ app[s].fin \/ app[s].sees = "none"
  /\ app[s].unread = 0 \/ (s = "client" /\ app[s].gone)

\* A side that says it has finished has.
QuitInv(s) == relay[s].cause = "finished" => Spent(s)

\* An end of stream on its way is the last of a complete stream.
TailInv(s) ==
  net[s].end =>
    /\ Over(s) /\ relay[s].cause \in {"finished", "aborted"} /\ Spent(s)
    /\ ~Over(Peer(s)) => Conserved(s)

\* And so it is once it is taken.
TakenInv(s) ==
  relay[Peer(s)].cause = "ended" =>
    /\ Over(s) /\ relay[s].cause \in {"finished", "aborted"} /\ Spent(s)
    /\ app[Peer(s)].got = app[s].wrote \/ (s = "client" /\ app[s].gone)

EndInv(s) == QuitInv(s) /\ TailInv(s) /\ TakenInv(s)

\* What an application was told, against how its relay ended.
ToldInv ==
  setup.identity =>
    /\ app["client"].sees = "eof"
         => relay["client"].cause \in {"finished", "ended", "aborted"} \/ ClosedInHandshake
    /\ app["client"].sees = "reset" => relay["client"].cause \in Bad \/ app["client"].wrote > 0
    /\ app["daemon"].sees = "eof"
         => relay["daemon"].cause \in {"finished", "ended", "error"}

\* Over a whole path the daemon's close frame follows its end of stream, so the
\* client's relay fails only if the daemon's had not finished.
CloseInv ==
  /\ net["daemon"].close = "failure" => Over("daemon") /\ relay["daemon"].cause # "finished"
  /\ path = "whole" =>
       /\ net["daemon"].close # None => Over("daemon")
       /\ setup.identity /\ relay["daemon"].cause = "finished" =>
            \/ relay["daemon"].farewell = <<"end", "normal">> /\ net["daemon"].close = None
            \/ net["daemon"].end
            \/ Over("client")
       /\ setup.identity /\ relay["client"].cause \in Bad
            /\ app["client"].wrote = 0 /\ ~app["client"].gone
          => Over("daemon") /\ relay["daemon"].cause # "finished"

\* The inductive invariant.
Inv ==
  /\ TypeOK
  /\ \A s \in Side : Coherent(s) /\ FlowInv(s) /\ EndInv(s)
  /\ ClientInv /\ DaemonInv /\ ShakeInv
  /\ ToldInv /\ CloseInv

-----------------------------------------------------------------------------
(* Records.                                                                *)

Farewells == {<<>>, <<"end", "normal">>, <<"normal">>, <<"failure">>}

\* Only the relay of s changes, to this.
RelayIs(s, step, cause, farewell, proved) ==
  /\ relay' \in [Side -> Relay]
  /\ relay'[s].step = step /\ relay'[s].cause = cause
  /\ relay'[s].farewell = farewell /\ relay'[s].proved = proved
  /\ relay'[Peer(s)] = relay[Peer(s)]

\* Only the application of s changes, to this.
AppIs(s, wrote, unread, got, sees) ==
  /\ app' \in [Side -> Application]
  /\ app'[s].wrote = wrote /\ app'[s].unread = unread /\ app'[s].got = got
  /\ app'[s].fin = app[s].fin /\ app'[s].gone = app[s].gone /\ app'[s].sees = sees
  /\ app'[Peer(s)] = app[Peer(s)]

\* Only what s has sent changes, to this.
NetIs(s, hand, data, end, close) ==
  /\ net' \in [Side -> Queue]
  /\ net'[s].hand = hand /\ net'[s].data = data /\ (net'[s].end <=> end) /\ net'[s].close = close
  /\ net'[Peer(s)] = net[Peer(s)]

LEMMA PeerOf ==
  ASSUME NEW s \in Side
  PROVE  /\ Peer(s) \in Side /\ Peer(s) # s /\ Peer(Peer(s)) = s
         /\ \A t \in Side : t = s \/ t = Peer(s)
BY DEF Side, Peer

\* The counts are numbers.
Numbers(s) ==
  /\ app[s].wrote \in Nat /\ app[s].unread \in Nat /\ app[s].got \in Nat
  /\ net[s].data \in Nat

LEMMA Counts == ASSUME TypeOK, NEW s \in Side PROVE Numbers(s)
BY SizeAssumption DEF TypeOK, Application, Queue, Numbers

\* A relay that works has no cause to end.
LEMMA Working ==
  ASSUME Inv, NEW s \in Side, ~Over(s)
  PROVE  relay[s].cause \in {None, "replied"} /\ ~net[s].end
         /\ relay[s].cause \notin {"finished", "ended", "aborted"}
BY NoneAssumption DEF Inv, Coherent, EndInv, TailInv

\* A relay goes to its next await.
LEMMA GoesTo ==
  ASSUME TypeOK, NEW s \in Side, NEW x \in Step, Goes(s, x)
  PROVE  RelayIs(s, x, relay[s].cause, relay[s].farewell, relay[s].proved)
BY PeerOf DEF TypeOK, Goes, Relay, RelayIs

LEMMA RelayPut ==
  ASSUME TypeOK, NEW s \in Side, NEW r \in Relay, relay' = [relay EXCEPT ![s] = r]
  PROVE  RelayIs(s, r.step, r.cause, r.farewell, r.proved)
BY PeerOf DEF TypeOK, RelayIs

\* A relay stops.
LEMMA StopsWith ==
  ASSUME TypeOK, NEW s \in Side, NEW x \in Cause, NEW f \in Farewells, Stops(s, x, f)
  PROVE  RelayIs(s, "ending", x, f, relay[s].proved)
<1> DEFINE r == [relay[s] EXCEPT !.step = "ending", !.cause = x, !.farewell = f]
<1>1. relay' = [relay EXCEPT ![s] = r]
  BY DEF TypeOK, Stops, Relay
<1>2. /\ r \in Relay /\ r.step = "ending" /\ r.cause = x /\ r.farewell = f
      /\ r.proved = relay[s].proved
  BY DEF TypeOK, Relay, Step, Farewells
<1> QED
  BY <1>1, <1>2, PeerOf DEF TypeOK, RelayIs

LEMMA NetPut ==
  ASSUME TypeOK, NEW s \in Side, NEW q \in Queue, net' = [net EXCEPT ![s] = q]
  PROVE  NetIs(s, q.hand, q.data, q.end, q.close)
BY PeerOf DEF TypeOK, NetIs

\* A frame is taken.
LEMMA TakesHand ==
  ASSUME TypeOK, NEW s \in Side, Take(s, "hand", None)
  PROVE  NetIs(Peer(s), None, In(s).data, In(s).end, In(s).close)
BY PeerOf DEF TypeOK, NetIs, Take, In, Queue

LEMMA TakesData ==
  ASSUME TypeOK, NEW s \in Side, NEW d \in 0 .. Window, Take(s, "data", d)
  PROVE  NetIs(Peer(s), In(s).hand, d, In(s).end, In(s).close)
BY PeerOf DEF TypeOK, NetIs, Take, In, Queue

LEMMA EndType == ASSUME NEW q \in Queue, NEW b \in BOOLEAN PROVE [q EXCEPT !.end = b] \in Queue
BY DEF Queue

LEMMA TakesEnd ==
  ASSUME TypeOK, NEW s \in Side, Take(s, "end", FALSE)
  PROVE  NetIs(Peer(s), In(s).hand, In(s).data, FALSE, In(s).close)
<1> DEFINE q == [net[Peer(s)] EXCEPT !.end = FALSE]
<1>1. net' = [net EXCEPT ![Peer(s)] = q]
  BY PeerOf DEF TypeOK, Take, Queue
<1>2. /\ q \in Queue /\ q.hand = In(s).hand /\ q.data = In(s).data
      /\ ~q.end /\ q.close = In(s).close
  <2>1. q \in Queue
    BY PeerOf, EndType DEF TypeOK
  <2>2. q.hand = In(s).hand /\ q.data = In(s).data /\ q.close = In(s).close
    BY PeerOf DEF TypeOK, Queue, In
  <2>3. ~q.end
    BY PeerOf DEF TypeOK, Queue
  <2> QED
    BY <2>1, <2>2, <2>3
<1> HIDE DEF q
<1>3. NetIs(Peer(s), q.hand, q.data, q.end, q.close)
  BY <1>1, <1>2, PeerOf, NetPut
<1> QED
  BY <1>2, <1>3 DEF NetIs

\* A frame is put on the way.
LEMMA CarryHand ==
  ASSUME NEW q \in Queue, NEW h \in {"reply", "confirm"}
  PROVE  /\ Carry(q, "hand", h) \in Queue
         /\ Carry(q, "hand", h).hand = IF q.close # None THEN q.hand ELSE h
         /\ Carry(q, "hand", h).data = q.data /\ Carry(q, "hand", h).end = q.end
         /\ Carry(q, "hand", h).close = q.close
BY DEF Carry, Queue

LEMMA CarryData ==
  ASSUME NEW q \in Queue, NEW d \in 0 .. Window
  PROVE  /\ Carry(q, "data", d) \in Queue
         /\ Carry(q, "data", d).data = IF q.close # None THEN q.data ELSE d
         /\ Carry(q, "data", d).hand = q.hand /\ Carry(q, "data", d).end = q.end
         /\ Carry(q, "data", d).close = q.close
BY DEF Carry, Queue

LEMMA CarryEnd ==
  ASSUME NEW q \in Queue
  PROVE  /\ Carry(q, "end", TRUE) \in Queue
         /\ Carry(q, "end", TRUE).end = IF q.close # None THEN q.end ELSE TRUE
         /\ Carry(q, "end", TRUE).hand = q.hand /\ Carry(q, "end", TRUE).data = q.data
         /\ Carry(q, "end", TRUE).close = q.close
BY DEF Carry, Queue

LEMMA CarryClose ==
  ASSUME NEW q \in Queue, NEW c \in {"normal", "failure"}
  PROVE  /\ Carry(q, "close", c) \in Queue
         /\ Carry(q, "close", c).close = IF q.close # None THEN q.close ELSE c
         /\ Carry(q, "close", c).hand = q.hand /\ Carry(q, "close", c).data = q.data
         /\ Carry(q, "close", c).end = q.end
BY DEF Carry, Queue

-----------------------------------------------------------------------------
(* The loop.                                                               *)

LEMMA ReadAppKeeps ==
  ASSUME Inv, NEW s \in Side, ReadApp(s)
  PROVE  Inv'
<1>1. RelayIs(s, "sending", relay[s].cause, relay[s].farewell, relay[s].proved)
  BY GoesTo DEF Inv, ReadApp, Step
<1>2. AppIs(s, app[s].wrote, app[s].unread - 1, app[s].got, app[s].sees)
  BY PeerOf, SizeAssumption DEF Inv, TypeOK, ReadApp, Application, AppIs
<1>3. net' = net /\ path' = path /\ setup' = setup /\ relay[s].step = "relaying"
      /\ app[s].unread > 0
  BY DEF ReadApp
<1>4. /\ Numbers(s) /\ Numbers(Peer(s))
      /\ Peer(s) \in Side /\ Peer(s) # s /\ Peer(Peer(s)) = s
  BY Counts, PeerOf DEF Inv
<1>5. TypeOK'
  BY <1>1, <1>2, <1>3 DEF Inv, TypeOK, RelayIs, AppIs
<1>6. ASSUME NEW t \in Side PROVE Coherent(t)'
  <2>1. Coherent(t)
    BY DEF Inv
  <2>2. CASE t = s
    BY <1>1, <1>2, <1>3, <1>4, <2>1, <2>2 DEF Coherent, Over, Active, Numbers, RelayIs, AppIs
  <2>3. CASE t = Peer(s)
    BY <1>1, <1>2, <1>3, <1>4, <2>1, <2>3 DEF Coherent, Over, Active, Numbers, RelayIs, AppIs
  <2> QED
    BY <2>2, <2>3, PeerOf
<1>7. /\ Conserved(s) => Conserved(s)'
      /\ Conserved(Peer(s)) => Conserved(Peer(s))'
  BY <1>1, <1>2, <1>3, <1>4 DEF Conserved, Numbers, RelayIs, AppIs
<1>8. ASSUME NEW t \in Side PROVE FlowInv(t)'
  <2>1. FlowInv(t)
    BY DEF Inv
  <2>2. CASE t = s
    BY <1>1, <1>2, <1>3, <1>4, <1>7, <2>1, <2>2 DEF FlowInv, Over, RelayIs, AppIs
  <2>3. CASE t = Peer(s)
    BY <1>1, <1>2, <1>3, <1>4, <1>7, <2>1, <2>3 DEF FlowInv, Over, RelayIs, AppIs
  <2> QED
    BY <2>2, <2>3, PeerOf
<1>9. ASSUME NEW t \in Side PROVE EndInv(t)'
  <2>1. EndInv(t)
    BY DEF Inv
  <2>2. CASE t = s
    BY <1>1, <1>2, <1>3, <1>4, <1>7, <2>1, <2>2, Working DEF EndInv, QuitInv, TailInv, TakenInv, Spent, Over, RelayIs, AppIs
  <2>3. CASE t = Peer(s)
    BY <1>1, <1>2, <1>3, <1>4, <1>7, <2>1, <2>3, Working DEF EndInv, QuitInv, TailInv, TakenInv, Spent, Over, RelayIs, AppIs
  <2> QED
    BY <2>2, <2>3, PeerOf
<1>10. (ClientInv /\ DaemonInv /\ ShakeInv /\ ToldInv /\ CloseInv)'
  BY <1>1, <1>2, <1>3, <1>4
  DEF Inv, Coherent, Side, Peer, Over, RelayIs, AppIs, ClientInv, DaemonInv, ShakeInv,
      ToldInv, ClosedInHandshake, CloseInv
<1> QED
  BY <1>5, <1>6, <1>8, <1>9, <1>10 DEF Inv

LEMMA SendKeeps ==
  ASSUME Inv, NEW s \in Side, Send(s)
  PROVE  Inv'
<1> DEFINE q == Carry(net[s], "data", net[s].data + 1)
<1>1. RelayIs(s, "relaying", relay[s].cause, relay[s].farewell, relay[s].proved)
  BY GoesTo DEF Inv, Send, Step
<1>2. app' = app /\ path' = path /\ setup' = setup /\ relay[s].step = "sending"
  BY DEF Send
<1>3. /\ Numbers(s) /\ Numbers(Peer(s))
      /\ Peer(s) \in Side /\ Peer(s) # s /\ Peer(Peer(s)) = s
  BY Counts, PeerOf DEF Inv
<1>4. PICK d \in Nat :
        /\ NetIs(s, net[s].hand, d, net[s].end, net[s].close)
        /\ \/ net[s].close # None \/ Down(s)
           \/ d = net[s].data + 1
  <2>1. CASE net[s].close = None /\ ~Down(s)
    <3>1. net[s].data + 1 \in 0 .. Window /\ net[s] \in Queue
      BY <1>3, <2>1, SizeAssumption DEF Send, Load, Inv, TypeOK, Numbers
    <3>2. net' = [net EXCEPT ![s] = q]
      BY <2>1 DEF Send
    <3>3. /\ q \in Queue /\ q.data = net[s].data + 1 /\ q.hand = net[s].hand
          /\ q.end = net[s].end /\ q.close = net[s].close
      BY <2>1, <3>1, CarryData
    <3> HIDE DEF q
    <3> QED
      <4>1. NetIs(s, net[s].hand, net[s].data + 1, net[s].end, net[s].close)
        BY <3>2, <3>3, NetPut DEF Inv
      <4> QED
        BY <1>3, <4>1 DEF Numbers
  <2>2. CASE net[s].close # None \/ Down(s)
    <3>1. net' = net /\ Peer(s) \in Side
      BY PeerOf, <2>2 DEF Send, Carry, Inv, TypeOK
    <3> QED
      BY <1>3, <2>2, <3>1 DEF NetIs, Inv, TypeOK, Numbers
  <2> QED
    BY <2>1, <2>2
<1>5. TypeOK'
  BY <1>1, <1>2, <1>4 DEF Inv, TypeOK, RelayIs, NetIs
<1>6. ASSUME NEW t \in Side PROVE Coherent(t)'
  <2>1. Coherent(t)
    BY DEF Inv
  <2>2. CASE t = s
    BY <1>1, <1>2, <1>3, <1>4, <2>1, <2>2, NoneAssumption DEF Coherent, Over, Active, Numbers, RelayIs, NetIs, Down
  <2>3. CASE t = Peer(s)
    BY <1>1, <1>2, <1>3, <1>4, <2>1, <2>3 DEF Coherent, Over, Active, Numbers, RelayIs, NetIs, Down
  <2> QED
    BY <2>2, <2>3, PeerOf
<1>7. /\ Conserved(s) /\ net[s].close = None /\ ~Down(s) => Conserved(s)'
      /\ Conserved(Peer(s)) => Conserved(Peer(s))'
  BY <1>1, <1>2, <1>3, <1>4 DEF Conserved, Numbers, RelayIs, NetIs, Down
<1>8. ASSUME NEW t \in Side PROVE FlowInv(t)'
  <2>1. FlowInv(t)
    BY DEF Inv
  <2>2. CASE t = s
    BY <1>1, <1>2, <1>3, <1>4, <1>7, <2>1, <2>2 DEF FlowInv, Over, RelayIs, NetIs, Down
  <2>3. CASE t = Peer(s)
    BY <1>1, <1>2, <1>3, <1>4, <1>7, <2>1, <2>3 DEF FlowInv, Over, RelayIs, NetIs, Down
  <2> QED
    BY <2>2, <2>3, PeerOf
<1>9. ASSUME NEW t \in Side PROVE EndInv(t)'
  <2>1. EndInv(t)
    BY DEF Inv
  <2>2. CASE t = s
    BY <1>1, <1>2, <1>3, <1>4, <1>7, <2>1, <2>2, Working DEF EndInv, QuitInv, TailInv, TakenInv, Spent, Over, RelayIs, NetIs, Down
  <2>3. CASE t = Peer(s)
    BY <1>1, <1>2, <1>3, <1>4, <1>7, <2>1, <2>3, Working DEF EndInv, QuitInv, TailInv, TakenInv, Spent, Over, RelayIs, NetIs, Down
  <2> QED
    BY <2>2, <2>3, PeerOf
<1>10. (ClientInv /\ DaemonInv /\ ShakeInv /\ ToldInv /\ CloseInv)'
  BY <1>1, <1>2, <1>3, <1>4
  DEF Inv, Coherent, Side, Peer, Over, RelayIs, NetIs, Down, ClientInv, DaemonInv, ShakeInv,
      ToldInv, ClosedInHandshake, CloseInv
<1> QED
  BY <1>5, <1>6, <1>8, <1>9, <1>10 DEF Inv

LEMMA TakeChunkKeeps ==
  ASSUME Inv, NEW s \in Side, TakeChunk(s)
  PROVE  Inv'
<1> DEFINE p == Peer(s)
<1>1. RelayIs(s, "writing", relay[s].cause, relay[s].farewell, relay[s].proved)
  BY GoesTo DEF Inv, TakeChunk, Step
<1>2. app' = app /\ path' = path /\ setup' = setup /\ relay[s].step = "relaying"
      /\ net[p].data > 0
  BY DEF TakeChunk, AtData, In
<1>3. /\ Numbers(s) /\ Numbers(Peer(s))
      /\ Peer(s) \in Side /\ Peer(s) # s /\ Peer(Peer(s)) = s
  BY Counts, PeerOf DEF Inv
<1>4. NetIs(p, net[p].hand, net[p].data - 1, net[p].end, net[p].close)
  <2>1. In(s).data - 1 \in 0 .. Window
    BY <1>2, PeerOf, SizeAssumption DEF Inv, TypeOK, Queue, In
  <2> QED
    BY <2>1, TakesData DEF TakeChunk, Inv, In
<1>5. TypeOK'
  BY <1>1, <1>2, <1>4 DEF Inv, TypeOK, RelayIs, NetIs
<1>6. ASSUME NEW t \in Side PROVE Coherent(t)'
  <2>1. Coherent(t)
    BY DEF Inv
  <2>2. CASE t = s
    BY <1>1, <1>2, <1>3, <1>4, <2>1, <2>2, NoneAssumption DEF Coherent, Over, Active, Numbers, RelayIs, NetIs
  <2>3. CASE t = Peer(s)
    BY <1>1, <1>2, <1>3, <1>4, <2>1, <2>3 DEF Coherent, Over, Active, Numbers, RelayIs, NetIs
  <2> QED
    BY <2>2, <2>3, PeerOf
<1>7. /\ Conserved(s) => Conserved(s)'
      /\ Conserved(Peer(s)) => Conserved(Peer(s))'
  BY <1>1, <1>2, <1>3, <1>4 DEF Conserved, Numbers, RelayIs, NetIs
<1>8. ASSUME NEW t \in Side PROVE FlowInv(t)'
  <2>1. FlowInv(t)
    BY DEF Inv
  <2>2. CASE t = s
    BY <1>1, <1>2, <1>3, <1>4, <1>7, <2>1, <2>2 DEF FlowInv, Over, RelayIs, NetIs
  <2>3. CASE t = Peer(s)
    BY <1>1, <1>2, <1>3, <1>4, <1>7, <2>1, <2>3 DEF FlowInv, Over, RelayIs, NetIs
  <2> QED
    BY <2>2, <2>3, PeerOf
<1>9. ASSUME NEW t \in Side PROVE EndInv(t)'
  <2>1. EndInv(t)
    BY DEF Inv
  <2>2. CASE t = s
    BY <1>1, <1>2, <1>3, <1>4, <1>7, <2>1, <2>2, Working DEF EndInv, QuitInv, TailInv, TakenInv, Spent, Over, RelayIs, NetIs
  <2>3. CASE t = Peer(s)
    BY <1>1, <1>2, <1>3, <1>4, <1>7, <2>1, <2>3, Working DEF EndInv, QuitInv, TailInv, TakenInv, Spent, Over, RelayIs, NetIs
  <2> QED
    BY <2>2, <2>3, PeerOf
<1>10. (ClientInv /\ DaemonInv /\ ShakeInv /\ ToldInv /\ CloseInv)'
  BY <1>1, <1>2, <1>3, <1>4
  DEF Inv, Coherent, Side, Peer, Over, RelayIs, NetIs, ClientInv, DaemonInv, ShakeInv,
      ToldInv, ClosedInHandshake, CloseInv
<1> QED
  BY <1>5, <1>6, <1>8, <1>9, <1>10 DEF Inv

LEMMA WriteKeeps ==
  ASSUME Inv, NEW s \in Side, Write(s)
  PROVE  Inv'
<1>1. RelayIs(s, "relaying", relay[s].cause, relay[s].farewell, relay[s].proved)
  BY GoesTo DEF Inv, Write, Step
<1>2. AppIs(s, app[s].wrote, app[s].unread, app[s].got + 1, app[s].sees)
  BY PeerOf, SizeAssumption DEF Inv, TypeOK, Write, Application, AppIs
<1>3. net' = net /\ path' = path /\ setup' = setup /\ relay[s].step = "writing"
  BY DEF Write
<1>4. /\ Numbers(s) /\ Numbers(Peer(s))
      /\ Peer(s) \in Side /\ Peer(s) # s /\ Peer(Peer(s)) = s
  BY Counts, PeerOf DEF Inv
<1>5. TypeOK'
  BY <1>1, <1>2, <1>3 DEF Inv, TypeOK, RelayIs, AppIs
<1>6. ASSUME NEW t \in Side PROVE Coherent(t)'
  <2>1. Coherent(t)
    BY DEF Inv
  <2>2. CASE t = s
    BY <1>1, <1>2, <1>3, <1>4, <2>1, <2>2, NoneAssumption DEF Coherent, Over, Active, Numbers, RelayIs, AppIs
  <2>3. CASE t = Peer(s)
    BY <1>1, <1>2, <1>3, <1>4, <2>1, <2>3 DEF Coherent, Over, Active, Numbers, RelayIs, AppIs
  <2> QED
    BY <2>2, <2>3, PeerOf
<1>7. /\ Conserved(s) => Conserved(s)'
      /\ Conserved(Peer(s)) => Conserved(Peer(s))'
  BY <1>1, <1>2, <1>3, <1>4 DEF Conserved, Numbers, RelayIs, AppIs
<1>8. ASSUME NEW t \in Side PROVE FlowInv(t)'
  <2>1. FlowInv(t)
    BY DEF Inv
  <2>2. CASE t = s
    BY <1>1, <1>2, <1>3, <1>4, <1>7, <2>1, <2>2 DEF FlowInv, Over, RelayIs, AppIs
  <2>3. CASE t = Peer(s)
    BY <1>1, <1>2, <1>3, <1>4, <1>7, <2>1, <2>3 DEF FlowInv, Over, RelayIs, AppIs
  <2> QED
    BY <2>2, <2>3, PeerOf
<1>9. ASSUME NEW t \in Side PROVE EndInv(t)'
  <2>1. EndInv(t)
    BY DEF Inv
  <2>2. CASE t = s
    BY <1>1, <1>2, <1>3, <1>4, <1>7, <2>1, <2>2, Working DEF EndInv, QuitInv, TailInv, TakenInv, Spent, Over, RelayIs, AppIs
  <2>3. CASE t = Peer(s)
    BY <1>1, <1>2, <1>3, <1>4, <1>7, <2>1, <2>3, Working DEF EndInv, QuitInv, TailInv, TakenInv, Spent, Over, RelayIs, AppIs
  <2> QED
    BY <2>2, <2>3, PeerOf
<1>10. (ClientInv /\ DaemonInv /\ ShakeInv /\ ToldInv /\ CloseInv)'
  BY <1>1, <1>2, <1>3, <1>4
  DEF Inv, Coherent, Side, Peer, Over, RelayIs, AppIs, ClientInv, DaemonInv, ShakeInv,
      ToldInv, ClosedInHandshake, CloseInv
<1> QED
  BY <1>5, <1>6, <1>8, <1>9, <1>10 DEF Inv

\* A relay that stops in the middle of its loop, or of the client's handshake.
LEMMA StopsKeeps ==
  ASSUME Inv, NEW s \in Side, ~Over(s), s = "daemon" => Active(s),
         NEW c \in Bad \cup {"finished"}, NEW f \in Farewells, Stops(s, c, f),
         UNCHANGED <<setup, app, net, path>>,
         relay[s].step = "sending" => path = "cut" \/ Over(Peer(s)),
         f = <<"end", "normal">> => c = "finished",
         f = <<"failure">> => c # "finished",
         c = "finished" => Spent(s),
         c = "finished" /\ s = "daemon" /\ setup.identity => f = <<"end", "normal">>,
         c = "error" /\ s = "daemon" => app[s].fin,
         s = "client" /\ c \in Bad /\ setup.identity /\ path = "whole" /\ app[s].wrote = 0
           /\ ~app[s].gone => Over("daemon") /\ relay["daemon"].cause # "finished"
  PROVE  Inv'
<1>1. RelayIs(s, "ending", c, f, relay[s].proved)
  BY StopsWith DEF Inv, Cause, Bad
<1>2. app' = app /\ net' = net /\ path' = path /\ setup' = setup
  OBVIOUS
<1>3. /\ Numbers(s) /\ Numbers(Peer(s))
      /\ Peer(s) \in Side /\ Peer(s) # s /\ Peer(Peer(s)) = s
  BY Counts, PeerOf DEF Inv
<1>4. ~Over(s) /\ relay[s].cause \in {None, "replied"} /\ ~net[s].end
      /\ relay[s].cause \notin {"finished", "ended", "aborted"}
      /\ app[s].sees \notin {"eof", "reset"} /\ (s = "daemon" => app[s].sees = "open")
  BY Working DEF Over, Inv, Coherent
<1>5. TypeOK'
  BY <1>1, <1>2 DEF Inv, TypeOK, RelayIs
<1>6. ASSUME NEW t \in Side PROVE Coherent(t)'
  <2>1. Coherent(t)
    BY DEF Inv
  <2>2. CASE t = s
    <3>1. c \notin {None, "replied"}
      BY NoneAssumption DEF Bad
    <3>2. app[s].unread <= app[s].wrote
      BY <1>3, <2>1, <2>2 DEF Coherent, Numbers
    <3>3. app[s].unread + 0 = app[s].unread
      BY <1>3 DEF Numbers
    <3> QED
      BY <1>1, <1>2, <1>4, <2>1, <2>2, <3>1, <3>2, <3>3 DEF Coherent, Over, Active, RelayIs
  <2>3. CASE t = Peer(s)
    BY <1>1, <1>2, <1>3, <1>4, <2>1, <2>3 DEF Coherent, Over, Active, Numbers, RelayIs, Bad
  <2> QED
    BY <2>2, <2>3, PeerOf
<1>7. ASSUME NEW t \in Side PROVE FlowInv(t)'
  <2>1. FlowInv(t)
    BY DEF Inv
  <2>2. CASE t = s
    BY <1>1, <1>2, <1>3, <1>4, <2>1, <2>2 DEF FlowInv, Conserved, Over, RelayIs
  <2>3. CASE t = Peer(s)
    BY <1>1, <1>2, <1>3, <2>1, <2>3 DEF FlowInv, Over, RelayIs
  <2> QED
    BY <2>2, <2>3, PeerOf
<1>8. ASSUME NEW t \in Side PROVE EndInv(t)'
  <2>1. EndInv(t)
    BY DEF Inv
  <2>2. CASE t = s
    BY <1>1, <1>2, <1>3, <1>4, <2>1, <2>2
    DEF EndInv, QuitInv, TailInv, TakenInv, Spent, Over, RelayIs
  <2>3. CASE t = Peer(s)
    BY <1>1, <1>2, <1>3, <1>4, <2>1, <2>3
    DEF EndInv, QuitInv, TailInv, TakenInv, Spent, Over, RelayIs, Bad
  <2> QED
    BY <2>2, <2>3, PeerOf
<1>9. (ClientInv /\ DaemonInv /\ ShakeInv)'
  BY <1>1, <1>2, <1>4
  DEF Inv, Coherent, Side, Peer, Over, RelayIs, ClientInv, DaemonInv, ShakeInv, Active, Bad
<1>10. ToldInv'
  BY <1>1, <1>2, <1>4 DEF Inv, Side, Peer, RelayIs, ToldInv, ClosedInHandshake
<1>11. CloseInv'
  BY <1>1, <1>2, <1>4 DEF Inv, Side, Peer, Over, RelayIs, CloseInv, Bad
<1> QED
  BY <1>5, <1>6, <1>7, <1>8, <1>9, <1>10, <1>11 DEF Inv

LEMMA AppEndedKeeps ==
  ASSUME Inv, NEW s \in Side, AppEnded(s)
  PROVE  Inv'
<1>1. Spent(s) /\ Active(s) /\ ~Over(s) /\ relay[s].step # "sending"
  BY DEF AppEnded, Spent, Active, Over
<1>2. Ending \in Farewells /\ Ending # <<"failure">> /\ (setup.identity => Ending = <<"end", "normal">>)
  BY DEF Ending, Farewells
<1> QED
  BY <1>1, <1>2, StopsKeeps DEF AppEnded, Bad

LEMMA AppFailedKeeps ==
  ASSUME Inv, NEW s \in Side, AppFailed(s)
  PROVE  Inv'
<1>1. Active(s) /\ ~Over(s) /\ relay[s].step # "sending" /\ app[s].fin /\ app[s].gone
  BY DEF AppFailed, Active, Over, Inv, Coherent
<1> DEFINE f == IF s = "client" THEN <<>> ELSE <<"failure">>
<1>2. f \in Farewells /\ f # <<"end", "normal">>
  BY DEF Farewells
<1>3. Stops(s, "error", f) /\ UNCHANGED <<setup, app, net, path>>
  BY DEF AppFailed
<1> HIDE DEF f
<1> QED
  BY <1>1, <1>2, <1>3, StopsKeeps DEF Bad

LEMMA SendFailsKeeps ==
  ASSUME Inv, NEW s \in Side, SendFails(s)
  PROVE  Inv'
<1>1. Active(s) /\ ~Over(s) /\ (path = "cut" \/ Over(Peer(s)))
  BY DEF SendFails, Active, Down, Over
<1>2. app[s].wrote # 0
  <2>1. Numbers(s) /\ Coherent(s) /\ relay[s].step = "sending"
    BY Counts DEF Inv, SendFails
  <2> QED
    BY <2>1 DEF Coherent, Numbers
<1>3. <<>> \in Farewells /\ <<>> # <<"end", "normal">> /\ <<>> # <<"failure">>
  BY DEF Farewells
<1> QED
  BY <1>1, <1>2, <1>3, StopsKeeps DEF SendFails, Bad

LEMMA WriteFailsKeeps ==
  ASSUME Inv, NEW s \in Side, WriteFails(s)
  PROVE  Inv'
<1>1. Active(s) /\ ~Over(s) /\ relay[s].step # "sending" /\ app[s].fin /\ app[s].gone
  BY DEF WriteFails, Active, Over, Inv, Coherent
<1>2. Ending \in Farewells /\ Ending # <<"failure">> /\ <<"normal">> \in Farewells
      /\ <<"normal">> # <<"end", "normal">> /\ <<"normal">> # <<"failure">>
  BY DEF Ending, Farewells
<1>3. CASE s = "client"
  <2>1. Spent(s) /\ Stops(s, "finished", Ending) /\ UNCHANGED <<setup, app, net, path>>
    BY <1>1, <1>3 DEF Spent, WriteFails
  <2> QED
    BY <1>1, <1>2, <1>3, <2>1, StopsKeeps DEF Bad
<1>4. CASE s # "client"
  <2>1. Stops(s, "error", <<"normal">>) /\ UNCHANGED <<setup, app, net, path>>
    BY <1>4 DEF WriteFails
  <2> QED
    BY <1>1, <1>2, <1>4, <2>1, StopsKeeps DEF Bad
<1> QED
  BY <1>3, <1>4

\* A working client that meets the end of the daemon's frames over a whole path
\* meets one that has not finished.
LEMMA UnfinishedEnd ==
  ASSUME Inv, ~Over("client"), path = "whole", setup.identity,
         AtClose("client") \/ HungUp("client")
  PROVE  Over("daemon") /\ relay["daemon"].cause # "finished"
<1>1. "client" \in Side /\ "daemon" \in Side /\ Peer("client") = "daemon"
  BY DEF Side, Peer
<1>2. Over("daemon") /\ ~net["daemon"].end
  <2>1. CASE AtClose("client")
    BY <1>1, <2>1 DEF AtClose, In, Inv, CloseInv
  <2>2. CASE HungUp("client")
    <3>1. relay["daemon"].step = "done"
      BY <1>1, <2>2 DEF HungUp, Down
    <3>2. Load(net["daemon"]) = 0 /\ Numbers("daemon")
      BY <1>1, <2>2, Counts DEF HungUp, In, Inv
    <3>3. ~net["daemon"].end
      BY <3>2 DEF Load, Numbers
    <3> QED
      BY <3>1, <3>3 DEF Over
  <2> QED
    BY <2>1, <2>2
<1>3. relay["daemon"].farewell = <<"end", "normal">> => net["daemon"].close # None
  <2>1. CASE AtClose("client")
    BY <1>1, <2>1 DEF AtClose, In
  <2>2. CASE HungUp("client")
    BY <1>1, <2>2 DEF HungUp, Down, Inv, Coherent
  <2> QED
    BY <2>1, <2>2
<1> QED
  BY <1>2, <1>3 DEF Inv, CloseInv

LEMMA TakeCloseKeeps ==
  ASSUME Inv, NEW s \in Side, TakeClose(s)
  PROVE  Inv'
<1> DEFINE f == IF s = "client" THEN <<>> ELSE <<"normal">>
<1>1. Active(s) /\ ~Over(s) /\ relay[s].step # "sending" /\ AtClose(s)
  BY DEF TakeClose, Active, Over
<1>2. f \in Farewells /\ f # <<"end", "normal">> /\ f # <<"failure">>
  BY DEF Farewells
<1>3. Stops(s, In(s).close, f) /\ UNCHANGED <<setup, app, net, path>>
  BY DEF TakeClose
<1>4. In(s).close \in {"normal", "failure"}
  BY PeerOf DEF TakeClose, AtClose, In, Inv, TypeOK, Queue
<1> HIDE DEF f
<1> QED
  BY <1>1, <1>2, <1>3, <1>4, StopsKeeps, UnfinishedEnd DEF Bad

LEMMA TakeHangupKeeps ==
  ASSUME Inv, NEW s \in Side, TakeHangup(s)
  PROVE  Inv'
<1>1. Active(s) /\ ~Over(s) /\ relay[s].step # "sending" /\ HungUp(s)
  BY DEF TakeHangup, Active, Over
<1>2. <<>> \in Farewells /\ <<>> # <<"end", "normal">> /\ <<>> # <<"failure">>
  BY DEF Farewells
<1> QED
  BY <1>1, <1>2, StopsKeeps, UnfinishedEnd DEF TakeHangup, Bad

LEMMA TakeEndKeeps ==
  ASSUME Inv, NEW s \in Side, TakeEnd(s)
  PROVE  Inv'
<1>1. RelayIs(s, "ending", "ended", <<"normal">>, relay[s].proved)
  BY StopsWith DEF Inv, Cause, Farewells, TakeEnd
<1>2. NetIs(Peer(s), net[Peer(s)].hand, net[Peer(s)].data, FALSE, net[Peer(s)].close)
  BY TakesEnd DEF Inv, In, TakeEnd
<1>3. /\ app' = app /\ path' = path /\ setup' = setup /\ relay[s].step = "relaying"
      /\ net[Peer(s)].data = 0 /\ net[Peer(s)].end
  BY DEF TakeEnd, AtEnd, In
<1>4. /\ Numbers(s) /\ Numbers(Peer(s))
      /\ Peer(s) \in Side /\ Peer(s) # s /\ Peer(Peer(s)) = s
  BY Counts, PeerOf DEF Inv
<1>5. /\ ~Over(s) /\ relay[s].cause \in {None, "replied"} /\ ~net[s].end
      /\ relay[s].cause \notin {"finished", "ended", "aborted"} /\ app[s].sees = "open"
  BY <1>3, Working DEF Active, Over, Inv, Coherent
<1>6. Over(Peer(s)) /\ Spent(Peer(s)) /\ Conserved(Peer(s))
      /\ relay[Peer(s)].cause \in {"finished", "aborted"}
  BY <1>3, <1>4, <1>5 DEF Inv, EndInv, TailInv
<1>7. app[s].got = app[Peer(s)].wrote \/ (Peer(s) = "client" /\ app[Peer(s)].gone)
  <2>1. app[Peer(s)].wrote = app[s].got + 0 + 0 + 0 + app[Peer(s)].unread
    BY <1>3, <1>4, <1>6 DEF Conserved, Over
  <2> QED
    BY <1>4, <1>6, <2>1 DEF Spent, Numbers
<1>8. TypeOK'
  BY <1>1, <1>2, <1>3 DEF Inv, TypeOK, RelayIs, NetIs
<1>9. ASSUME NEW t \in Side PROVE Coherent(t)'
  <2>1. Coherent(t)
    BY DEF Inv
  <2>2. CASE t = s
    <3>1. "ended" \notin {None, "replied"} /\ <<"normal">> # <<"end", "normal">>
          /\ <<"normal">> # <<"failure">> /\ <<"normal">> # <<>>
      BY NoneAssumption
    <3>2. app[s].unread <= app[s].wrote /\ app[s].unread + 0 = app[s].unread
      BY <1>3, <1>4, <2>1, <2>2 DEF Coherent, Numbers
    <3> QED
      BY <1>1, <1>3, <1>5, <2>1, <2>2, <3>1, <3>2 DEF Coherent, Over, Active, RelayIs
  <2>3. CASE t = Peer(s)
    BY <1>1, <1>3, <1>4, <2>1, <2>3 DEF Coherent, Over, Active, RelayIs
  <2> QED
    BY <2>2, <2>3, PeerOf
<1>10. ASSUME NEW t \in Side PROVE FlowInv(t)'
  <2>1. FlowInv(t)
    BY DEF Inv
  <2>2. CASE t = s
    BY <1>4, <1>6, <1>1, <2>2 DEF FlowInv, Over, RelayIs
  <2>3. CASE t = Peer(s)
    BY <1>1, <1>4, <2>3 DEF FlowInv, Over, RelayIs
  <2> QED
    BY <2>2, <2>3, PeerOf
<1>11. ASSUME NEW t \in Side PROVE EndInv(t)'
  <2>1. EndInv(t)
    BY DEF Inv
  <2>2. CASE t = s
    BY <1>1, <1>2, <1>3, <1>4, <1>5, <2>1, <2>2
    DEF EndInv, QuitInv, TailInv, TakenInv, Spent, Over, RelayIs, NetIs
  <2>3. CASE t = Peer(s)
    BY <1>1, <1>2, <1>3, <1>4, <1>6, <1>7, <2>1, <2>3
    DEF EndInv, QuitInv, TailInv, TakenInv, Spent, Over, RelayIs, NetIs
  <2> QED
    BY <2>2, <2>3, PeerOf
<1>12. (ClientInv /\ DaemonInv /\ ShakeInv)'
  BY <1>1, <1>2, <1>3, <1>5
  DEF Inv, Side, Peer, Over, RelayIs, NetIs, ClientInv, DaemonInv, ShakeInv
<1>13. (ToldInv /\ CloseInv)'
  BY <1>1, <1>2, <1>3, <1>5
  DEF Inv, Side, Peer, Over, RelayIs, NetIs, ToldInv, ClosedInHandshake, CloseInv, Bad
<1> QED
  BY <1>8, <1>9, <1>10, <1>11, <1>12, <1>13 DEF Inv

-----------------------------------------------------------------------------
(* The end.                                                                *)

\* The farewells, frame by frame.
LEMMA Frames ==
  /\ Head(<<"end", "normal">>) = "end" /\ Tail(<<"end", "normal">>) = <<"normal">>
  /\ Head(<<"normal">>) = "normal" /\ Tail(<<"normal">>) = <<>>
  /\ Head(<<"failure">>) = "failure" /\ Tail(<<"failure">>) = <<>>
<1>1. Head(<<"end", "normal">>) = "end" /\ Head(<<"normal">>) = "normal"
      /\ Head(<<"failure">>) = "failure"
  OBVIOUS
<1>2. Tail(<<"end", "normal">>) = <<"normal">>
  OBVIOUS
<1>3. Tail(<<"normal">>) = <<>> /\ Tail(<<"failure">>) = <<>>
  OBVIOUS
<1> QED
  BY <1>1, <1>2, <1>3

LEMMA FarewellKeeps ==
  ASSUME Inv, NEW s \in Side, Farewell(s)
  PROVE  Inv'
<1>1. PICK g \in {<<>>, <<"normal">>}, e \in BOOLEAN, c \in {None, "normal", "failure"} :
        /\ RelayIs(s, "ending", relay[s].cause, g, relay[s].proved)
        /\ NetIs(s, net[s].hand, net[s].data, e, c)
        /\ net[s].end => e
        /\ e => net[s].end \/ (path # "cut" /\ net[s].close = None /\ relay[s].cause = "finished")
        /\ net[s].close # None => c = net[s].close
        /\ c = "failure" => net[s].close = "failure" \/ relay[s].cause # "finished"
        /\ relay[s].farewell = <<"end", "normal">> /\ net[s].close = None =>
             Down(s) \/ (e /\ c = None)
  <2>1. relay[s].step = "ending" /\ relay[s] \in Relay /\ net[s] \in Queue
    BY DEF Farewell, Inv, TypeOK
  <2>2. CASE Down(s) /\ relay' = [relay EXCEPT ![s].farewell = <<>>] /\ net' = net
    <3>1. RelayIs(s, "ending", relay[s].cause, <<>>, relay[s].proved)
      BY <2>1, <2>2, PeerOf DEF RelayIs, Relay, Inv, TypeOK
    <3>2. NetIs(s, net[s].hand, net[s].data, net[s].end, net[s].close)
      BY <2>2, PeerOf DEF NetIs, Inv, TypeOK
    <3>3. net[s].end \in BOOLEAN /\ net[s].close \in {None, "normal", "failure"}
      BY <2>1 DEF Queue
    <3> QED
      BY <2>2, <3>1, <3>2, <3>3
  <2>3. CASE /\ ~Down(s)
             /\ net' = [net EXCEPT ![s] = IF Head(relay[s].farewell) = "end"
                                          THEN Carry(@, "end", TRUE)
                                          ELSE Carry(@, "close", Head(relay[s].farewell))]
             /\ relay' = [relay EXCEPT ![s].farewell = Tail(@)]
    <3> DEFINE g == Tail(relay[s].farewell)
               q == IF Head(relay[s].farewell) = "end" THEN Carry(net[s], "end", TRUE)
                    ELSE Carry(net[s], "close", Head(relay[s].farewell))
    <3>1. relay[s].farewell \in {<<"end", "normal">>, <<"normal">>, <<"failure">>}
      BY <2>1 DEF Farewell, Relay
    <3>2. /\ relay[s].farewell = <<"end", "normal">> => Head(relay[s].farewell) = "end" /\ g = <<"normal">>
          /\ relay[s].farewell = <<"normal">> => Head(relay[s].farewell) = "normal" /\ g = <<>>
          /\ relay[s].farewell = <<"failure">> => Head(relay[s].farewell) = "failure" /\ g = <<>>
      BY Frames
    <3>3. g \in {<<>>, <<"normal">>} /\ relay' = [relay EXCEPT ![s].farewell = g]
      BY <2>3, <3>1, <3>2
    <3>4. net' = [net EXCEPT ![s] = q]
      BY <2>3
    <3>5. q \in Queue /\ q.hand = net[s].hand /\ q.data = net[s].data
          /\ (net[s].close # None => q.close = net[s].close /\ q.end = net[s].end)
      <4>1. CASE relay[s].farewell = <<"end", "normal">>
        <5>1. q = Carry(net[s], "end", TRUE)
          BY <3>2, <4>1
        <5> HIDE DEF q
        <5> QED
          BY <2>1, <5>1, CarryEnd
      <4>2. CASE relay[s].farewell # <<"end", "normal">>
        <5>1. PICK x \in {"normal", "failure"} : q = Carry(net[s], "close", x)
          BY <3>1, <3>2, <4>2
        <5> HIDE DEF q
        <5> QED
          BY <2>1, <5>1, CarryClose
      <4> QED
        BY <4>1, <4>2
    <3>6. ASSUME net[s].close = None
          PROVE  /\ relay[s].farewell = <<"end", "normal">> => q.end /\ q.close = None
                 /\ relay[s].farewell = <<"normal">> => q.end = net[s].end /\ q.close = "normal"
                 /\ relay[s].farewell = <<"failure">> => q.end = net[s].end /\ q.close = "failure"
      <4>1. ASSUME relay[s].farewell = <<"end", "normal">> PROVE q.end /\ q.close = None
        <5>1. q = Carry(net[s], "end", TRUE)
          BY <3>2, <4>1
        <5> HIDE DEF q
        <5> QED
          BY <2>1, <3>6, <5>1, CarryEnd
      <4>2. ASSUME NEW x \in {"normal", "failure"}, relay[s].farewell = <<x>>
            PROVE  q.end = net[s].end /\ q.close = x
        <5>1. q = Carry(net[s], "close", x)
          BY <3>2, <4>2
        <5> HIDE DEF q
        <5> QED
          BY <2>1, <3>6, <5>1, CarryClose
      <4> QED
        BY <4>1, <4>2
    <3>7. Coherent(s)
      BY DEF Inv
    <3> HIDE DEF g, q
    <3>8. RelayIs(s, "ending", relay[s].cause, g, relay[s].proved)
      BY <2>1, <3>3, PeerOf DEF RelayIs, Relay, Inv, TypeOK
    <3>9. NetIs(s, net[s].hand, net[s].data, q.end, q.close)
      BY <3>4, <3>5, NetPut DEF Inv, NetIs
    <3>10. q.end \in BOOLEAN /\ q.close \in {None, "normal", "failure"}
      BY <3>5 DEF Queue
    <3>11. /\ net[s].end => q.end
           /\ q.end => net[s].end \/ (path # "cut" /\ net[s].close = None /\ relay[s].cause = "finished")
      BY <2>3, <3>1, <3>5, <3>6, <3>7 DEF Coherent, Down
    <3>12. /\ net[s].close # None => q.close = net[s].close
           /\ q.close = "failure" => net[s].close = "failure" \/ relay[s].cause # "finished"
      BY <3>1, <3>5, <3>6, <3>7, NoneAssumption DEF Coherent
    <3>13. relay[s].farewell = <<"end", "normal">> /\ net[s].close = None => q.end /\ q.close = None
      BY <3>6
    <3> QED
      BY <3>3, <3>8, <3>9, <3>10, <3>11, <3>12, <3>13
  <2> QED
    BY <2>2, <2>3 DEF Farewell
<1>2. app' = app /\ path' = path /\ setup' = setup /\ relay[s].step = "ending"
  BY DEF Farewell
<1>3. /\ Numbers(s) /\ Numbers(Peer(s))
      /\ Peer(s) \in Side /\ Peer(s) # s /\ Peer(Peer(s)) = s
  BY Counts, PeerOf DEF Inv
<1>4. /\ <<>> # <<"normal">> /\ g # <<"end", "normal">> /\ g # <<"failure">> /\ Over(s)
  BY <1>2 DEF Over
<1>5. TypeOK'
  BY <1>1, <1>2 DEF Inv, TypeOK, RelayIs, NetIs
<1>6. ASSUME NEW t \in Side PROVE Coherent(t)'
  <2>1. Coherent(t)
    BY DEF Inv
  <2>2. CASE t = s
    BY <1>1, <1>2, <1>4, <2>1, <2>2 DEF Coherent, Over, Active, RelayIs
  <2>3. CASE t = Peer(s)
    BY <1>1, <1>2, <1>3, <2>1, <2>3 DEF Coherent, Over, Active, RelayIs
  <2> QED
    BY <2>2, <2>3, PeerOf
<1>7. /\ Conserved(s) => Conserved(s)'
      /\ Conserved(Peer(s)) => Conserved(Peer(s))'
  BY <1>1, <1>2, <1>3 DEF Conserved, RelayIs, NetIs
<1>8. ASSUME NEW t \in Side PROVE FlowInv(t)'
  <2>1. FlowInv(t)
    BY DEF Inv
  <2>2. CASE t = s
    BY <1>1, <1>2, <1>3, <1>7, <2>1, <2>2 DEF FlowInv, Over, RelayIs, NetIs
  <2>3. CASE t = Peer(s)
    BY <1>1, <1>2, <1>3, <1>4, <1>7, <2>1, <2>3 DEF FlowInv, Over, RelayIs, NetIs
  <2> QED
    BY <2>2, <2>3, PeerOf
<1>9. ASSUME NEW t \in Side PROVE EndInv(t)'
  <2>1. EndInv(t) /\ FlowInv(t)
    BY DEF Inv
  <2>2. CASE t = s
    BY <1>1, <1>2, <1>3, <1>4, <1>7, <2>1, <2>2
    DEF EndInv, FlowInv, QuitInv, TailInv, TakenInv, Spent, Over, RelayIs, NetIs
  <2>3. CASE t = Peer(s)
    BY <1>1, <1>2, <1>3, <1>4, <1>7, <2>1, <2>3
    DEF EndInv, QuitInv, TailInv, TakenInv, Spent, Over, RelayIs, NetIs
  <2> QED
    BY <2>2, <2>3, PeerOf
<1>10. (ClientInv /\ DaemonInv /\ ShakeInv /\ ToldInv)'
  BY <1>1, <1>2
  DEF Inv, Side, Peer, Over, RelayIs, NetIs, ClientInv, DaemonInv, ShakeInv, ToldInv, ClosedInHandshake
<1>11. CloseInv'
  <2>1. CloseInv
    BY DEF Inv
  <2>2. CASE s = "client"
    BY <1>1, <1>2, <1>4, <2>1, <2>2 DEF Peer, Over, RelayIs, NetIs, CloseInv
  <2>3. CASE s = "daemon"
    <3>1. Down(s) /\ path = "whole" => Over("client")
      BY <2>3 DEF Down, Peer, Over
    <3>2. c = "failure" => relay[s].cause # "finished"
      BY <1>1, <2>1, <2>3 DEF CloseInv
    <3> QED
      BY <1>1, <1>2, <1>4, <2>1, <2>3, <3>1, <3>2 DEF Peer, Over, RelayIs, NetIs, CloseInv
  <2> QED
    BY <2>2, <2>3 DEF Side
<1> QED
  BY <1>5, <1>6, <1>8, <1>9, <1>10, <1>11 DEF Inv

\* What an application sees of a connection that is dropped.
LEMMA DropsTo ==
  ASSUME TypeOK, NEW s \in Side, NEW b \in BOOLEAN, Drops(s, b)
  PROVE  \E x \in {"none", "open", "eof", "reset"} :
           /\ AppIs(s, app[s].wrote, app[s].unread, app[s].got, x)
           /\ app[s].sees # "open" => x = app[s].sees
           /\ app[s].sees = "open" => /\ x \in {"eof", "reset"}
                                      /\ b => x = "reset"
                                      /\ x = "reset" => b \/ app[s].unread > 0
<1>1. PICK v \in {"eof", "reset"} :
        /\ b => v = "reset"
        /\ v = "reset" => b \/ app[s].unread > 0
        /\ app' = [app EXCEPT ![s].sees = IF @ = "open" THEN v ELSE @]
  BY DEF Drops
<1> DEFINE x == IF app[s].sees = "open" THEN v ELSE app[s].sees
           r == [app[s] EXCEPT !.sees = x]
<1>2. app[s] \in Application /\ x \in {"none", "open", "eof", "reset"}
  BY DEF TypeOK, Application
<1>3. app' = [app EXCEPT ![s] = r]
  BY <1>1, <1>2 DEF TypeOK, Application
<1>4. /\ r \in Application /\ r.wrote = app[s].wrote /\ r.unread = app[s].unread
      /\ r.got = app[s].got /\ r.sees = x
  BY <1>2 DEF Application
<1>5. r.fin = app[s].fin /\ r.gone = app[s].gone
  BY <1>2 DEF Application
<1>6. (app[s].sees = "open" => x = v) /\ (app[s].sees # "open" => x = app[s].sees)
  OBVIOUS
<1> HIDE DEF x, r
<1>7. AppIs(s, app[s].wrote, app[s].unread, app[s].got, x)
  BY <1>3, <1>4, <1>5, PeerOf DEF AppIs, TypeOK
<1> QED
  BY <1>1, <1>2, <1>6, <1>7

\* What the client reports, against why its relay ended.
LEMMA VerdictOf ==
  ASSUME Inv, relay["client"].step = "ending", setup.identity
  PROVE  /\ Verdict \in {"Err", "Truncated", "Refused"} => relay["client"].cause \in Bad
         /\ Verdict \notin {"Err", "Truncated", "Refused"} =>
              relay["client"].cause \in {"finished", "ended"} \/ ClosedInHandshake
<1>1. relay["client"].cause \in Cause /\ Coherent("client") /\ ClientInv
  BY DEF Inv, TypeOK, Relay, Side
<1>2. relay["client"].cause \in {"finished", "ended", "normal", "failure", "hangup", "error"}
  BY <1>1 DEF Coherent, Over, ClientInv, Cause
<1> QED
  BY <1>2 DEF Verdict, Bad, ClosedInHandshake

LEMMA DoneKeeps ==
  ASSUME Inv, NEW s \in Side, Done(s)
  PROVE  Inv'
<1> DEFINE b == IF s = "client"
                THEN setup.identity /\ Verdict \in {"Err", "Truncated", "Refused"}
                ELSE CutShort
<1>1. RelayIs(s, "done", relay[s].cause, <<>>, relay[s].proved)
  BY GoesTo DEF Inv, Done, Step
<1>2. b \in BOOLEAN /\ Drops(s, b)
  BY DEF Done, CutShort, Inv, TypeOK
<1>3. /\ s = "client" /\ setup.identity =>
           /\ b => relay[s].cause \in Bad
           /\ ~b => relay[s].cause \in {"finished", "ended"} \/ ClosedInHandshake
      /\ s = "daemon" /\ setup.identity /\ ~b =>
           relay[s].cause \notin {"normal", "failure", "hangup"}
  BY VerdictOf DEF Done, CutShort
<1> HIDE DEF b
<1>4. PICK x \in {"none", "open", "eof", "reset"} :
           /\ AppIs(s, app[s].wrote, app[s].unread, app[s].got, x)
           /\ app[s].sees # "open" => x = app[s].sees
           /\ app[s].sees = "open" => /\ x \in {"eof", "reset"}
                                      /\ b => x = "reset"
                                      /\ x = "reset" => b \/ app[s].unread > 0
  BY <1>2, DropsTo DEF Inv
<1>5. net' = net /\ path' = path /\ setup' = setup
      /\ relay[s].step = "ending" /\ relay[s].farewell = <<>>
  BY DEF Done
<1>6. /\ Numbers(s) /\ Numbers(Peer(s))
      /\ Peer(s) \in Side /\ Peer(s) # s /\ Peer(Peer(s)) = s
  BY Counts, PeerOf DEF Inv
<1>7. /\ app[s].unread > 0 => app[s].wrote > 0
      /\ app[s].sees \in {"none", "open"} /\ (x = "none" <=> app[s].sees = "none")
  <2>1. Coherent(s) /\ app[s] \in Application
    BY DEF Inv, TypeOK
  <2> QED
    BY <1>4, <1>5, <1>6, <2>1 DEF Coherent, Numbers, Application
<1>8. TypeOK'
  BY <1>1, <1>4, <1>5 DEF Inv, TypeOK, RelayIs, AppIs
<1>9. ASSUME NEW t \in Side PROVE Coherent(t)'
  <2>1. Coherent(t)
    BY DEF Inv
  <2>2. CASE t = s
    BY <1>1, <1>4, <1>5, <1>7, <2>1, <2>2 DEF Coherent, Over, Active, RelayIs, AppIs
  <2>3. CASE t = Peer(s)
    BY <1>1, <1>4, <1>5, <1>6, <2>1, <2>3 DEF Coherent, Over, Active, RelayIs, AppIs
  <2> QED
    BY <2>2, <2>3, PeerOf
<1>10. /\ Conserved(s) => Conserved(s)'
       /\ Conserved(Peer(s)) => Conserved(Peer(s))'
  BY <1>1, <1>4, <1>5, <1>6 DEF Conserved, RelayIs, AppIs
<1>11. ASSUME NEW t \in Side PROVE FlowInv(t)'
  <2>1. FlowInv(t)
    BY DEF Inv
  <2>2. CASE t = s
    BY <1>1, <1>5, <1>6, <1>10, <2>1, <2>2 DEF FlowInv, Over, RelayIs
  <2>3. CASE t = Peer(s)
    BY <1>1, <1>5, <1>6, <1>10, <2>1, <2>3 DEF FlowInv, Over, RelayIs
  <2> QED
    BY <2>2, <2>3, PeerOf
<1>12. ASSUME NEW t \in Side PROVE EndInv(t)'
  <2>1. EndInv(t)
    BY DEF Inv
  <2>2. CASE t = s
    BY <1>1, <1>4, <1>5, <1>6, <1>7, <1>10, <2>1, <2>2
    DEF EndInv, QuitInv, TailInv, TakenInv, Spent, Over, RelayIs, AppIs
  <2>3. CASE t = Peer(s)
    BY <1>1, <1>4, <1>5, <1>6, <1>10, <2>1, <2>3
    DEF EndInv, QuitInv, TailInv, TakenInv, Spent, Over, RelayIs, AppIs
  <2> QED
    BY <2>2, <2>3, PeerOf
<1>13. (ClientInv /\ DaemonInv /\ ShakeInv /\ CloseInv)'
  BY <1>1, <1>4, <1>5, <1>7
  DEF Inv, Side, Peer, Over, RelayIs, AppIs, ClientInv, DaemonInv, ShakeInv, CloseInv
<1>14. ToldInv'
  <2>1. ToldInv /\ ClientInv /\ DaemonInv /\ Coherent(s) /\ relay[s].cause \in Cause
    BY DEF Inv, TypeOK, Relay
  <2>2. CASE s = "client"
    BY <1>1, <1>3, <1>4, <1>5, <1>7, <2>1, <2>2 DEF Peer, RelayIs, AppIs, ToldInv, ClosedInHandshake
  <2>3. CASE s = "daemon"
    <3>1. x = "eof" /\ setup.identity => relay[s].cause \in {"finished", "ended", "error"}
      BY <1>3, <1>4, <1>5, <1>7, <2>1, <2>3 DEF Coherent, Over, DaemonInv, Cause
    <3> QED
      BY <1>1, <1>4, <1>5, <2>1, <2>3, <3>1 DEF Peer, RelayIs, AppIs, ToldInv, ClosedInHandshake
  <2> QED
    BY <2>2, <2>3 DEF Side
<1> QED
  BY <1>8, <1>9, <1>11, <1>12, <1>13, <1>14 DEF Inv

LEMMA AbortKeeps ==
  ASSUME Inv, Abort
  PROVE  Inv'
<1> DEFINE s == "client"
<1>1. s \in Side /\ relay[s].step # "done" /\ ~setup.probe /\ net' = net /\ path' = path
      /\ setup' = setup
  BY DEF Abort, Side
<1>2. RelayIs(s, "done", "aborted", <<>>, relay[s].proved)
  <2> DEFINE r == [relay[s] EXCEPT !.step = "done", !.cause = "aborted", !.farewell = <<>>]
  <2>1. relay' = [relay EXCEPT ![s] = r]
    BY <1>1 DEF Abort, Inv, TypeOK, Relay
  <2>2. /\ r \in Relay /\ r.step = "done" /\ r.cause = "aborted" /\ r.farewell = <<>>
        /\ r.proved = relay[s].proved
    BY <1>1 DEF Inv, TypeOK, Relay, Step, Cause
  <2> HIDE DEF r
  <2> QED
    BY <1>1, <2>1, <2>2, PeerOf DEF Inv, TypeOK, RelayIs
<1>3. PICK x \in {"none", "open", "eof", "reset"} :
           /\ AppIs(s, app[s].wrote, app[s].unread, app[s].got, x)
           /\ app[s].sees # "open" => x = app[s].sees
           /\ app[s].sees = "open" => /\ x \in {"eof", "reset"}
                                      /\ x = "reset" => app[s].unread > 0
  <2>1. Drops(s, FALSE)
    BY DEF Abort
  <2> QED
    BY <1>1, <2>1, DropsTo DEF Inv
<1>4. /\ Numbers(s) /\ Numbers(Peer(s))
      /\ Peer(s) \in Side /\ Peer(s) # s /\ Peer(Peer(s)) = s
  BY <1>1, Counts, PeerOf DEF Inv
<1>5. app[s].sees = "open" /\ (app[s].unread > 0 => app[s].wrote > 0)
  <2>1. Coherent(s) /\ app[s] \in Application /\ ClientInv
    BY <1>1 DEF Inv, TypeOK
  <2> QED
    BY <1>1, <1>4, <2>1 DEF Coherent, Numbers, Application, ClientInv
<1>6. TypeOK'
  BY <1>1, <1>2, <1>3 DEF Inv, TypeOK, RelayIs, AppIs
<1> HIDE DEF s
<1>7. ASSUME NEW t \in Side PROVE Coherent(t)'
  <2>1. Coherent(t)
    BY DEF Inv
  <2>2. CASE t = s
    <3>1. "aborted" \notin {None, "replied"} /\ <<>> # <<"end", "normal">> /\ <<>> # <<"failure">>
      BY NoneAssumption
    <3>2. app[s].unread <= app[s].wrote /\ app[s].unread + 0 = app[s].unread
      BY <1>4, <2>1, <2>2 DEF Coherent, Numbers
    <3> QED
      BY <1>1, <1>2, <1>3, <1>5, <2>1, <2>2, <3>1, <3>2 DEF Coherent, Over, Active, RelayIs, AppIs
  <2>3. CASE t = Peer(s)
    BY <1>1, <1>2, <1>3, <1>4, <2>1, <2>3 DEF Coherent, Over, Active, RelayIs, AppIs
  <2> QED
    BY <1>1, <2>2, <2>3, PeerOf
<1>8. ASSUME NEW t \in Side PROVE FlowInv(t)'
  BY <1>1, <1>2, <1>4, PeerOf DEF FlowInv, Over, RelayIs
<1>9. ASSUME Over(s) PROVE Conserved(s) => Conserved(s)'
  BY <1>1, <1>2, <1>3, <1>4, <1>9 DEF Conserved, Over, RelayIs, AppIs
<1>10. ASSUME NEW t \in Side PROVE EndInv(t)'
  <2>1. EndInv(t)
    BY DEF Inv
  <2>2. CASE t = s
    BY <1>1, <1>2, <1>3, <1>4, <1>5, <1>9, <2>1, <2>2
    DEF EndInv, QuitInv, TailInv, TakenInv, Spent, Over, RelayIs, AppIs
  <2>3. CASE t = Peer(s)
    BY <1>1, <1>2, <1>3, <1>4, <2>1, <2>3
    DEF EndInv, QuitInv, TailInv, TakenInv, Spent, Over, RelayIs, AppIs
  <2> QED
    BY <1>1, <2>2, <2>3, PeerOf
<1>11. (ClientInv /\ DaemonInv /\ ShakeInv)'
  BY <1>1, <1>2, <1>3, <1>5
  DEF s, Inv, Side, Peer, Over, RelayIs, AppIs, ClientInv, DaemonInv, ShakeInv
<1>12. (ToldInv /\ CloseInv)'
  BY <1>1, <1>2, <1>3, <1>5
  DEF s, Inv, Side, Peer, Over, RelayIs, AppIs, ToldInv, ClosedInHandshake, CloseInv, Bad
<1> QED
  BY <1>6, <1>7, <1>8, <1>10, <1>11, <1>12 DEF Inv

-----------------------------------------------------------------------------
(* The handshake.                                                          *)

\* Nothing but messages of the handshake moves between the relays.
HandsOnly ==
  /\ net' \in [Side -> Queue]
  /\ \A t \in Side : /\ net'[t].data = net[t].data /\ (net'[t].end <=> net[t].end)
                     /\ net'[t].close = net[t].close

LEMMA Sides == "client" \in Side /\ "daemon" \in Side
               /\ Peer("client") = "daemon" /\ Peer("daemon") = "client"
BY DEF Side, Peer

\* A message put on the way while the one from the other side is taken off it.
LEMMA HandsTo ==
  ASSUME TypeOK, NEW s \in Side, NEW q \in Queue,
         q = net[s] \/ \E h \in {"reply", "confirm"} : q = Carry(net[s], "hand", h),
         net' = [net EXCEPT ![Peer(s)].hand = None, ![s] = q]
  PROVE  HandsOnly /\ net'[Peer(s)].hand = None /\ net'[s].hand = q.hand
<1> DEFINE r == [net[Peer(s)] EXCEPT !.hand = None]
<1>1. net[s] \in Queue /\ net[Peer(s)] \in Queue /\ Peer(s) \in Side /\ Peer(s) # s
  BY PeerOf DEF TypeOK
<1>2. /\ r \in Queue /\ r.hand = None /\ r.data = net[Peer(s)].data
      /\ r.end = net[Peer(s)].end /\ r.close = net[Peer(s)].close
  BY <1>1 DEF Queue
<1>3. q.data = net[s].data /\ q.end = net[s].end /\ q.close = net[s].close
  BY <1>1, CarryHand
<1>4. net'[Peer(s)] = r /\ net'[s] = q /\ net' \in [Side -> Queue]
  BY <1>1, <1>2 DEF TypeOK
<1> HIDE DEF r
<1> QED
  BY <1>2, <1>3, <1>4, PeerOf DEF HandsOnly

\* The daemon refuses a tunnel before it has a connection to its server.
LEMMA RefusesKeeps ==
  ASSUME Inv, relay["daemon"].step \in {"shaking", "dialing"},
         Stops("daemon", "refused", <<"failure">>), UNCHANGED <<setup, app, path>>,
         HandsOnly, net'["client"].hand \in {None, net["client"].hand},
         net'["daemon"].hand = net["daemon"].hand
  PROVE  Inv'
<1>1. RelayIs("daemon", "ending", "refused", <<"failure">>, relay["daemon"].proved)
  BY Sides, StopsWith DEF Inv, Cause, Farewells
<1>2. ~Over("daemon") /\ ~net["daemon"].end
      /\ relay["daemon"].cause \notin {"finished", "ended", "aborted"}
  BY Sides, Working DEF Over
<1>3. Numbers("client") /\ Numbers("daemon")
  BY Sides, Counts DEF Inv
<1>4. TypeOK'
  BY <1>1 DEF Inv, TypeOK, RelayIs, HandsOnly
<1>5. Coherent("client")' /\ Coherent("daemon")'
  <2>1. Coherent("client") /\ Coherent("daemon") /\ DaemonInv
    BY Sides DEF Inv
  <2>2. "refused" \notin {None, "replied"} /\ <<"failure">> # <<"end", "normal">>
        /\ <<"failure">> # <<>>
    BY NoneAssumption
  <2>3. Coherent("client")'
    BY <1>1, <2>1, Sides DEF Coherent, Over, Active, RelayIs
  <2>4. Coherent("daemon")'
    BY <1>1, <1>2, <2>1, <2>2, Sides DEF Coherent, Over, Active, RelayIs, DaemonInv
  <2> QED
    BY <2>3, <2>4
<1>6. Conserved("daemon") => Conserved("daemon")'
  BY <1>1, Sides DEF Conserved, RelayIs, HandsOnly
<1>7. FlowInv("client")' /\ FlowInv("daemon")'
  <2>1. FlowInv("daemon")
    BY Sides DEF Inv
  <2> QED
    BY <1>1, <1>2, <1>6, <2>1, Sides DEF FlowInv, Over, RelayIs, HandsOnly
<1>8. EndInv("client")' /\ EndInv("daemon")'
  <2>1. EndInv("client") /\ EndInv("daemon")
    BY Sides DEF Inv
  <2>2. EndInv("client")'
    BY <1>1, <2>1, Sides DEF EndInv, QuitInv, TailInv, TakenInv, Spent, Over, RelayIs, HandsOnly
  <2>3. EndInv("daemon")'
    BY <1>1, <1>2, <2>1, Sides
    DEF EndInv, QuitInv, TailInv, TakenInv, Spent, Over, RelayIs, HandsOnly
  <2> QED
    BY <2>2, <2>3
<1>9. (ClientInv /\ DaemonInv /\ ShakeInv /\ ToldInv)'
  BY <1>1, Sides, NoneAssumption
  DEF Inv, Over, RelayIs, ClientInv, DaemonInv, ShakeInv, ToldInv, ClosedInHandshake
<1>10. CloseInv'
  BY <1>1, Sides DEF Inv, Over, RelayIs, HandsOnly, CloseInv
<1> QED
  BY <1>4, <1>5, <1>7, <1>8, <1>9, <1>10 DEF Inv, Side

\* The daemon goes on with the handshake.
LEMMA ShakesKeeps ==
  ASSUME Inv, relay["daemon"].step = "shaking", NEW x \in {"shaking", "dialing"},
         RelayIs("daemon", x, "replied", relay["daemon"].farewell, relay["daemon"].proved),
         UNCHANGED <<setup, app, path>>,
         HandsOnly, net'["client"].hand = None,
         net'["daemon"].hand = net["daemon"].hand \/ setup.agree,
         x = "dialing" => relay["client"].proved
  PROVE  Inv'
<1>1. ~Over("daemon") /\ ~net["daemon"].end
      /\ relay["daemon"].cause \notin {"finished", "ended", "aborted"}
  BY Sides, Working DEF Over
<1>2. TypeOK'
  BY DEF Inv, TypeOK, RelayIs, HandsOnly
<1>3. Coherent("client")' /\ Coherent("daemon")'
  <2>1. Coherent("client") /\ Coherent("daemon") /\ DaemonInv
    BY Sides DEF Inv
  <2>2. Coherent("client")'
    BY <2>1, Sides DEF Coherent, Over, Active, RelayIs
  <2>3. Coherent("daemon")'
    BY <1>1, <2>1, Sides DEF Coherent, Over, Active, RelayIs, DaemonInv
  <2> QED
    BY <2>2, <2>3
<1>4. /\ Conserved("daemon") => Conserved("daemon")'
      /\ Conserved("client") => Conserved("client")'
  BY Sides DEF Conserved, RelayIs, HandsOnly
<1>5. FlowInv("client")' /\ FlowInv("daemon")'
  <2>1. FlowInv("client") /\ FlowInv("daemon")
    BY Sides DEF Inv
  <2> QED
    BY <1>1, <1>4, <2>1, Sides DEF FlowInv, Over, RelayIs, HandsOnly
<1>6. EndInv("client")' /\ EndInv("daemon")'
  <2>1. EndInv("client") /\ EndInv("daemon")
    BY Sides DEF Inv
  <2>2. EndInv("client")'
    BY <1>1, <1>4, <2>1, Sides
    DEF EndInv, QuitInv, TailInv, TakenInv, Spent, Over, RelayIs, HandsOnly
  <2>3. EndInv("daemon")'
    BY <1>1, <2>1, Sides
    DEF EndInv, QuitInv, TailInv, TakenInv, Spent, Over, RelayIs, HandsOnly
  <2> QED
    BY <2>2, <2>3
<1>7. (ClientInv /\ DaemonInv /\ ShakeInv /\ ToldInv)'
  BY <1>1, Sides, NoneAssumption
  DEF Inv, Over, RelayIs, ClientInv, DaemonInv, ShakeInv, ToldInv, ClosedInHandshake
<1>8. CloseInv'
  BY <1>1, Sides DEF Inv, Over, RelayIs, HandsOnly, CloseInv
<1> QED
  BY <1>2, <1>3, <1>5, <1>6, <1>7, <1>8 DEF Inv, Side

LEMMA ReadHelloKeeps ==
  ASSUME Inv, ReadHello
  PROVE  Inv'
<1>1. relay["daemon"].step = "shaking" /\ UNCHANGED <<setup, app, path>>
      /\ net["daemon"] \in Queue
  BY Sides DEF ReadHello, Inv, TypeOK
<1>2. CASE /\ setup.agree
           /\ net' = [net EXCEPT !["client"].hand = None,
                                 !["daemon"] = Carry(@, "hand", "reply")]
           /\ relay' = [relay EXCEPT !["daemon"].cause = "replied"]
  <2>1. RelayIs("daemon", "shaking", "replied", relay["daemon"].farewell, relay["daemon"].proved)
    BY <1>1, <1>2, Sides DEF RelayIs, Inv, TypeOK, Relay, Cause
  <2>2. net' = [net EXCEPT ![Peer("daemon")].hand = None,
                           !["daemon"] = Carry(net["daemon"], "hand", "reply")]
    BY <1>2, Sides DEF Inv, TypeOK
  <2>3. Carry(net["daemon"], "hand", "reply") \in Queue
    BY <1>1, CarryHand
  <2>4. HandsOnly /\ net'["client"].hand = None
    BY <2>2, <2>3, Sides, HandsTo DEF Inv
  <2> QED
    BY <1>1, <1>2, <2>1, <2>4, ShakesKeeps
<1>3. CASE Take("daemon", "hand", None) /\ Stops("daemon", "refused", <<"failure">>)
  <2>1. NetIs("client", None, net["client"].data, net["client"].end, net["client"].close)
    BY <1>3, Sides, TakesHand DEF Inv, In
  <2>2. HandsOnly /\ net'["client"].hand = None /\ net'["daemon"].hand = net["daemon"].hand
    BY <2>1, Sides DEF NetIs, HandsOnly, Side
  <2> QED
    BY <1>1, <1>3, <2>2, RefusesKeeps
<1>4. CASE Stops("daemon", "refused", <<"failure">>) /\ net' = net
  <2>1. HandsOnly
    BY <1>4 DEF HandsOnly, Inv, TypeOK
  <2> QED
    BY <1>1, <1>4, <2>1, RefusesKeeps
<1> QED
  BY <1>2, <1>3, <1>4 DEF ReadHello

LEMMA ReadConfirmationKeeps ==
  ASSUME Inv, ReadConfirmation
  PROVE  Inv'
<1>1. relay["daemon"].step = "shaking" /\ relay["daemon"].cause = "replied"
      /\ UNCHANGED <<setup, app, path>>
  BY DEF ReadConfirmation
<1>2. CASE /\ In("daemon").hand = "confirm" /\ Take("daemon", "hand", None)
           /\ Goes("daemon", "dialing")
  <2>1. NetIs("client", None, net["client"].data, net["client"].end, net["client"].close)
    BY <1>2, Sides, TakesHand DEF Inv, In
  <2>2. HandsOnly /\ net'["client"].hand = None /\ net'["daemon"].hand = net["daemon"].hand
    BY <2>1, Sides DEF NetIs, HandsOnly, Side
  <2>3. RelayIs("daemon", "dialing", "replied", relay["daemon"].farewell, relay["daemon"].proved)
    BY <1>1, <1>2, Sides, GoesTo DEF Inv, Step
  <2>4. relay["client"].proved
    BY <1>2, Sides DEF Inv, ShakeInv, In
  <2> QED
    BY <1>1, <2>2, <2>3, <2>4, ShakesKeeps
<1>3. CASE Stops("daemon", "refused", <<"failure">>) /\ net' = net
  <2>1. HandsOnly
    BY <1>3 DEF HandsOnly, Inv, TypeOK
  <2> QED
    BY <1>1, <1>3, <2>1, RefusesKeeps
<1> QED
  BY <1>2, <1>3 DEF ReadConfirmation

\* The client has read the reply.
LEMMA ProvesKeeps ==
  ASSUME Inv, relay["client"].step = "shaking", setup.agree,
         RelayIs("client", IF setup.probe THEN "ending" ELSE "relaying",
                 IF setup.probe THEN "finished" ELSE None,
                 IF setup.probe THEN Ending ELSE <<>>, TRUE),
         UNCHANGED <<setup, app, path>>,
         HandsOnly, net'["daemon"].hand = None
  PROVE  Inv'
<1>1. ~Over("client") /\ ~net["client"].end
      /\ relay["client"].cause \notin {"finished", "ended", "aborted"}
  BY Sides, Working DEF Over
<1>2. TypeOK'
  BY DEF Inv, TypeOK, RelayIs, HandsOnly
<1>3. Coherent("client") /\ ClientInv /\ Numbers("client") /\ app["client"] \in Application
  BY Sides, Counts DEF Inv, TypeOK
<1>4. IF setup.probe THEN Spent("client") /\ app["client"].sees = "none"
      ELSE app["client"].sees = "open"
  BY <1>3 DEF Coherent, ClientInv, Spent, Application
<1>5. Ending \in {<<"end", "normal">>, <<"normal">>} /\ Ending # <<>> /\ Ending # <<"failure">>
  BY DEF Ending
<1>6. Coherent("client")' /\ Coherent("daemon")'
  <2>1. Coherent("daemon")'
    BY Sides DEF Inv, Coherent, Over, Active, RelayIs
  <2>2. app["client"].unread <= app["client"].wrote
        /\ app["client"].unread + 0 = app["client"].unread
    BY <1>3 DEF Coherent, Numbers
  <2>3. "finished" \notin {None, "replied"} /\ None # "replied"
    BY NoneAssumption
  <2>4. CASE setup.probe
    BY <2>1, <1>3, <1>4, <1>5, <2>2, <2>3, <2>4, Sides DEF Coherent, Over, Active, RelayIs
  <2>5. CASE ~setup.probe
    <3>1. <<>> # <<"end", "normal">> /\ <<>> # <<"failure">>
      OBVIOUS
    <3> QED
      BY <2>1, <1>3, <1>4, <2>2, <2>3, <2>5, <3>1, Sides DEF Coherent, Over, Active, RelayIs
  <2> QED
    BY <2>1, <2>4, <2>5
<1>7. /\ Conserved("daemon") => Conserved("daemon")'
      /\ Conserved("client") => Conserved("client")'
  BY Sides DEF Conserved, RelayIs, HandsOnly
<1>8. FlowInv("client")' /\ FlowInv("daemon")'
  <2>1. FlowInv("client") /\ FlowInv("daemon")
    BY Sides DEF Inv
  <2> QED
    BY <1>1, <1>7, <2>1, Sides DEF FlowInv, Over, RelayIs, HandsOnly
<1>9. EndInv("client")' /\ EndInv("daemon")'
  <2>1. EndInv("client") /\ EndInv("daemon") /\ None # "finished" /\ None # "ended"
    BY Sides, NoneAssumption DEF Inv
  <2>2. EndInv("client")'
    BY <1>1, <1>4, <2>1, Sides
    DEF EndInv, QuitInv, TailInv, TakenInv, Spent, Over, RelayIs, HandsOnly
  <2>3. EndInv("daemon")'
    BY <1>1, <1>7, <2>1, Sides
    DEF EndInv, QuitInv, TailInv, TakenInv, Spent, Over, RelayIs, HandsOnly
  <2> QED
    BY <2>2, <2>3
<1>10. (ClientInv /\ DaemonInv)'
  BY Sides, NoneAssumption DEF Inv, Over, RelayIs, ClientInv, DaemonInv
<1>11. (ShakeInv /\ ToldInv)'
  <2>1. app["client"].sees \notin {"eof", "reset"}
    BY <1>4
  <2> QED
    BY <2>1, Sides, NoneAssumption DEF Inv, RelayIs, ShakeInv, ToldInv, ClosedInHandshake
<1>12. CloseInv'
  BY <1>1, Sides, NoneAssumption DEF Inv, Over, RelayIs, HandsOnly, CloseInv, Bad
<1> QED
  BY <1>2, <1>6, <1>8, <1>9, <1>10, <1>11, <1>12 DEF Inv, Side

LEMMA ReadReplyKeeps ==
  ASSUME Inv, ReadReply
  PROVE  Inv'
<1>1. relay["client"].step = "shaking" /\ UNCHANGED <<setup, app, path>> /\ ~Over("client")
      /\ net["client"] \in Queue /\ relay["client"] \in Relay
  BY Sides DEF ReadReply, Inv, TypeOK, Over
<1>2. CASE /\ In("client").hand = "reply"
           /\ net' = [net EXCEPT !["daemon"].hand = None,
                                 !["client"] = IF Down("client") THEN @
                                               ELSE Carry(@, "hand", "confirm")]
           /\ relay' = [relay EXCEPT !["client"] =
                [@ EXCEPT !.proved = TRUE,
                          !.step = IF setup.probe THEN "ending" ELSE "relaying",
                          !.cause = IF setup.probe THEN "finished" ELSE None,
                          !.farewell = IF setup.probe THEN Ending ELSE <<>>]]
  <2> DEFINE q == IF Down("client") THEN net["client"] ELSE Carry(net["client"], "hand", "confirm")
             x == IF setup.probe THEN "ending" ELSE "relaying"
             c == IF setup.probe THEN "finished" ELSE None
             f == IF setup.probe THEN Ending ELSE <<>>
             r == [relay["client"] EXCEPT !.proved = TRUE, !.step = x, !.cause = c, !.farewell = f]
  <2>1. relay' = [relay EXCEPT !["client"] = r]
    BY <1>2
  <2>2. x \in Step /\ c \in Cause /\ f \in Farewells
    BY DEF Step, Cause, Farewells, Ending
  <2>3. RelayIs("client", x, c, f, TRUE)
    <3> HIDE DEF x, c, f
    <3>1. r \in Relay
      BY <1>1, <2>2 DEF Relay, Farewells
    <3>2. r.step = x /\ r.cause = c /\ r.farewell = f /\ r.proved = TRUE
      BY <1>1 DEF Relay
    <3> HIDE DEF r
    <3>3. RelayIs("client", r.step, r.cause, r.farewell, r.proved)
      BY <2>1, <3>1, Sides, RelayPut DEF Inv
    <3> QED
      BY <3>2, <3>3
  <2>4. q \in Queue /\ (q = net["client"] \/ \E h \in {"reply", "confirm"} : q = Carry(net["client"], "hand", h))
    BY <1>1, CarryHand
  <2>5. net' = [net EXCEPT ![Peer("client")].hand = None, !["client"] = q]
    BY <1>2, Sides DEF Inv, TypeOK
  <2>6. HandsOnly /\ net'["daemon"].hand = None
    <3> HIDE DEF q
    <3> QED
      BY <2>4, <2>5, Sides, HandsTo DEF Inv
  <2>7. setup.agree
    BY <1>2, Sides DEF In, Inv, ShakeInv
  <2> QED
    BY <1>1, <2>3, <2>6, <2>7, ProvesKeeps
<1>3. <<>> \in Farewells /\ <<>> # <<"end", "normal">> /\ <<>> # <<"failure">>
      /\ "client" # "daemon"
  BY DEF Farewells
<1>4. setup.identity => relay["daemon"].cause # "finished"
  <2>1. ClientInv /\ ShakeInv /\ DaemonInv /\ Coherent("daemon")
    BY Sides DEF Inv
  <2>2. setup.identity => app["daemon"].sees = "none"
    BY <1>1, <2>1 DEF ClientInv, ShakeInv
  <2>3. relay["daemon"].cause = "finished" => Over("daemon")
    BY <2>1, NoneAssumption DEF Coherent
  <2> QED
    BY <2>1, <2>2, <2>3 DEF DaemonInv
<1>5. CASE AtClose("client") /\ Stops("client", In("client").close, <<>>) /\ net' = net
  <2>1. In("client").close \in {"normal", "failure"}
    BY <1>5, Sides DEF AtClose, In, Inv, TypeOK, Queue
  <2> QED
    BY <1>1, <1>3, <1>5, <2>1, Sides, StopsKeeps, UnfinishedEnd DEF Bad
<1>6. CASE /\ HungUp("client") \/ (In("client").hand = "reply" /\ Down("client"))
           /\ Stops("client", "error", <<>>) /\ net' = net
  <2>1. path = "whole" => Over("daemon")
    BY <1>6, Sides DEF HungUp, Down, Over
  <2> QED
    BY <1>1, <1>3, <1>4, <1>6, <2>1, Sides, StopsKeeps DEF Bad
<1> QED
  BY <1>2, <1>5, <1>6 DEF ReadReply

LEMMA DialKeeps ==
  ASSUME Inv, Dial
  PROVE  Inv'
<1> DEFINE s == "daemon"
<1>1. relay[s].step = "dialing" /\ setup' = setup /\ net' = net /\ path' = path
  BY DEF Dial
<1>2. CASE Stops("daemon", "refused", <<"failure">>) /\ app' = app
  <2>1. HandsOnly
    BY <1>1 DEF HandsOnly, Inv, TypeOK
  <2> QED
    BY <1>1, <1>2, <2>1, RefusesKeeps
<1>3. CASE /\ relay' = [relay EXCEPT !["daemon"].step = "relaying", !["daemon"].cause = None]
           /\ app' = [app EXCEPT !["daemon"] = Connected("open")]
  <2>1. Coherent(s) /\ DaemonInv /\ relay[s] \in Relay /\ Coherent("client")
    BY Sides DEF Inv, TypeOK
  <2>2. app[s].wrote = 0 /\ app[s].unread = 0 /\ app[s].got = 0 /\ ~app[s].fin /\ ~app[s].gone
        /\ app[s].sees = "none"
    BY <1>1, <2>1 DEF Coherent, DaemonInv
  <2>3. /\ app' \in [Side -> Application] /\ app'[s] = Connected("open")
        /\ app'["client"] = app["client"]
    BY <1>3, Sides, SizeAssumption DEF Inv, TypeOK, Connected, Application
  <2>4. app'[s].wrote = 0 /\ app'[s].unread = 0 /\ app'[s].got = 0 /\ ~app'[s].fin
        /\ ~app'[s].gone /\ app'[s].sees = "open"
    BY <2>3 DEF Connected
  <2>5. RelayIs(s, "relaying", None, relay[s].farewell, relay[s].proved)
    <3> DEFINE r == [relay[s] EXCEPT !.step = "relaying", !.cause = None]
    <3>1. relay' = [relay EXCEPT ![s] = r]
      BY <1>3, Sides DEF Inv, TypeOK, Relay
    <3>2. /\ r \in Relay /\ r.step = "relaying" /\ r.cause = None
          /\ r.farewell = relay[s].farewell /\ r.proved = relay[s].proved
      BY <2>1 DEF Relay, Step, Cause
    <3> HIDE DEF r
    <3> QED
      BY <3>1, <3>2, Sides, RelayPut DEF Inv
  <2>6. TypeOK'
    BY <1>1, <2>3, <2>5 DEF Inv, TypeOK, RelayIs
  <2>7. ~Over(s) /\ ~net[s].end /\ relay[s].cause \notin {"finished", "ended", "aborted"}
    BY <1>1, Sides, Working DEF Over
  <2>8. Coherent("client")' /\ Coherent(s)'
    <3>1. Coherent("client")'
      BY <2>1, <2>3, <2>5, Sides DEF Coherent, Over, Active, RelayIs
    <3>2. Coherent(s)'
      BY <1>1, <2>1, <2>4, <2>5, Sides, NoneAssumption DEF Coherent, Over, Active, RelayIs
    <3> QED
      BY <3>1, <3>2
  <2>9. /\ Conserved(s) => Conserved(s)'
        /\ Conserved("client") => Conserved("client")'
    BY <1>1, <2>2, <2>3, <2>4, <2>5, Sides DEF Conserved, RelayIs
  <2>10. FlowInv("client")' /\ FlowInv(s)'
    <3>1. FlowInv("client") /\ FlowInv(s)
      BY Sides DEF Inv
    <3> QED
      BY <1>1, <2>5, <2>7, <2>9, <3>1, Sides DEF FlowInv, Over, RelayIs
  <2>11. EndInv("client")' /\ EndInv(s)'
    <3>1. EndInv("client") /\ EndInv(s) /\ None # "finished" /\ None # "ended"
      BY Sides, NoneAssumption DEF Inv
    <3>2. EndInv("client")'
      BY <1>1, <2>3, <2>5, <2>7, <2>9, <3>1, Sides
      DEF EndInv, QuitInv, TailInv, TakenInv, Spent, Over, RelayIs
    <3>3. EndInv(s)'
      BY <1>1, <2>3, <2>5, <2>7, <3>1, Sides
      DEF EndInv, QuitInv, TailInv, TakenInv, Spent, Over, RelayIs
    <3> QED
      BY <3>2, <3>3
  <2>12. (ClientInv /\ DaemonInv /\ ShakeInv)'
    BY <1>1, <2>3, <2>4, <2>5, Sides, NoneAssumption
    DEF Inv, Over, RelayIs, ClientInv, DaemonInv, ShakeInv
  <2>13. (ToldInv /\ CloseInv)'
    BY <1>1, <2>3, <2>4, <2>5, <2>7, Sides, NoneAssumption
    DEF Inv, Over, RelayIs, ToldInv, ClosedInHandshake, CloseInv
  <2> QED
    BY <2>6, <2>8, <2>10, <2>11, <2>12, <2>13 DEF Inv, Side
<1> QED
  BY <1>2, <1>3 DEF Dial

-----------------------------------------------------------------------------
(* The applications and the way between the relays.                        *)

\* An application writes a chunk, or ends.
LEMMA MovesKeep ==
  ASSUME Inv, NEW s \in Side, NEW n \in {0, 1},
         app' \in [Side -> Application], app'[Peer(s)] = app[Peer(s)],
         UNCHANGED <<setup, relay, net, path>>,
         app'[s].wrote = app[s].wrote + n, app'[s].unread = app[s].unread + n,
         app'[s].got = app[s].got, app'[s].sees = app[s].sees,
         app[s].fin => app'[s].fin, app[s].gone => app'[s].gone, app'[s].gone => app'[s].fin,
         n = 1 => app[s].sees = "open" /\ ~app[s].fin,
         app[s].sees = "none" => ~app'[s].fin /\ ~app'[s].gone
  PROVE  Inv'
<1>1. /\ Numbers(s) /\ Numbers(Peer(s))
      /\ Peer(s) \in Side /\ Peer(s) # s /\ Peer(Peer(s)) = s
  BY Counts, PeerOf DEF Inv
<1>2. TypeOK'
  BY DEF Inv, TypeOK
<1>3. ASSUME NEW t \in Side PROVE Coherent(t)'
  <2>1. Coherent(t)
    BY DEF Inv
  <2>2. CASE t = s
    <3>1. app'[s].unread + (IF relay[s].step = "sending" THEN 1 ELSE 0) <= app'[s].wrote
      BY <1>1, <2>1, <2>2 DEF Coherent, Numbers
    <3>2. app[s].sees = "none" => app'[s].wrote = 0 /\ app'[s].unread = 0
      <4>1. app[s].sees = "none" => n = 0 /\ app[s].wrote = 0 /\ app[s].unread = 0
        BY <2>1, <2>2 DEF Coherent
      <4> QED
        BY <4>1
    <3> QED
      BY <2>1, <2>2, <3>1, <3>2 DEF Coherent, Over, Active
  <2>3. CASE t = Peer(s)
    BY <1>1, <2>1, <2>3 DEF Coherent, Over, Active
  <2> QED
    BY <2>2, <2>3, PeerOf
<1>4. /\ Conserved(s) => Conserved(s)'
      /\ Conserved(Peer(s)) => Conserved(Peer(s))'
  BY <1>1 DEF Conserved, Numbers
<1>5. ASSUME NEW t \in Side PROVE FlowInv(t)'
  <2>1. FlowInv(t)
    BY DEF Inv
  <2> QED
    BY <1>1, <1>4, <2>1, PeerOf DEF FlowInv, Over
<1>6. Spent(s) => n = 0 /\ Spent(s)'
  BY <1>1 DEF Spent, Numbers
<1>7. ASSUME NEW t \in Side PROVE EndInv(t)'
  <2>1. EndInv(t)
    BY DEF Inv
  <2>2. CASE t = s
    <3>1. Spent(s) => app'[s].wrote = app[s].wrote
      BY <1>1, <1>6 DEF Numbers
    <3> QED
      BY <1>1, <1>4, <1>6, <2>1, <2>2, <3>1 DEF EndInv, QuitInv, TailInv, TakenInv, Over
  <2>3. CASE t = Peer(s)
    BY <1>1, <1>4, <2>1, <2>3 DEF EndInv, QuitInv, TailInv, TakenInv, Spent, Over
  <2> QED
    BY <2>2, <2>3, PeerOf
<1>8. app'[s].wrote = 0 => app[s].wrote = 0
  BY <1>1 DEF Numbers
<1>9. app[s].wrote > 0 => app'[s].wrote > 0
  BY <1>1 DEF Numbers
<1>10. (ClientInv /\ DaemonInv /\ ShakeInv)'
  BY DEF Inv, Side, Peer, Over, ClientInv, DaemonInv, ShakeInv
<1>11. (ToldInv /\ CloseInv)'
  BY <1>8, <1>9 DEF Inv, Side, Peer, Over, ToldInv, ClosedInHandshake, CloseInv
<1> QED
  BY <1>2, <1>3, <1>5, <1>7, <1>10, <1>11 DEF Inv

LEMMA AppWritesKeeps ==
  ASSUME Inv, NEW s \in Side, AppWrites(s)
  PROVE  Inv'
<1>1. /\ app' \in [Side -> Application] /\ app'[Peer(s)] = app[Peer(s)]
      /\ app'[s].wrote = app[s].wrote + 1 /\ app'[s].unread = app[s].unread + 1
      /\ app'[s].got = app[s].got /\ app'[s].sees = app[s].sees
  BY PeerOf, SizeAssumption DEF Inv, TypeOK, AppWrites, Application
<1>2. app'[s].fin = app[s].fin /\ app'[s].gone = app[s].gone
  BY DEF Inv, TypeOK, AppWrites, Application
<1>3. app[s].gone => app[s].fin
  BY DEF Inv, Coherent
<1> QED
  BY <1>1, <1>2, <1>3, MovesKeep DEF AppWrites

LEMMA AppReadsKeeps ==
  ASSUME Inv, NEW s \in Side, AppReads(s)
  PROVE  Inv'
<1>1. /\ app' \in [Side -> Application] /\ app'[Peer(s)] = app[Peer(s)]
      /\ app'[s].wrote = app[s].wrote /\ app'[s].unread = app[s].unread
      /\ app'[s].got = app[s].got /\ app'[s].sees = app[s].sees
  BY PeerOf, SizeAssumption DEF Inv, TypeOK, AppReads, Application
<1>2. app'[s].fin = app[s].fin /\ app'[s].gone = app[s].gone
  BY DEF Inv, TypeOK, AppReads, Application
<1>3. (app[s].gone => app[s].fin) /\ (app[s].sees = "none" => ~app[s].fin /\ ~app[s].gone)
  BY DEF Inv, Coherent
<1>4. app[s].wrote = app[s].wrote + 0 /\ app[s].unread = app[s].unread + 0
  BY Counts DEF Inv, Numbers
<1> QED
  BY <1>1, <1>2, <1>3, <1>4, MovesKeep DEF AppReads

\* The record of an application that ends.
LEMMA EndsType ==
  ASSUME NEW r \in Application
  PROVE  /\ [r EXCEPT !.fin = TRUE] \in Application
         /\ [r EXCEPT !.fin = TRUE, !.gone = TRUE, !.pending = 0] \in Application
<1>1. 0 \in 0 .. Buffer
  BY SizeAssumption
<1>2. ASSUME NEW q \in Application, NEW b \in BOOLEAN
      PROVE  [q EXCEPT !.fin = b] \in Application /\ [q EXCEPT !.gone = b] \in Application
  BY DEF Application
<1>3. ASSUME NEW q \in Application, NEW n \in 0 .. Buffer
      PROVE  [q EXCEPT !.pending = n] \in Application
  BY DEF Application
<1>4. [r EXCEPT !.fin = TRUE] \in Application
  BY <1>2
<1>5. [[r EXCEPT !.fin = TRUE] EXCEPT !.gone = TRUE] \in Application
  BY <1>2, <1>4
<1>6. [[[r EXCEPT !.fin = TRUE] EXCEPT !.gone = TRUE] EXCEPT !.pending = 0] \in Application
  BY <1>1, <1>3, <1>5
<1> QED
  BY <1>4, <1>6

LEMMA AppFinishesKeeps ==
  ASSUME Inv, NEW s \in Side, AppFinishes(s)
  PROVE  Inv'
<1> DEFINE r == [app[s] EXCEPT !.fin = TRUE]
<1>1. app[s] \in Application
  BY DEF Inv, TypeOK
<1>2. app' = [app EXCEPT ![s] = r]
  BY <1>1 DEF Inv, TypeOK, AppFinishes, Application
<1>3. r \in Application
  BY <1>1, EndsType
<1>4. r.wrote = app[s].wrote /\ r.unread = app[s].unread /\ r.got = app[s].got
      /\ r.sees = app[s].sees
  BY <1>1 DEF Application
<1>5. r.fin /\ r.gone = app[s].gone
  BY <1>1 DEF Application
<1> HIDE DEF r
<1>6. app' \in [Side -> Application] /\ app'[Peer(s)] = app[Peer(s)] /\ app'[s] = r
  BY <1>2, <1>3, PeerOf DEF Inv, TypeOK
<1>7. app[s].wrote = app[s].wrote + 0 /\ app[s].unread = app[s].unread + 0
  BY Counts DEF Inv, Numbers
<1>8. app[s].sees = "open" /\ UNCHANGED <<setup, relay, net, path>>
  BY DEF AppFinishes
<1> QED
  BY <1>4, <1>5, <1>6, <1>7, <1>8, MovesKeep

LEMMA AppGoesKeeps ==
  ASSUME Inv, NEW s \in Side, AppGoes(s)
  PROVE  Inv'
<1> DEFINE r == [app[s] EXCEPT !.fin = TRUE, !.gone = TRUE, !.pending = 0]
<1>1. app[s] \in Application
  BY DEF Inv, TypeOK
<1>2. app' = [app EXCEPT ![s] = r]
  BY <1>1 DEF Inv, TypeOK, AppGoes, Application
<1>3. r \in Application
  BY <1>1, EndsType
<1>4. r.wrote = app[s].wrote /\ r.unread = app[s].unread /\ r.got = app[s].got
      /\ r.sees = app[s].sees
  BY <1>1 DEF Application
<1>5. r.fin /\ r.gone
  BY <1>1 DEF Application
<1> HIDE DEF r
<1>6. app' \in [Side -> Application] /\ app'[Peer(s)] = app[Peer(s)] /\ app'[s] = r
  BY <1>2, <1>3, PeerOf DEF Inv, TypeOK
<1>7. app[s].wrote = app[s].wrote + 0 /\ app[s].unread = app[s].unread + 0
  BY Counts DEF Inv, Numbers
<1>8. app[s].sees = "open" /\ UNCHANGED <<setup, relay, net, path>>
  BY DEF AppGoes
<1> QED
  BY <1>4, <1>5, <1>6, <1>7, <1>8, MovesKeep

\* What is left of the frames of a side: an end of stream only with all before it.
Left(q, r) ==
  /\ r \in Queue
  /\ r.hand \in {None, q.hand}
  /\ r.end => q.end /\ r.data = q.data

LEMMA PrefixLeft ==
  ASSUME NEW q \in Queue, NEW r \in Prefixes(q)
  PROVE  Left(q, r) /\ r.close \in {None, q.close}
<1>1. Nothing \in Queue /\ Nothing.hand = None /\ Nothing.data = 0 /\ ~Nothing.end
      /\ Nothing.close = None
  BY SizeAssumption DEF Nothing, Queue
<1>2. CASE r = q
  BY <1>2 DEF Left
<1>3. CASE r = [q EXCEPT !.close = None]
  BY <1>3 DEF Left, Queue
<1>4. CASE r = Nothing
  BY <1>1, <1>4 DEF Left
<1>5. ASSUME NEW d \in 0 .. q.data, r = [Nothing EXCEPT !.hand = q.hand, !.data = d]
      PROVE  Left(q, r) /\ r.close \in {None, q.close}
  <2>1. q.hand \in {None, "hello", "reply", "confirm"} /\ d \in 0 .. Window
    BY SizeAssumption DEF Queue
  <2>2. r = [hand |-> q.hand, data |-> d, end |-> FALSE, close |-> None]
    BY <1>5 DEF Nothing
  <2> QED
    BY <2>1, <2>2 DEF Left, Queue
<1> QED
  BY <1>2, <1>3, <1>4, <1>5 DEF Prefixes

\* Frames are lost, and the path with them.
LEMMA LosesKeep ==
  ASSUME Inv, UNCHANGED <<setup, app, relay>>,
         path' \in {"closed", "cut"}, net' \in [Side -> Queue],
         \A t \in Side : Left(net[t], net'[t]) /\ (net'[t].close = "failure" => net[t].close = "failure"),
         path' = "closed" => /\ path # "cut"
                             /\ \A t \in Side : net'[t].close = None => net'[t] = net[t]
  PROVE  Inv'
<1>1. TypeOK'
  BY DEF Inv, TypeOK
<1>2. ASSUME NEW t \in Side PROVE Coherent(t)' /\ FlowInv(t)' /\ EndInv(t)'
  <2>1. Coherent(t) /\ FlowInv(t) /\ EndInv(t) /\ Left(net[t], net'[t])
    BY <1>2 DEF Inv
  <2>2. Coherent(t)'
    BY <2>1 DEF Coherent, Over, Active
  <2>3. FlowInv(t)'
    BY <2>1 DEF FlowInv, Conserved, Over
  <2>4. EndInv(t)'
    BY <2>1 DEF EndInv, QuitInv, TailInv, TakenInv, Conserved, Spent, Over, Left
  <2> QED
    BY <2>2, <2>3, <2>4
<1>3. (ClientInv /\ DaemonInv /\ ShakeInv)'
  BY Sides, NoneAssumption DEF Inv, ClientInv, DaemonInv, ShakeInv, Over, Left
<1>4. (ToldInv /\ CloseInv)'
  BY Sides DEF Inv, ToldInv, ClosedInHandshake, CloseInv, Over
<1> QED
  BY <1>1, <1>2, <1>3, <1>4 DEF Inv

LEMMA CutKeeps ==
  ASSUME Inv, Cut
  PROVE  Inv'
<1>1. UNCHANGED <<setup, app, relay>> /\ path' = "cut"
  BY DEF Cut
<1>2. ASSUME NEW t \in Side
      PROVE  Left(net[t], net'[t]) /\ (net'[t].close = "failure" => net[t].close = "failure")
  <2>1. net[t] \in Queue /\ net'[t] \in Prefixes(net[t])
    BY DEF Inv, TypeOK, Cut
  <2> QED
    BY <2>1, PrefixLeft, NoneAssumption
<1>3. net' \in [Side -> Queue]
  BY <1>2 DEF Cut, Left
<1> QED
  BY <1>1, <1>2, <1>3, LosesKeep

LEMMA ProxyClosesKeeps ==
  ASSUME Inv, NEW s \in Side, ProxyCloses(s)
  PROVE  Inv'
<1>1. UNCHANGED <<setup, app, relay>> /\ path' = "closed" /\ path # "cut"
      /\ net[s].close = None /\ net[s] \in Queue
  BY DEF ProxyCloses, Inv, TypeOK
<1>2. PICK q \in Prefixes(net[s]) : net' = [net EXCEPT ![s] = [q EXCEPT !.close = "normal"]]
  BY DEF ProxyCloses
<1>3. Left(net[s], q)
  BY <1>1, PrefixLeft
<1> DEFINE r == [q EXCEPT !.close = "normal"]
<1>4. Left(net[s], r) /\ r.close = "normal" /\ r \in Queue
  BY <1>3 DEF Left, Queue
<1>5. net' = [net EXCEPT ![s] = r]
  BY <1>2
<1> HIDE DEF r
<1>6. net' \in [Side -> Queue] /\ \A t \in Side : net'[t] = IF t = s THEN r ELSE net[t]
  BY <1>4, <1>5 DEF Inv, TypeOK
<1>7. ASSUME NEW t \in Side
      PROVE  /\ Left(net[t], net'[t])
             /\ net'[t].close = "failure" => net[t].close = "failure"
             /\ net'[t].close = None => net'[t] = net[t]
  <2>1. Left(net[t], net[t])
    BY DEF Left, Inv, TypeOK
  <2> QED
    BY <1>4, <1>6, <2>1, NoneAssumption
<1> QED
  BY <1>1, <1>6, <1>7, LosesKeep

-----------------------------------------------------------------------------
(* The theorems.                                                           *)

LEMMA InitInv == ASSUME Init PROVE Inv
<1>1. setup \in [identity : BOOLEAN, probe : BOOLEAN, agree : BOOLEAN, faults : Faults]
      /\ (setup.identity \/ (setup.agree /\ ~setup.probe)) /\ path = "whole"
  BY DEF Init
<1>2. ASSUME NEW s \in Side
      PROVE  /\ app[s] \in Application
             /\ app[s].wrote = 0 /\ app[s].unread = 0 /\ app[s].got = 0
             /\ ~app[s].fin /\ ~app[s].gone
             /\ app[s].sees = IF s = "client" /\ ~setup.probe THEN "open" ELSE "none"
  BY SizeAssumption DEF Init, Connected, Application
<1>3. ASSUME NEW s \in Side
      PROVE  /\ relay[s] \in Relay
             /\ relay[s].step = IF setup.identity THEN "shaking"
                                ELSE IF s = "client" THEN "relaying" ELSE "dialing"
             /\ relay[s].cause = None /\ relay[s].farewell = <<>> /\ ~relay[s].proved
  BY DEF Init, Relay, Step, Cause
<1>4. ASSUME NEW s \in Side
      PROVE  /\ net[s] \in Queue
             /\ net[s].hand = IF setup.identity /\ s = "client" THEN "hello" ELSE None
             /\ net[s].data = 0 /\ ~net[s].end /\ net[s].close = None
  <2> DEFINE Shape(h) == [hand |-> h, data |-> 0, end |-> FALSE, close |-> None]
  <2>1. ASSUME NEW q, q = [Nothing EXCEPT !.hand = "hello"] PROVE q = Shape("hello")
    BY <2>1 DEF Nothing
  <2>2. PICK h \in {None, "hello"} :
          /\ h = IF setup.identity /\ s = "client" THEN "hello" ELSE None
          /\ net[s] = Shape(h)
    <3>1. net[s] = IF setup.identity /\ s = "client"
                   THEN [Nothing EXCEPT !.hand = "hello"] ELSE Nothing
      BY DEF Init
    <3>2. Nothing = Shape(None)
      BY DEF Nothing
    <3> HIDE DEF Shape
    <3> QED
      BY <2>1, <3>1, <3>2
  <2> QED
    BY <2>2, SizeAssumption DEF Queue
<1>5. app = [s \in Side |-> app[s]] /\ relay = [s \in Side |-> relay[s]]
      /\ net = [s \in Side |-> net[s]]
  BY DEF Init
<1>6. TypeOK
  BY <1>1, <1>2, <1>3, <1>4, <1>5 DEF TypeOK
<1>7. ASSUME NEW s \in Side PROVE Coherent(s) /\ FlowInv(s) /\ EndInv(s)
  <2>1. Peer(s) \in Side
    BY PeerOf
  <2>2. None \notin {"replied", "finished", "ended", "aborted"}
    BY NoneAssumption
  <2>3. <<>> # <<"end", "normal">> /\ <<>> # <<"failure">>
    OBVIOUS
  <2>4. relay[s].step \in {"shaking", "relaying", "dialing"}
        /\ (relay[s].step = "relaying" => s = "client" /\ ~setup.probe)
    BY <1>1, <1>3
  <2>5. Coherent(s)
    <3>1. ~Over(s) /\ (Active(s) => app[s].sees = "open") /\ app[s].sees \in {"open", "none"}
      BY <1>2, <2>4 DEF Over, Active
    <3>2. app[s].unread + (IF relay[s].step = "sending" THEN 1 ELSE 0) <= app[s].wrote
      BY <1>2, <2>4
    <3>3. relay[s].cause = None /\ relay[s].farewell = <<>>
      BY <1>3
    <3> QED
      BY <1>2, <2>2, <2>3, <3>1, <3>2, <3>3 DEF Coherent
  <2>6. FlowInv(s)
    BY <1>2, <1>3, <1>4, <2>1, <2>4 DEF FlowInv, Conserved
  <2>7. EndInv(s)
    BY <1>3, <1>4, <2>1, <2>2 DEF EndInv, QuitInv, TailInv, TakenInv
  <2> QED
    BY <2>5, <2>6, <2>7
<1>8. ClientInv /\ DaemonInv
  BY <1>2, <1>3, Sides, NoneAssumption DEF ClientInv, DaemonInv, Over
<1>9. ShakeInv /\ ToldInv /\ CloseInv
  BY <1>2, <1>3, <1>4, Sides, NoneAssumption
  DEF ShakeInv, ToldInv, ClosedInHandshake, CloseInv, Over, Bad
<1> QED
  BY <1>6, <1>7, <1>8, <1>9 DEF Inv

LEMMA RelaysKeeps ==
  ASSUME Inv, NEW s \in Side, Relays(s)
  PROVE  Inv'
BY ReadAppKeeps, AppEndedKeeps, AppFailedKeeps, SendKeeps, SendFailsKeeps, TakeChunkKeeps,
   WriteKeeps, WriteFailsKeeps, TakeEndKeeps, TakeCloseKeeps, TakeHangupKeeps,
   FarewellKeeps, DoneKeeps DEF Relays

LEMMA StepKeeps == ASSUME Inv, [Next]_vars PROVE Inv'
<1>1. CASE Handshake
  BY <1>1, ReadHelloKeeps, ReadConfirmationKeeps, ReadReplyKeeps, DialKeeps DEF Handshake
<1>2. CASE Abort
  BY <1>2, AbortKeeps
<1>3. CASE Cut
  BY <1>3, CutKeeps
<1>4. ASSUME NEW s \in Side,
             Relays(s) \/ AppWrites(s) \/ AppReads(s) \/ AppFinishes(s) \/ AppGoes(s)
               \/ ProxyCloses(s)
      PROVE  Inv'
  BY <1>4, RelaysKeeps, AppWritesKeeps, AppReadsKeeps, AppFinishesKeeps, AppGoesKeeps,
     ProxyClosesKeeps
<1>5. CASE UNCHANGED vars
  BY <1>5 DEF vars, Inv, TypeOK, Coherent, FlowInv, EndInv, QuitInv, TailInv, TakenInv,
     Conserved, Spent, ClientInv, DaemonInv, ShakeInv, ToldInv, ClosedInHandshake, CloseInv, Over, Active
<1> QED
  BY <1>1, <1>2, <1>3, <1>4, <1>5 DEF Next

\* The invariant of the two relays: where each is, what is on its way, and what a
\* finished stream leaves behind (relay_connection_inner, pump, serve).
THEOREM TunnelInvariant == Spec => []Inv
<1>1. Init => Inv
  BY InitInv
<1>2. Inv /\ [Next]_vars => Inv'
  BY StepKeeps
<1> QED
  BY <1>1, <1>2, PTL DEF Spec

\* Every variable keeps its type: no socket and no path holds more than its size,
\* whatever the relays, the applications and the path do.
THEOREM TypeCorrect == Spec => []TypeOK
<1>1. Inv => TypeOK
  BY DEF Inv
<1> QED
  BY <1>1, TunnelInvariant, PTL

\* No server is ever dialled on a verified tunnel for a caller that has not proved
\* itself, in any order of messages, losses and timeouts (respond, serve_tunnel).
THEOREM DialsAfterConfirm == Spec => []DialledAfterConfirm
<1>1. Inv => DialledAfterConfirm
  BY DEF Inv, ShakeInv, DialledAfterConfirm
<1> QED
  BY <1>1, TunnelInvariant, PTL

\* The end a local application reads of a tunnel that verifies is true: a clean one
\* is complete unless the serving loop cut it or a close frame ended the handshake,
\* before any byte or any dial, and a server that finished over a whole path is not
\* reported as cut short to one that only listens (tunnel_loop, initiate).
THEOREM LocalEndsTrue == Spec => []LocalEndIsTrue
<1>1. ASSUME Inv PROVE LocalEndIsTrue
  <2>1. EndInv("client") /\ EndInv("daemon") /\ Coherent("client") /\ ToldInv /\ CloseInv /\ ShakeInv
        /\ ClientInv /\ DaemonInv
    BY <1>1, Sides DEF Inv
  <2>2. ASSUME relay["client"].cause # "aborted", ~ClosedInHandshake
        PROVE  LocalEofIsComplete
    <3>1. SUFFICES ASSUME setup.identity, app["client"].sees = "eof"
                   PROVE  \/ /\ relay["client"].cause = "ended"
                             /\ app["daemon"].fin /\ app["client"].got = app["daemon"].wrote
                          \/ relay["client"].cause = "finished" /\ app["client"].fin
      BY DEF LocalEofIsComplete
    <3>2. relay["client"].cause \in {"finished", "ended"}
      BY <2>1, <2>2, <3>1 DEF ToldInv, ClosedInHandshake
    <3>3. CASE relay["client"].cause = "finished"
      BY <2>1, <3>1, <3>3 DEF EndInv, QuitInv, Spent
    <3>4. CASE relay["client"].cause = "ended"
      <4>1. /\ Over("daemon") /\ Spent("daemon") /\ app["client"].got = app["daemon"].wrote
            /\ relay["daemon"].cause \in {"finished", "aborted"}
        BY <2>1, <3>4, Sides DEF EndInv, TakenInv
      <4>2. app["daemon"].fin
        BY <2>1, <4>1 DEF Spent, DaemonInv
      <4> QED
        BY <3>4, <4>1, <4>2
    <3> QED
      BY <3>2, <3>3, <3>4
  <2>3. ASSUME setup.identity, path = "whole", relay["daemon"].cause = "finished",
               app["client"].wrote = 0, ~app["client"].gone
        PROVE  app["client"].sees # "reset"
    BY <2>1, <2>3 DEF ToldInv, ClosedInHandshake, CloseInv
  <2>4. \/ LocalEofIsComplete
        \/ relay["client"].cause = "aborted"
        \/ ClosedInHandshake /\ app["client"].got = 0 /\ app["daemon"].sees = "none"
    <3>1. CASE ~setup.identity
      BY <3>1 DEF LocalEofIsComplete
    <3>2. CASE setup.identity /\ ClosedInHandshake
      BY <2>1, <3>2 DEF ShakeInv, ClosedInHandshake
    <3> QED
      BY <2>2, <3>1, <3>2
  <2> QED
    BY <2>3, <2>4 DEF LocalEndIsTrue
<1> QED
  BY <1>1, TunnelInvariant, PTL

\* A server that reads a clean end of a verified tunnel has all the local
\* application wrote, or ended itself, or that application went away.
THEOREM GuestEofComplete == Spec => []GuestEofIsCompleteUnlessLocalGone
<1>1. ASSUME Inv PROVE GuestEofIsCompleteUnlessLocalGone
  <2>1. EndInv("client") /\ EndInv("daemon") /\ ToldInv /\ DaemonInv
    BY <1>1, Sides DEF Inv
  <2>2. SUFFICES ASSUME setup.identity, app["daemon"].sees = "eof", ~app["client"].gone
                 PROVE  \/ /\ relay["daemon"].cause = "ended"
                           /\ app["daemon"].got = app["client"].wrote
                        \/ relay["daemon"].cause \in {"finished", "error"} /\ app["daemon"].fin
    BY DEF GuestEofIsCompleteUnlessLocalGone, GuestEofIsComplete
  <2>3. relay["daemon"].cause \in {"finished", "ended", "error"}
    BY <2>1, <2>2 DEF ToldInv, ClosedInHandshake
  <2> QED
    BY <2>1, <2>2, <2>3, Sides DEF EndInv, QuitInv, TakenInv, Spent, DaemonInv
<1> QED
  BY <1>1, TunnelInvariant, PTL
=============================================================================
