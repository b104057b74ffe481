------------------------------- MODULE Tunnel -------------------------------
(***************************************************************************)
(* Tunnel: one relayed TCP connection.  A local application talks to the   *)
(* client's relay, the relay through a WebSocket to the daemon's, and that *)
(* one to a server in the guest.                                           *)
(*                                                                         *)
(* Both relays are one loop that either reads its application and sends a  *)
(* frame, or takes a frame and writes to its application; while it awaits  *)
(* a send or a write it does nothing else.  Side "client" serves the local *)
(* application, side "daemon" the server.  On a verified tunnel a          *)
(* handshake comes first and an authenticated end of stream last; a close  *)
(* frame or a hangup can come from anything on the way.                    *)
(***************************************************************************)
EXTENDS Integers, Sequences

CONSTANTS
  Bytes,     \* Bytes[s]: bound, how many chunks the application of side s writes
  Buffer,    \* chunks a socket between a relay and its application holds
  Window,    \* frames the way between the relays holds, each way
  Faults,    \* what may go wrong in one tunnel, a set for each case to check
  None

ASSUME SizeAssumption == Buffer \in Nat \ {0} /\ Window \in Nat \ {0}

Side == {"client", "daemon"}
Peer(s) == IF s = "client" THEN "daemon" ELSE "client"

ASSUME FaultAssumption == Faults \subseteq SUBSET {"cut", "close", "abort", "gone"}
ASSUME BytesAssumption == Bytes \in [Side -> Nat]
ASSUME NoneAssumption ==
  None \notin {"normal", "failure", "hello", "reply", "confirm", "replied", "refused",
               "finished", "ended", "hangup", "error", "aborted"}

VARIABLES
  setup,    \* how the tunnel was opened, and what the two ends have
  app,      \* app[s]: the application of side s and its socket
  relay,    \* relay[s]: the loop of side s
  net,      \* net[s]: the frames side s has sent
  path      \* the WebSocket's connection: whole, closed by a proxy, or cut

vars == <<setup, app, relay, net, path>>

\* Frames are taken in the order of the fields: a message of the handshake, the
\* chunks, the end of stream, a close frame with or without a failure code.
Nothing == [hand |-> None, data |-> 0, end |-> FALSE, close |-> None]

Load(q) ==
  q.data + (IF q.hand = None THEN 0 ELSE 1) + (IF q.end THEN 1 ELSE 0)
         + (IF q.close = None THEN 0 ELSE 1)

\* What a queue can be after its tail was lost.
Prefixes(q) ==
  {q, [q EXCEPT !.close = None], Nothing}
    \cup {[Nothing EXCEPT !.hand = q.hand, !.data = d] : d \in 0 .. q.data}

Connected(sees) ==
  [wrote |-> 0, unread |-> 0, got |-> 0, pending |-> 0, fin |-> FALSE, gone |-> FALSE,
   sees |-> sees]

Init ==
  /\ setup \in [identity : BOOLEAN, probe : BOOLEAN, agree : BOOLEAN, faults : Faults]
  /\ setup.identity \/ (setup.agree /\ ~setup.probe)
  /\ app = [s \in Side |->
       Connected(IF s = "client" /\ ~setup.probe THEN "open" ELSE "none")]
  /\ relay = [s \in Side |->
       [step |-> IF setup.identity THEN "shaking"
                 ELSE IF s = "client" THEN "relaying" ELSE "dialing",
        cause |-> None, farewell |-> <<>>, proved |-> FALSE]]
  /\ net = [s \in Side |-> IF setup.identity /\ s = "client"
                           THEN [Nothing EXCEPT !.hand = "hello"] ELSE Nothing]
  /\ path = "whole"

----------------------------------------------------------------------------
(* Frames                                                                  *)

\* Nothing side s sends arrives any more.
Down(s) == path = "cut" \/ relay[Peer(s)].step = "done"

\* A frame put on the way; behind a close frame nothing is read.
Carry(q, field, value) ==
  IF q.close # None THEN q ELSE [q EXCEPT ![field] = value]

In(s) == net[Peer(s)]
AtData(s) == In(s).hand = None /\ In(s).data > 0
AtEnd(s) == In(s).hand = None /\ In(s).data = 0 /\ In(s).end
AtClose(s) == In(s).hand = None /\ In(s).data = 0 /\ ~In(s).end /\ In(s).close # None

\* The body of the WebSocket has ended without a close frame.
HungUp(s) == Load(In(s)) = 0 /\ Down(s)

Take(s, field, value) == net' = [net EXCEPT ![Peer(s)][field] = value]

\* Side s stops relaying, with these frames still to send.
Stops(s, cause, farewell) ==
  relay' = [relay EXCEPT ![s].step = "ending", ![s].cause = cause, ![s].farewell = farewell]

Goes(s, step) == relay' = [relay EXCEPT ![s].step = step]

\* A side that has relayed everything: the end of stream, on a verified tunnel,
\* and the close frame.
Ending == IF setup.identity THEN <<"end", "normal">> ELSE <<"normal">>

----------------------------------------------------------------------------
(* The handshake: initiate and respond                                     *)

\* The daemon reads the caller's first message and replies if the keys agree.
\* Anything else, a VM without keys included, is refused before anything is
\* dialed.  There is no limit on how long it waits.
ReadHello ==
  /\ relay["daemon"].step = "shaking" /\ relay["daemon"].cause = None
  /\ \/ /\ In("daemon").hand = "hello" /\ setup.agree
        /\ net' = [net EXCEPT !["client"].hand = None,
                              !["daemon"] = Carry(@, "hand", "reply")]
        /\ relay' = [relay EXCEPT !["daemon"].cause = "replied"]
     \/ /\ ~setup.agree
        /\ Take("daemon", "hand", None)
        /\ Stops("daemon", "refused", <<"failure">>)
     \/ /\ AtClose("daemon") \/ HungUp("daemon")
        /\ Stops("daemon", "refused", <<"failure">>)
        /\ net' = net
  /\ UNCHANGED <<setup, app, path>>

\* Mutant of ReadConfirmation: the reply is enough to dial.
ReadConfirmationEarly ==
  /\ relay["daemon"].step = "shaking" /\ relay["daemon"].cause = "replied"
  /\ Goes("daemon", "dialing")
  /\ UNCHANGED <<setup, app, net, path>>

\* It dials only once the caller has confirmed, and waits ten seconds for that.
ReadConfirmation ==
  /\ relay["daemon"].step = "shaking" /\ relay["daemon"].cause = "replied"
  /\ \/ /\ In("daemon").hand = "confirm"
        /\ Take("daemon", "hand", None)
        /\ Goes("daemon", "dialing")
     \/ /\ Stops("daemon", "refused", <<"failure">>)
        /\ net' = net
  /\ UNCHANGED <<setup, app, path>>

\* The client reads the reply, and confirms before it relays anything; a probe
\* for the identity alone ends here.  A close frame is the answer; a hangup, or a
\* confirmation that cannot be sent, an error.
ReadReply ==
  /\ relay["client"].step = "shaking"
  /\ \/ /\ In("client").hand = "reply"
        /\ net' = [net EXCEPT !["daemon"].hand = None,
                              !["client"] = IF Down("client") THEN @
                                            ELSE Carry(@, "hand", "confirm")]
        /\ relay' = [relay EXCEPT !["client"] =
             [@ EXCEPT !.proved = TRUE,
                       !.step = IF setup.probe THEN "ending" ELSE "relaying",
                       !.cause = IF setup.probe THEN "finished" ELSE None,
                       !.farewell = IF setup.probe THEN Ending ELSE <<>>]]
     \/ /\ AtClose("client")
        /\ Stops("client", In("client").close, <<>>)
        /\ net' = net
     \/ /\ HungUp("client") \/ (In("client").hand = "reply" /\ Down("client"))
        /\ Stops("client", "error", <<>>)
        /\ net' = net
  /\ UNCHANGED <<setup, app, path>>

\* dial: the server accepts, or nothing listens there.
Dial ==
  /\ relay["daemon"].step = "dialing"
  /\ \/ /\ relay' = [relay EXCEPT !["daemon"].step = "relaying", !["daemon"].cause = None]
        /\ app' = [app EXCEPT !["daemon"] = Connected("open")]
     \/ /\ Stops("daemon", "refused", <<"failure">>)
        /\ app' = app
  /\ UNCHANGED <<setup, net, path>>

----------------------------------------------------------------------------
(* The loop: relay_connection_inner and pump                               *)

\* A chunk from the application, to be sent.
ReadApp(s) ==
  /\ relay[s].step = "relaying"
  /\ app[s].unread > 0
  /\ app' = [app EXCEPT ![s].unread = @ - 1]
  /\ Goes(s, "sending")
  /\ UNCHANGED <<setup, net, path>>

\* The application's EOF: the end of stream goes out, then the close frame.
AppEnded(s) ==
  /\ relay[s].step = "relaying"
  /\ app[s].unread = 0 /\ app[s].fin
  /\ Stops(s, "finished", Ending)
  /\ UNCHANGED <<setup, app, net, path>>

\* The read of a connection the application reset.
AppFailed(s) ==
  /\ relay[s].step = "relaying"
  /\ app[s].gone
  /\ Stops(s, "error", IF s = "client" THEN <<>> ELSE <<"failure">>)
  /\ UNCHANGED <<setup, app, net, path>>

\* A frame is sent once there is room on the way, or is lost there.
Send(s) ==
  /\ relay[s].step = "sending"
  /\ \/ /\ ~Down(s)
        /\ Load(net[s]) < Window \/ net[s].close # None
        /\ net' = [net EXCEPT ![s] = Carry(@, "data", @.data + 1)]
     \/ /\ Down(s)
        /\ net' = net
  /\ Goes(s, "relaying")
  /\ UNCHANGED <<setup, app, path>>

\* The transport is gone: unproven_end, TransportFailed.
SendFails(s) ==
  /\ relay[s].step = "sending"
  /\ Down(s)
  /\ Stops(s, "hangup", <<>>)
  /\ UNCHANGED <<setup, app, net, path>>

TakeChunk(s) ==
  /\ relay[s].step = "relaying"
  /\ AtData(s)
  /\ Take(s, "data", In(s).data - 1)
  /\ Goes(s, "writing")
  /\ UNCHANGED <<setup, app, path>>

\* Mutant of Write: the chunk is queued without waiting for room.
WriteQueued(s) ==
  /\ relay[s].step = "writing"
  /\ ~app[s].gone
  /\ app' = [app EXCEPT ![s].pending = @ + 1, ![s].got = @ + 1]
  /\ Goes(s, "relaying")
  /\ UNCHANGED <<setup, net, path>>

\* write_all: the loop waits until the chunk is in the application's socket.
Write(s) ==
  /\ relay[s].step = "writing"
  /\ ~app[s].gone
  /\ app[s].pending < Buffer
  /\ app' = [app EXCEPT ![s].pending = @ + 1, ![s].got = @ + 1]
  /\ Goes(s, "relaying")
  /\ UNCHANGED <<setup, net, path>>

\* The application went away.  The client ends the tunnel as if it had finished;
\* the daemon sends no end of stream.
WriteFails(s) ==
  /\ relay[s].step = "writing"
  /\ app[s].gone
  /\ IF s = "client" THEN Stops(s, "finished", Ending) ELSE Stops(s, "error", <<"normal">>)
  /\ UNCHANGED <<setup, app, net, path>>

\* The peer's end of stream.
TakeEnd(s) ==
  /\ relay[s].step = "relaying"
  /\ AtEnd(s)
  /\ Stops(s, "ended", <<"normal">>)
  /\ Take(s, "end", FALSE)
  /\ UNCHANGED <<setup, app, path>>

\* Mutant of TakeClose: a close frame without a failure code is an end of stream.
TakeCloseEnds(s) ==
  /\ relay[s].step = "relaying"
  /\ AtClose(s)
  /\ Stops(s, IF In(s).close = "normal" THEN "ended" ELSE "failure",
           IF s = "client" THEN <<>> ELSE <<"normal">>)
  /\ UNCHANGED <<setup, app, net, path>>

\* A close frame from the peer or from anything between.
TakeClose(s) ==
  /\ relay[s].step = "relaying"
  /\ AtClose(s)
  /\ Stops(s, In(s).close, IF s = "client" THEN <<>> ELSE <<"normal">>)
  /\ UNCHANGED <<setup, app, net, path>>

\* Mutant of TakeHangup: the daemon does not look for the end of its caller.
TakeHangupClient(s) ==
  /\ s = "client"
  /\ relay[s].step = "relaying"
  /\ HungUp(s)
  /\ Stops(s, "hangup", <<>>)
  /\ UNCHANGED <<setup, app, net, path>>

TakeHangup(s) ==
  /\ relay[s].step = "relaying"
  /\ HungUp(s)
  /\ Stops(s, "hangup", <<>>)
  /\ UNCHANGED <<setup, app, net, path>>

----------------------------------------------------------------------------
(* The end                                                                 *)

\* One frame of the farewell; a failed send drops the rest.
Farewell(s) ==
  /\ relay[s].step = "ending" /\ relay[s].farewell # <<>>
  /\ \/ /\ ~Down(s)
        /\ Load(net[s]) < Window \/ net[s].close # None
        /\ LET f == Head(relay[s].farewell) IN
             net' = [net EXCEPT ![s] = IF f = "end" THEN Carry(@, "end", TRUE)
                                                    ELSE Carry(@, "close", f)]
        /\ relay' = [relay EXCEPT ![s].farewell = Tail(@)]
     \/ /\ Down(s)
        /\ relay' = [relay EXCEPT ![s].farewell = <<>>]
        /\ net' = net
  /\ UNCHANGED <<setup, app, path>>

\* What the client's relay returns, a TunnelEnd or an error.
Verdict ==
  LET cause == relay["client"].cause IN
  IF cause \in {"finished", "ended"} THEN "Closed"
  ELSE IF cause = "failure" THEN "Refused"
  ELSE IF cause = "error" THEN "Err"
  ELSE IF cause = "normal" /\ setup.identity /\ ~relay["client"].proved THEN "Closed"
  ELSE IF setup.identity THEN "Truncated" ELSE "Closed"

\* Mutant of CutShort: any end of the caller closes the server's connection.
CutShortNever == FALSE

\* The caller owed an end of stream and ended without it.
CutShort ==
  /\ setup.identity
  /\ relay["daemon"].cause \in {"normal", "failure", "hangup"}

\* The application's connection is dropped.  The kernel resets one that still
\* holds bytes nobody read, if they came in time.
Drops(s, broken) ==
  \E sees \in IF broken THEN {"reset"}
             ELSE IF app[s].unread > 0 THEN {"eof", "reset"} ELSE {"eof"} :
    app' = [app EXCEPT ![s].sees = IF @ = "open" THEN sees ELSE @]

\* A relay is over and closes its application's connection, or resets it.
Done(s) ==
  /\ relay[s].step = "ending" /\ relay[s].farewell = <<>>
  /\ Goes(s, "done")
  /\ Drops(s, IF s = "client"
              THEN setup.identity /\ Verdict \in {"Err", "Truncated", "Refused"}
              ELSE CutShort)
  /\ UNCHANGED <<setup, net, path>>

\* The listener was told to stop and cuts what is open: the task is dropped.
Abort ==
  /\ "abort" \in setup.faults
  /\ relay["client"].step # "done"
  /\ ~setup.probe
  /\ relay' = [relay EXCEPT !["client"].step = "done", !["client"].cause = "aborted",
                            !["client"].farewell = <<>>]
  /\ Drops("client", FALSE)
  /\ UNCHANGED <<setup, net, path>>

----------------------------------------------------------------------------
(* The applications and the way between the relays                         *)

AppWrites(s) ==
  /\ app[s].sees = "open" /\ ~app[s].fin
  /\ app[s].wrote < Bytes[s] /\ app[s].unread < Buffer
  /\ app' = [app EXCEPT ![s].wrote = @ + 1, ![s].unread = @ + 1]
  /\ UNCHANGED <<setup, relay, net, path>>

AppReads(s) ==
  /\ app[s].pending > 0
  /\ app' = [app EXCEPT ![s].pending = @ - 1]
  /\ UNCHANGED <<setup, relay, net, path>>

AppFinishes(s) ==
  /\ app[s].sees = "open" /\ ~app[s].fin
  /\ app' = [app EXCEPT ![s].fin = TRUE]
  /\ UNCHANGED <<setup, relay, net, path>>

AppGoes(s) ==
  /\ "gone" \in setup.faults
  /\ app[s].sees = "open" /\ ~app[s].gone
  /\ app' = [app EXCEPT ![s].fin = TRUE, ![s].gone = TRUE, ![s].pending = 0]
  /\ UNCHANGED <<setup, relay, net, path>>

Cut ==
  /\ "cut" \in setup.faults /\ path # "cut"
  /\ path' = "cut"
  /\ net' \in {n \in [Side -> UNION {Prefixes(net[s]) : s \in Side}] :
                 \A s \in Side : n[s] \in Prefixes(net[s])}
  /\ UNCHANGED <<setup, app, relay>>

\* A proxy on the way ends the WebSocket with a close frame of its own, the
\* harmless-looking kind.
ProxyCloses(s) ==
  /\ "close" \in setup.faults /\ path # "cut" /\ net[s].close = None
  /\ path' = "closed"
  /\ \E q \in Prefixes(net[s]) : net' = [net EXCEPT ![s] = [q EXCEPT !.close = "normal"]]
  /\ UNCHANGED <<setup, app, relay>>

Handshake == ReadHello \/ ReadConfirmation \/ ReadReply \/ Dial

Relays(s) ==
  \/ ReadApp(s) \/ AppEnded(s) \/ AppFailed(s) \/ Send(s) \/ SendFails(s) \/ TakeChunk(s)
  \/ Write(s) \/ WriteFails(s) \/ TakeEnd(s) \/ TakeClose(s) \/ TakeHangup(s)
  \/ Farewell(s) \/ Done(s)

Next ==
  \/ Handshake
  \/ Abort
  \/ Cut
  \/ \E s \in Side : \/ Relays(s)
                     \/ AppWrites(s) \/ AppReads(s) \/ AppFinishes(s) \/ AppGoes(s)
                     \/ ProxyCloses(s)

Spec == Init /\ [][Next]_vars

\* Both relays are polled, dials end, and both applications read what they are
\* sent; nobody need write, finish or keep the way open.
FairSpec ==
  /\ Spec
  /\ WF_vars(ReadHello) /\ WF_vars(ReadConfirmation) /\ WF_vars(ReadReply) /\ WF_vars(Dial)
  /\ \A s \in Side : WF_vars(Relays(s)) /\ WF_vars(AppReads(s))

----------------------------------------------------------------------------
(* Properties                                                              *)

\* The records of the state.
Application ==
  [wrote : Nat, unread : 0 .. Buffer, got : Nat, pending : 0 .. Buffer,
   fin : BOOLEAN, gone : BOOLEAN, sees : {"none", "open", "eof", "reset"}]
Step == {"shaking", "dialing", "relaying", "sending", "writing", "ending", "done"}
Cause == {None, "replied", "refused", "finished", "ended", "normal", "failure", "hangup",
          "error", "aborted"}
Relay ==
  [step : Step, cause : Cause,
   farewell : {<<>>, <<"end", "normal">>, <<"normal">>, <<"failure">>}, proved : BOOLEAN]
Queue ==
  [hand : {None, "hello", "reply", "confirm"}, data : 0 .. Window, end : BOOLEAN,
   close : {None, "normal", "failure"}]

\* Every variable keeps its type; no socket and no path holds more than its size.
TypeOK ==
  /\ setup \in [identity : BOOLEAN, probe : BOOLEAN, agree : BOOLEAN, faults : Faults]
  /\ app \in [Side -> Application]
  /\ relay \in [Side -> Relay]
  /\ net \in [Side -> Queue]
  /\ path \in {"whole", "closed", "cut"}

\* A guest service never sees a connection from a caller that has not proved
\* itself: the daemon dials a verified tunnel after the confirmation (AGENTD-18).
DialledAfterConfirm ==
  setup.identity /\ app["daemon"].sees # "none" => setup.agree /\ relay["client"].proved

\* Not so.  Whatever the path does, a local application that reads a clean end of
\* a verified tunnel has everything the server wrote, or had itself finished
\* (serve.rs:200, "A verified stream only ends cleanly when its authenticated end
\* arrives").
LocalEofIsComplete ==
  setup.identity /\ app["client"].sees = "eof" =>
    \/ /\ relay["client"].cause = "ended"
       /\ app["daemon"].fin /\ app["client"].got = app["daemon"].wrote
    \/ relay["client"].cause = "finished" /\ app["client"].fin

\* Whatever the path does, a server that reads a clean end of a verified tunnel
\* has everything the local application wrote, or had itself ended.
GuestEofIsComplete ==
  setup.identity /\ app["daemon"].sees = "eof" =>
    \/ /\ relay["daemon"].cause = "ended"
       /\ app["daemon"].got = app["client"].wrote
    \/ relay["daemon"].cause \in {"finished", "error"} /\ app["daemon"].fin

\* It does, unless the local application closed while the client's relay was
\* writing to it: that relay sends its end of stream with bytes still unread.
GuestEofIsCompleteUnlessLocalGone ==
  GuestEofIsComplete \/ app["client"].gone

\* A close frame without a failure code came instead of the daemon's reply: the
\* relay returns Closed (initiate, classify_close) and the connection is not reset.
ClosedInHandshake ==
  relay["client"].cause = "normal" /\ ~relay["client"].proved

\* What a local application reads at the end of a tunnel that verifies is true: a
\* clean end is a complete one, unless the serving loop dropped the connection
\* when it was told to cut, or a close frame ended the handshake; then no byte has
\* reached the application, and no server was dialled for it.  And a server that
\* finished over a whole path is not reported as cut short to an application that
\* only listens (tunnel_loop, unproven_end).
LocalEndIsTrue ==
  /\ \/ LocalEofIsComplete
     \/ relay["client"].cause = "aborted"
     \/ ClosedInHandshake /\ app["client"].got = 0 /\ app["daemon"].sees = "none"
  /\ setup.identity /\ path = "whole" /\ relay["daemon"].cause = "finished"
       /\ app["client"].wrote = 0 /\ ~app["client"].gone
     => app["client"].sees # "reset"

\* verify_identity answers Closed only when the pin verified.
ClosedMeansVerified ==
  setup.probe /\ relay["client"].step = "done" /\ Verdict = "Closed" => relay["client"].proved

\* Either end of a tunnel is the end of the whole tunnel.
EndReachesBoth ==
  \A s \in Side : relay[s].step = "done" ~> relay[Peer(s)].step = "done"

\* Each relay waits to send while the way is full, and neither reads.
Wedged ==
  \A s \in Side : relay[s].step \in {"sending", "ending"} /\ Load(net[s]) >= Window

\* An application that finishes ends the tunnel, unless the relays wait on each
\* other.
FinishEndsOrWedges ==
  \A s \in Side :
    app[s].fin /\ app[s].sees = "open" ~> (\A r \in Side : relay[r].step = "done") \/ Wedged

\* Not so.  Bytes move until either end closes: what a relay has read, it sends.
KeepsMoving ==
  \A s \in Side : relay[s].step = "sending" ~> relay[s].step # "sending"
=============================================================================
