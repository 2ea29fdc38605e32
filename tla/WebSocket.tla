----------------------------- MODULE WebSocket -----------------------------
(***************************************************************************)
(* One websocket session (internal/websocket-stream): Serve, the three      *)
(* goroutines of its errgroup -- readLoop, writeLoop and the one that waits *)
(* for the shutdown -- and the closer they share with Serve.               *)
(*                                                                         *)
(* Time is counted in ticks and passes only while every goroutine waits.   *)
(* A live peer lets a write through within MaxWrite and answers a ping     *)
(* within MaxPong.  The peer, the connection (gorilla/websocket), the      *)
(* channel of the event stream and the shutdown are the environment.       *)
(***************************************************************************)
EXTENDS Naturals, Sequences

CONSTANTS
    PingPeriod,    \* Options.pingPeriod
    WriteTimeout,  \* writeTimeout
    Grace,         \* graceTimeout
    MaxWrite,      \* the longest time a write to a live peer takes
    MaxPong,       \* the longest time a live peer takes to answer a ping
    MaxEvents,     \* bound on the events of the stream
    MaxErrors      \* bound on failures of a write, a deadline or an adapter

ASSUME WebSocketAssumption ==
    /\ PingPeriod \in Nat \ {0} /\ WriteTimeout \in Nat /\ Grace \in Nat
    /\ MaxWrite \in 0..WriteTimeout
    /\ MaxPong \in Nat /\ MaxEvents \in Nat /\ MaxErrors \in Nat

VARIABLES
    serve,      \* Serve: idle, upgraded, run, close, returned
    reader,     \* readLoop: off, start, read, ended
    writer,     \* writeLoop: off, select, event, ping, ended
    watcher,    \* off, wait, close, ended
    ctxDone,    \* the errgroup's context
    once,       \* wsCloser.once: free, busy, done
    graceLeft,  \* time left of its sleep
    conn,       \* none, open, closeSent, closed
    closes,     \* how many times ws.Close was called
    readLeft,   \* time left until the read deadline
    tickLeft,   \* time left until the ticker fires
    pingDue,    \* the ticker's channel holds a tick
    writeLeft,  \* time left until the write deadline
    pong,       \* time left until the peer's pong, or NoPong
    peer,       \* live, silent (answers nothing), left (has disconnected)
    inbox,      \* the channel of the event stream
    inboxClosed,
    offered,    \* how many events the stream has put there
    current,    \* the event writeEvent holds
    written,    \* the events written to the socket
    shutdown,   \* shutdownCh is closed
    errors

sock   == <<conn, closes, once, graceLeft>>
timers == <<readLeft, tickLeft, pingDue, writeLeft>>
stream == <<inbox, inboxClosed, offered>>
output == <<current, written>>
world  == <<pong, peer, shutdown>>
vars   == <<serve, reader, writer, watcher, ctxDone, sock, timers, stream, world,
            output, errors>>

NoPong == MaxPong + 1
Events == 1..MaxEvents

(* readLoop: pongDeadline *)
(* Mutant: a deadline of one period. *)
ShortDeadline == PingPeriod
PongDeadline == 2 * PingPeriod

TypeOK ==
    /\ serve \in {"idle", "upgraded", "run", "close", "returned"}
    /\ reader \in {"off", "start", "read", "ended"}
    /\ writer \in {"off", "select", "event", "ping", "ended"}
    /\ watcher \in {"off", "wait", "close", "ended"}
    /\ ctxDone \in BOOLEAN /\ pingDue \in BOOLEAN
    /\ inboxClosed \in BOOLEAN /\ shutdown \in BOOLEAN
    /\ once \in {"free", "busy", "done"} /\ graceLeft \in 0..Grace
    /\ conn \in {"none", "open", "closeSent", "closed"} /\ closes \in Nat
    /\ readLeft \in 0..PongDeadline /\ tickLeft \in 0..PingPeriod
    /\ writeLeft \in 0..WriteTimeout /\ pong \in 0..NoPong
    /\ peer \in {"live", "silent", "left"}
    /\ inbox \in Seq(Events) /\ current \in 0..MaxEvents /\ written \in Seq(Events)
    /\ offered \in 0..MaxEvents /\ errors \in 0..MaxErrors

Init ==
    /\ serve = "idle" /\ reader = "off" /\ writer = "off" /\ watcher = "off"
    /\ ctxDone = FALSE
    /\ once = "free" /\ graceLeft = 0 /\ conn = "none" /\ closes = 0
    /\ readLeft = 0 /\ tickLeft = 0 /\ pingDue = FALSE /\ writeLeft = 0
    /\ pong = NoPong /\ peer = "live"
    /\ inbox = <<>> /\ inboxClosed = FALSE /\ offered = 0
    /\ current = 0 /\ written = <<>> /\ shutdown = FALSE /\ errors = 0

Error == errors < MaxErrors /\ errors' = errors + 1

-----------------------------------------------------------------------------
(* Serve.                                                                  *)

Upgrade ==
    /\ serve = "idle"
    /\ \/ serve' = "upgraded" /\ conn' = "open"
       \/ serve' = "returned" /\ UNCHANGED conn
    /\ UNCHANGED <<reader, writer, watcher, ctxDone, closes, once, graceLeft, timers,
                   stream, world, output, errors>>

(* Subscribe, then the group; a stream that is closed ends Serve here. *)
Subscribe ==
    /\ serve = "upgraded"
    /\ \/ /\ serve' = "run"
          /\ reader' = "start" /\ writer' = "select" /\ watcher' = "wait"
          /\ tickLeft' = PingPeriod
       \/ serve' = "returned" /\ UNCHANGED <<reader, writer, watcher, tickLeft>>
    /\ UNCHANGED <<ctxDone, sock, readLeft, pingDue, writeLeft, stream, world,
                   output, errors>>

(* Mutant: the group is not waited for. *)
SomeEnded == reader = "ended" \/ writer = "ended"
AllEnded == reader = "ended" /\ writer = "ended" /\ watcher = "ended"

(* eg.Wait returns. *)
Wait ==
    /\ serve = "run" /\ AllEnded
    /\ serve' = "close"
    /\ UNCHANGED <<reader, writer, watcher, ctxDone, sock, timers, stream, world,
                   output, errors>>

(* wsCloser.Close: the first caller sends the close frame, which a peer     *)
(* that is not live may hold up, sleeps and closes the connection; another *)
(* one waits for it and does nothing.                                      *)
(* Mutant: no sync.Once. *)
NoOnce == once # "busy"
First == once = "free"

BeginClose ==
    /\ First
    /\ once' = "busy" /\ graceLeft' = Grace
    /\ \/ conn' = IF conn = "open" THEN "closeSent" ELSE conn
       \/ peer # "live" /\ UNCHANGED conn
    /\ UNCHANGED closes

EndClose ==
    /\ once = "busy" /\ graceLeft = 0
    /\ once' = "done" /\ conn' = "closed" /\ closes' = closes + 1
    /\ UNCHANGED graceLeft

(* The deferred Close; Serve returns behind it. *)
ServeCloses ==
    /\ serve = "close"
    /\ \/ BeginClose /\ UNCHANGED serve
       \/ EndClose /\ serve' = "returned"
       \/ once = "done" /\ ~First /\ serve' = "returned" /\ UNCHANGED sock
    /\ UNCHANGED <<reader, writer, watcher, ctxDone, timers, stream, world,
                   output, errors>>

-----------------------------------------------------------------------------
(* The goroutines.                                                         *)

(* A goroutine of the group returns an error: the first one cancels. *)
Fail == ctxDone' = TRUE

(* readLoop sets its deadline and its pong handler ... *)
StartRead ==
    /\ reader = "start"
    /\ \/ /\ reader' = "read" /\ readLeft' = PongDeadline
          /\ UNCHANGED <<ctxDone, errors>>
       \/ Error /\ reader' = "ended" /\ Fail /\ UNCHANGED readLeft
    /\ UNCHANGED <<serve, writer, watcher, sock, tickLeft, pingDue, writeLeft,
                   stream, world, output>>

RenewDeadline == readLeft' = PongDeadline

(* ... which NextReader calls ... *)
ReadPong ==
    /\ reader = "read" /\ conn # "closed" /\ pong # NoPong
    /\ pong' = NoPong
    /\ RenewDeadline
    /\ UNCHANGED <<serve, reader, writer, watcher, ctxDone, sock, tickLeft, pingDue,
                   writeLeft, stream, peer, shutdown, output, errors>>

(* ... until it fails: the deadline passed, the peer has left or answers    *)
(* the close frame, or the connection was closed here.                     *)
Lost == peer = "left" \/ conn = "closed"
ClosesToo == conn = "closeSent" /\ peer = "live"
(* Mutant: no read deadline. *)
NoDeadline == Lost
MustEnd == readLeft = 0 \/ Lost

ReadFails ==
    /\ reader = "read" /\ (MustEnd \/ ClosesToo)
    /\ reader' = "ended" /\ Fail
    /\ UNCHANGED <<serve, writer, watcher, sock, timers, stream, world, output, errors>>

(* writeLoop: select among what is ready. *)
WriterEndsOnCtx ==
    /\ writer = "select" /\ ctxDone
    /\ writer' = "ended"
    /\ UNCHANGED <<serve, reader, watcher, ctxDone, sock, timers, stream, world,
                   output, errors>>

BeginPing ==
    /\ writer = "select" /\ pingDue
    /\ writer' = "ping" /\ pingDue' = FALSE /\ writeLeft' = WriteTimeout
    /\ UNCHANGED <<serve, reader, watcher, ctxDone, sock, readLeft, tickLeft, stream,
                   world, output, errors>>

HasEvent == inbox # <<>>

BeginEvent ==
    /\ writer = "select" /\ HasEvent
    /\ writer' = "event" /\ writeLeft' = WriteTimeout
    /\ current' = Head(inbox) /\ inbox' = Tail(inbox)
    /\ UNCHANGED <<serve, reader, watcher, ctxDone, sock, readLeft, tickLeft, pingDue,
                   inboxClosed, offered, world, written, errors>>

(* The stream has dropped this session: no error, and no ping any more. *)
StreamEnds ==
    /\ writer = "select" /\ ~HasEvent /\ inboxClosed
    /\ writer' = "ended"
    /\ UNCHANGED <<serve, reader, watcher, ctxDone, sock, timers, stream, world,
                   output, errors>>

(* writePing; a live peer will answer, and one answer serves several pings. *)
WritePing ==
    /\ writer = "ping" /\ conn = "open"
    /\ writer' = "select" /\ writeLeft' = 0
    /\ IF peer = "live" /\ pong = NoPong
       THEN pong' \in 0..MaxPong ELSE UNCHANGED pong
    /\ UNCHANGED <<serve, reader, watcher, ctxDone, sock, readLeft, tickLeft, pingDue,
                   stream, peer, shutdown, output, errors>>

(* writeEvent. *)
WriteEvent ==
    /\ writer = "event" /\ conn = "open"
    /\ writer' = "select" /\ writeLeft' = 0
    /\ written' = Append(written, current) /\ current' = 0
    /\ UNCHANGED <<serve, reader, watcher, ctxDone, sock, readLeft, tickLeft, pingDue,
                   stream, world, errors>>

(* Either of them fails: the connection is closing or lost, the deadline    *)
(* has passed, or the deadline cannot be set or the event has no adapter.  *)
WriteError ==
    \/ (conn # "open" \/ peer = "left" \/ (writeLeft = 0 /\ peer = "silent"))
       /\ UNCHANGED errors
    \/ Error

(* Mutant: an event that cannot be written is skipped. *)
SkipEvent ==
    /\ writer \in {"ping", "event"} /\ WriteError
    /\ writer' = "select" /\ writeLeft' = 0 /\ current' = 0
    /\ UNCHANGED <<serve, reader, watcher, ctxDone, sock, readLeft, tickLeft, pingDue,
                   stream, world, written>>
WriteFails ==
    /\ writer \in {"ping", "event"} /\ WriteError
    /\ writer' = "ended" /\ writeLeft' = 0 /\ current' = 0
    /\ Fail
    /\ UNCHANGED <<serve, reader, watcher, sock, readLeft, tickLeft, pingDue, stream,
                   world, written>>

WatcherEndsOnCtx ==
    /\ watcher = "wait" /\ ctxDone
    /\ watcher' = "ended"
    /\ UNCHANGED <<serve, reader, writer, ctxDone, sock, timers, stream, world,
                   output, errors>>

WatcherCloses ==
    /\ \/ watcher = "wait" /\ shutdown /\ BeginClose /\ watcher' = "close"
       \/ watcher = "close" /\ EndClose /\ watcher' = "ended"
    /\ UNCHANGED <<serve, reader, writer, ctxDone, timers, stream, world, output, errors>>

-----------------------------------------------------------------------------
(* The environment.                                                        *)

Local == <<serve, reader, writer, watcher, ctxDone, sock, timers, output, errors>>

Offer ==
    /\ serve = "run" /\ ~inboxClosed /\ offered < MaxEvents
    /\ offered' = offered + 1 /\ inbox' = Append(inbox, offered + 1)
    /\ UNCHANGED <<Local, inboxClosed, world>>

CloseInbox ==
    /\ serve = "run" /\ ~inboxClosed
    /\ inboxClosed' = TRUE
    /\ UNCHANGED <<Local, inbox, offered, world>>

PeerGone ==
    /\ serve = "run" /\ peer = "live"
    /\ peer' \in {"silent", "left"} /\ pong' = NoPong
    /\ UNCHANGED <<Local, stream, shutdown>>

(* shutdownCh is closed; cmd/chat-service never does it (server_client.go). *)
Shutdown ==
    /\ serve = "run" /\ ~shutdown
    /\ shutdown' = TRUE
    /\ UNCHANGED <<Local, stream, pong, peer>>

(* Nobody has anything to do but wait. *)
ReaderWaits ==
    /\ reader # "start"
    /\ reader = "read" => ~MustEnd /\ pong # 0
WriterWaits ==
    /\ writer = "select" => ~ctxDone /\ ~pingDue /\ ~HasEvent /\ ~inboxClosed
    /\ writer \in {"ping", "event"} =>
         /\ conn = "open" /\ writeLeft > 0
         /\ peer = "live" => WriteTimeout - writeLeft < MaxWrite
WatcherWaits == watcher = "wait" => ~ctxDone /\ ~shutdown
ServeWaits == serve \in {"run", "close"} /\ (serve = "run" => ~AllEnded)
CloserWaits == (once = "busy" => graceLeft > 0) /\ (serve = "close" => once = "busy")

Down(n) == IF n = 0 THEN 0 ELSE n - 1

Tick ==
    /\ ReaderWaits /\ WriterWaits /\ WatcherWaits /\ ServeWaits /\ CloserWaits
    /\ readLeft' = Down(readLeft) /\ writeLeft' = Down(writeLeft)
    /\ graceLeft' = Down(graceLeft)
    /\ pong' = IF pong \in {0, NoPong} THEN pong ELSE pong - 1
    /\ IF writer = "ended" THEN UNCHANGED <<tickLeft, pingDue>>
       ELSE /\ tickLeft' = IF tickLeft = 1 THEN PingPeriod ELSE tickLeft - 1
            /\ pingDue' = (pingDue \/ tickLeft = 1)
    /\ UNCHANGED <<serve, reader, writer, watcher, ctxDone, conn, closes, once, stream,
                   peer, shutdown, output, errors>>

Returned == serve = "returned" /\ UNCHANGED vars

-----------------------------------------------------------------------------
ServeStep == Upgrade \/ Subscribe \/ Wait \/ ServeCloses
ReaderStep == StartRead \/ ReadPong \/ ReadFails
WriterStep == WriterEndsOnCtx \/ BeginPing \/ BeginEvent \/ StreamEnds \/ WritePing
              \/ WriteEvent \/ WriteFails
WatcherStep == WatcherEndsOnCtx \/ WatcherCloses

Next ==
    \/ ServeStep \/ ReaderStep \/ WriterStep \/ WatcherStep
    \/ Offer \/ CloseInbox \/ PeerGone \/ Shutdown \/ Tick \/ Returned

Spec == Init /\ [][Next]_vars

(* The scheduler runs every goroutine that can run, and time passes. *)
LiveSpec ==
    /\ Spec
    /\ WF_vars(ServeStep) /\ WF_vars(ReaderStep) /\ WF_vars(WriterStep)
    /\ WF_vars(WatcherStep) /\ WF_vars(Tick)

-----------------------------------------------------------------------------
(* Between two pongs of a live peer lie a period of the ticker, the writes   *)
(* of every event that may win the select against the ping, the ping and    *)
(* the answer; when that fits into the second period the read deadline of  *)
(* readLoop (handler.go:88) never cuts off a live peer while the write     *)
(* loop runs.                                                              *)
LivePeerStays ==
    (MaxEvents + 1) * MaxWrite + MaxPong < PingPeriod =>
      (reader = "read" /\ writer # "ended" /\ peer = "live" /\ conn = "open"
        => readLeft > 0)

(* wsCloser: the shutdown and the deferred Close of Serve close the          *)
(* connection once.                                                        *)
ClosedAtMostOnce == closes <= 1

(* Serve returns behind its goroutines and leaves no open connection, if    *)
(* it had subscribed (closer.go:30, handler.go:66 and 83).                 *)
NothingLeftBehind ==
    serve = "returned" /\ reader # "off" => {reader, writer, watcher} = {"ended"} /\ conn = "closed"

(* The peer sees the events of the stream in order and without a gap:       *)
(* an event that cannot be written ends the session (handler.go:134).      *)
NoGap == written = SubSeq([n \in Events |-> n], 1, Len(written))

(* What makes them inductive.  Serve, its goroutines and the closer: one of *)
(* them at a time is in the closer, and none before the group ends but the *)
(* watcher.                                                                *)
Goroutines == {reader, writer, watcher}

Stages ==
    /\ closes = (IF once = "done" THEN 1 ELSE 0)
    /\ conn = "closed" <=> once = "done"
    /\ watcher = "close" => serve = "run" /\ once = "busy"
    /\ serve \in {"idle", "upgraded"} => Goroutines = {"off"} /\ once = "free"
    /\ serve = "run" => /\ "off" \notin Goroutines
                        /\ once = "busy" => watcher = "close"
                        /\ watcher = "wait" => once = "free"
    /\ serve = "close" => Goroutines = {"ended"}
    /\ serve = "returned" => \/ Goroutines = {"off"} /\ once = "free"
                             \/ Goroutines = {"ended"} /\ once = "done"

(* The events the stream has offered are written, then the current one,    *)
(* then the channel's, as long as the write loop runs.                     *)
InHand == IF writer = "event" THEN 1 ELSE 0

InOrder ==
    /\ Len(written) <= offered
    /\ \A x \in 1..Len(written) : written[x] = x
    /\ writer # "ended" =>
           /\ Len(written) + InHand + Len(inbox) = offered
           /\ writer = "event" => current = Len(written) + 1
           /\ \A x \in 1..Len(inbox) : inbox[x] = Len(written) + InHand + x

(* The read deadline of a live peer lies behind the pong that is on its    *)
(* way, else behind the ping that is written and its pong, else behind the *)
(* events that may still win against the ping, and that way, else behind   *)
(* the tick and the longest such way.                                      *)
Spent == WriteTimeout - writeLeft
LongestWay == (MaxEvents + 1) * MaxWrite + MaxPong

WayToPong ==
    IF pong # NoPong THEN pong
    ELSE IF writer = "ping" THEN MaxWrite - Spent + MaxPong
    ELSE IF pingDue THEN
        (MaxEvents - Len(written)) * MaxWrite - (IF writer = "event" THEN Spent ELSE 0)
            + MaxWrite + MaxPong
    ELSE tickLeft + LongestWay

OnTime ==
    /\ writer \in {"select", "event", "ping"} => tickLeft > 0
    /\ writer \in {"event", "ping"} /\ peer = "live" /\ conn = "open" => Spent <= MaxWrite
    /\ LongestWay < PingPeriod =>
           (reader = "read" /\ writer # "ended" /\ peer = "live" /\ conn = "open"
                => readLeft > WayToPong)

(* The properties with what makes them inductive. *)
WebSocketInv ==
    /\ TypeOK /\ Stages /\ ClosedAtMostOnce /\ NothingLeftBehind
    /\ InOrder /\ NoGap /\ OnTime /\ LivePeerStays

(* A session that nobody needs any more ends, by the shutdown, the peer's   *)
(* leaving or silence, or the end of the stream: in the last case the       *)
(* write loop stops pinging (handler.go:129) and the read deadline ends it. *)
SessionEnds ==
    (serve = "run" /\ (shutdown \/ peer # "live" \/ inboxClosed))
        ~> (serve = "returned")

(* An event of the stream reaches the peer, or the session ends.           *)
EventsArrive ==
    \A n \in Events : (offered >= n) ~> (Len(written) >= n \/ serve = "returned")

(* What a session owes: events while it lasts, and its end.                *)
SessionServes == SessionEnds /\ EventsArrive
=============================================================================
