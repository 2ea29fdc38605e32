--------------------------- MODULE WebSocketProofs ---------------------------
(***************************************************************************)
(* One websocket session, for any periods, timeouts, numbers of events and *)
(* failures.                                                               *)
(***************************************************************************)
EXTENDS WebSocket, SequenceTheorems, TLAPS

-----------------------------------------------------------------------------
(* Types.                                                                  *)

LEMMA Periods ==
    /\ PingPeriod \in Nat /\ PingPeriod > 0 /\ WriteTimeout \in Nat /\ Grace \in Nat
    /\ MaxWrite \in Nat /\ MaxWrite <= WriteTimeout
    /\ MaxPong \in Nat /\ MaxEvents \in Nat /\ MaxErrors \in Nat
BY WebSocketAssumption

(* What is left of a period. *)
LEMMA Rest == \A a, b \in Nat : b <= a => a - b \in Int /\ a - b >= 0
OBVIOUS

LEMMA Deadlines ==
    /\ PongDeadline \in Nat /\ NoPong \in Nat /\ NoPong > MaxPong /\ 0..MaxPong \subseteq 0..NoPong
    /\ \A d \in Nat : \A m \in 0..d : Down(m) \in 0..d
BY Periods DEF PongDeadline, NoPong, Down

StageTypes ==
    /\ serve \in {"idle", "upgraded", "run", "close", "returned"}
    /\ reader \in {"off", "start", "read", "ended"}
    /\ writer \in {"off", "select", "event", "ping", "ended"}
    /\ watcher \in {"off", "wait", "close", "ended"}
    /\ once \in {"free", "busy", "done"} /\ graceLeft \in 0..Grace
    /\ conn \in {"none", "open", "closeSent", "closed"} /\ closes \in Nat

TimeTypes ==
    /\ readLeft \in 0..PongDeadline /\ tickLeft \in 0..PingPeriod
    /\ writeLeft \in 0..WriteTimeout /\ pong \in 0..NoPong
    /\ peer \in {"live", "silent", "left"}

EventTypes ==
    /\ inbox \in Seq(Events) /\ current \in 0..MaxEvents /\ written \in Seq(Events)
    /\ offered \in 0..MaxEvents /\ errors \in 0..MaxErrors

FlagTypes ==
    /\ ctxDone \in BOOLEAN /\ pingDue \in BOOLEAN
    /\ inboxClosed \in BOOLEAN /\ shutdown \in BOOLEAN

LEMMA TypeParts == TypeOK <=> StageTypes /\ TimeTypes /\ EventTypes /\ FlagTypes
BY DEF TypeOK, StageTypes, TimeTypes, EventTypes, FlagTypes

LEMMA FlagTypesStep ==
    ASSUME FlagTypes, [Next]_vars
    PROVE  FlagTypes'
<1>1. ctxDone' = ctxDone \/ ctxDone' = TRUE
  BY DEF Next, ServeStep, Upgrade, Subscribe, Wait, ServeCloses, ReaderStep, StartRead, ReadPong,
         ReadFails, WriterStep, WriterEndsOnCtx, BeginPing, BeginEvent, StreamEnds, WritePing,
         WriteEvent, WriteFails, Fail, WatcherStep, WatcherEndsOnCtx, WatcherCloses, Offer,
         CloseInbox, PeerGone, Shutdown, Returned, Tick, Local, vars
<1>2. \/ pingDue' = pingDue \/ pingDue' = FALSE
      \/ pingDue' = (pingDue \/ tickLeft = 1)
  BY DEF Next, ServeStep, Upgrade, Subscribe, Wait, ServeCloses, ReaderStep, StartRead, ReadPong,
         ReadFails, WriterStep, WriterEndsOnCtx, BeginPing, BeginEvent, StreamEnds, WritePing,
         WriteEvent, WriteFails, WatcherStep, WatcherEndsOnCtx, WatcherCloses, Offer,
         CloseInbox, PeerGone, Shutdown, Returned, Tick, Local, vars, timers
<1>3. inboxClosed' = inboxClosed \/ inboxClosed' = TRUE
  BY DEF Next, ServeStep, Upgrade, Subscribe, Wait, ServeCloses, ReaderStep, StartRead, ReadPong,
         ReadFails, WriterStep, WriterEndsOnCtx, BeginPing, BeginEvent, StreamEnds, WritePing,
         WriteEvent, WriteFails, WatcherStep, WatcherEndsOnCtx, WatcherCloses, Offer,
         CloseInbox, PeerGone, Shutdown, Returned, Tick, vars, stream
<1>4. shutdown' = shutdown \/ shutdown' = TRUE
  BY DEF Next, ServeStep, Upgrade, Subscribe, Wait, ServeCloses, ReaderStep, StartRead, ReadPong,
         ReadFails, WriterStep, WriterEndsOnCtx, BeginPing, BeginEvent, StreamEnds, WritePing,
         WriteEvent, WriteFails, WatcherStep, WatcherEndsOnCtx, WatcherCloses, Offer,
         CloseInbox, PeerGone, Shutdown, Returned, Tick, vars, world
<1>5. ctxDone' \in BOOLEAN /\ pingDue' \in BOOLEAN
  BY <1>1, <1>2, Zenon DEF FlagTypes
<1>6. inboxClosed' \in BOOLEAN /\ shutdown' \in BOOLEAN
  BY <1>3, <1>4, Zenon DEF FlagTypes
<1> QED
  BY <1>5, <1>6 DEF FlagTypes

LEMMA CloserTypes ==
    ASSUME StageTypes, BeginClose \/ EndClose \/ UNCHANGED sock
    PROVE  /\ once' \in {"free", "busy", "done"} /\ graceLeft' \in 0..Grace
           /\ conn' \in {"none", "open", "closeSent", "closed"} /\ closes' \in Nat
BY Periods DEF StageTypes, BeginClose, EndClose, sock

LEMMA StageTypesStep ==
    ASSUME StageTypes, [Next]_vars
    PROVE  StageTypes'
<1> USE DEF StageTypes
<1>1. CASE UNCHANGED vars
  BY <1>1 DEF vars, sock
<1>2. CASE Upgrade \/ Subscribe \/ Wait
  BY <1>2 DEF Upgrade, Subscribe, Wait, sock
<1>3. CASE ServeCloses \/ WatcherStep
  <2>1. BeginClose \/ EndClose \/ UNCHANGED sock
    BY <1>3 DEF ServeCloses, WatcherStep, WatcherEndsOnCtx, WatcherCloses
  <2>2. /\ serve' \in {"idle", "upgraded", "run", "close", "returned"}
        /\ watcher' \in {"off", "wait", "close", "ended"}
        /\ reader' = reader /\ writer' = writer
    BY <1>3 DEF ServeCloses, WatcherStep, WatcherEndsOnCtx, WatcherCloses
  <2> QED
    BY <2>1, <2>2, CloserTypes
<1>4. CASE ReaderStep
  BY <1>4 DEF ReaderStep, StartRead, ReadPong, ReadFails, sock
<1>5. CASE WriterStep
  BY <1>5 DEF WriterStep, WriterEndsOnCtx, BeginPing, BeginEvent, StreamEnds, WritePing,
              WriteEvent, WriteFails, sock
<1>6. CASE Offer \/ CloseInbox \/ PeerGone \/ Shutdown \/ Returned
  BY <1>6 DEF Offer, CloseInbox, PeerGone, Shutdown, Returned, Local, sock, vars
<1>7. CASE Tick
  BY <1>7, Periods, Deadlines DEF Tick
<1> QED
  BY <1>1, <1>2, <1>3, <1>4, <1>5, <1>6, <1>7 DEF Next, ServeStep

LEMMA TimeTypesStep ==
    ASSUME TimeTypes, OnTime, StageTypes, Stages, [Next]_vars
    PROVE  TimeTypes'
<1> USE Periods, Deadlines
<1>1. CASE UNCHANGED <<readLeft, tickLeft, writeLeft, pong, peer>>
  BY <1>1 DEF TimeTypes
<1>2. CASE ServeStep
  <2>1. UNCHANGED <<readLeft, writeLeft, pong, peer>> /\ tickLeft' \in {tickLeft, PingPeriod}
    BY <1>2 DEF ServeStep, Upgrade, Subscribe, Wait, ServeCloses, timers, world
  <2> QED
    BY <2>1 DEF TimeTypes
<1>3. CASE ReaderStep
  <2>1. /\ UNCHANGED <<writeLeft, peer, tickLeft>>
        /\ readLeft' \in {readLeft, PongDeadline} /\ pong' \in {pong, NoPong}
    BY <1>3 DEF ReaderStep, StartRead, ReadPong, ReadFails, RenewDeadline, timers, world
  <2> QED
    BY <2>1 DEF TimeTypes
<1>4. CASE WriterStep
  <2>1. /\ UNCHANGED <<readLeft, peer, tickLeft>>
        /\ writeLeft' \in {writeLeft, 0, WriteTimeout} /\ pong' \in {pong} \cup 0..MaxPong
    BY <1>4 DEF WriterStep, WriterEndsOnCtx, BeginPing, BeginEvent, StreamEnds, WritePing,
                WriteEvent, WriteFails, timers, world
  <2> QED
    BY <2>1 DEF TimeTypes
<1>5. CASE WatcherStep \/ Offer \/ CloseInbox \/ PeerGone \/ Shutdown \/ Returned
  <2>1. /\ UNCHANGED <<readLeft, tickLeft, writeLeft>> /\ pong' \in {pong, NoPong}
        /\ peer' \in {peer, "silent", "left"}
    BY <1>5 DEF WatcherStep, WatcherEndsOnCtx, WatcherCloses, Offer, CloseInbox, PeerGone, Shutdown,
                Returned, Local, timers, world, vars
  <2> QED
    BY <2>1 DEF TimeTypes
<1>6. CASE Tick
  <2>1. readLeft' \in 0..PongDeadline /\ writeLeft' \in 0..WriteTimeout /\ peer' = peer
    BY <1>6 DEF Tick, TimeTypes
  <2>2. pong' \in 0..NoPong
    BY <1>6 DEF Tick, TimeTypes
  <2>3. tickLeft' \in 0..PingPeriod
    <3>1. \/ tickLeft' = tickLeft
          \/ tickLeft' = IF tickLeft = 1 THEN PingPeriod ELSE tickLeft - 1
      BY <1>6 DEF Tick
    <3>2. writer # "off"
      BY <1>6 DEF Tick, ServeWaits, Stages, Goroutines
    <3>3. writer = "ended" => tickLeft' = tickLeft
      BY <1>6 DEF Tick
    <3>4. writer # "ended" => tickLeft > 0
      BY <3>2 DEF OnTime, StageTypes
    <3> QED
      BY <3>1, <3>3, <3>4 DEF TimeTypes
  <2> QED
    BY <2>1, <2>2, <2>3 DEF TimeTypes
<1> QED
  BY <1>1, <1>2, <1>3, <1>4, <1>5, <1>6 DEF Next, vars, timers, world

LEMMA EventTypesStep ==
    ASSUME TypeOK, InOrder, [Next]_vars
    PROVE  EventTypes'
<1> USE Periods DEF TypeOK, EventTypes
<1>1. CASE UNCHANGED vars
  BY <1>1 DEF vars, stream, output, world
<1>2. CASE ServeStep
  BY <1>2 DEF ServeStep, Upgrade, Subscribe, Wait, ServeCloses, stream, output, world
<1>3. CASE ReaderStep
  BY <1>3 DEF ReaderStep, StartRead, ReadPong, ReadFails, Error, stream, output, world
<1>4. CASE BeginEvent
  <2>1. inbox \in Seq(Events) /\ inbox # <<>>
    BY <1>4 DEF BeginEvent, HasEvent
  <2>2. Head(inbox) \in Events /\ Tail(inbox) \in Seq(Events)
    BY <2>1, HeadTailProperties
  <2> QED
    BY <1>4, <2>2 DEF BeginEvent, Events, world
<1>5. CASE WriteEvent
  <2>1. current \in Events
    <3>1. Len(written) \in Nat /\ Len(inbox) \in Nat
      BY LenProperties
    <3>2. current = Len(written) + 1 /\ Len(written) + 1 + Len(inbox) = offered
      BY <1>5 DEF WriteEvent, InOrder, InHand
    <3> QED
      BY <3>1, <3>2 DEF Events
  <2>2. Append(written, current) \in Seq(Events)
    BY <2>1, AppendProperties
  <2> QED
    BY <1>5, <2>2 DEF WriteEvent, stream, world
<1>6. CASE WriterStep /\ ~BeginEvent /\ ~WriteEvent
  BY <1>6 DEF WriterStep, WriterEndsOnCtx, BeginPing, StreamEnds, WritePing,
              WriteFails, WriteError, Error, stream, output, world
<1>7. CASE WatcherStep
  BY <1>7 DEF WatcherStep, WatcherEndsOnCtx, WatcherCloses, stream, output, world
<1>8. CASE Offer
  <2>1. offered + 1 \in Events /\ offered' = offered + 1
    BY <1>8 DEF Offer, Events
  <2>2. Append(inbox, offered + 1) \in Seq(Events)
    BY <2>1, AppendProperties
  <2> QED
    BY <1>8, <2>1, <2>2 DEF Offer, Local, output, world, Events
<1>9. CASE CloseInbox \/ PeerGone \/ Shutdown \/ Returned \/ Tick
  BY <1>9 DEF CloseInbox, PeerGone, Shutdown, Returned, Tick, Local, stream, output, world, vars
<1> QED
  BY <1>1, <1>2, <1>3, <1>4, <1>5, <1>6, <1>7, <1>8, <1>9 DEF Next

LEMMA TypeStep ==
    ASSUME TypeOK, Stages, InOrder, OnTime, [Next]_vars
    PROVE  TypeOK'
<1>1. StageTypes /\ TimeTypes /\ FlagTypes
  BY TypeParts
<1>2. StageTypes' /\ TimeTypes' /\ FlagTypes' /\ EventTypes'
  BY <1>1, StageTypesStep, TimeTypesStep, FlagTypesStep, EventTypesStep
<1> QED
  BY <1>2 DEF TypeOK, StageTypes, TimeTypes, EventTypes, FlagTypes

-----------------------------------------------------------------------------
(* Serve, the goroutines and the closer.                                   *)

LEMMA StagesStep ==
    ASSUME StageTypes, Stages, [Next]_vars
    PROVE  Stages'
<1> USE DEF StageTypes, Stages, Goroutines
<1>1. CASE UNCHANGED <<serve, reader, writer, watcher, closes, once, conn>>
  BY <1>1
<1>2. CASE Upgrade
  BY <1>2 DEF Upgrade
<1>3. CASE Subscribe
  BY <1>3 DEF Subscribe, sock
<1>4. CASE Wait
  BY <1>4 DEF Wait, AllEnded, sock
<1>5. CASE ServeCloses
  BY <1>5 DEF ServeCloses, BeginClose, EndClose, First, sock
<1>6. CASE ReaderStep
  BY <1>6 DEF ReaderStep, StartRead, ReadPong, ReadFails, sock
<1>7. CASE WriterStep
  BY <1>7 DEF WriterStep, WriterEndsOnCtx, BeginPing, BeginEvent, StreamEnds, WritePing,
              WriteEvent, WriteFails, sock
<1>8. CASE WatcherStep
  BY <1>8 DEF WatcherStep, WatcherEndsOnCtx, WatcherCloses, BeginClose, EndClose, First, sock
<1>9. CASE Offer \/ CloseInbox \/ PeerGone \/ Shutdown \/ Returned \/ Tick
  BY <1>1, <1>9 DEF Offer, CloseInbox, PeerGone, Shutdown, Returned, Tick, Local, sock, vars
<1> QED
  BY <1>1, <1>2, <1>3, <1>4, <1>5, <1>6, <1>7, <1>8, <1>9 DEF Next, ServeStep, vars, sock

LEMMA StagesGiveEnds ==
    ASSUME Stages
    PROVE  ClosedAtMostOnce /\ NothingLeftBehind
BY DEF Stages, Goroutines, ClosedAtMostOnce, NothingLeftBehind

-----------------------------------------------------------------------------
(* The events, from the stream to the socket.                              *)

LEMMA OrderStep ==
    ASSUME EventTypes, Stages, InOrder, [Next]_vars
    PROVE  InOrder'
<1>1. /\ inbox \in Seq(Events) /\ written \in Seq(Events)
      /\ Len(inbox) \in Nat /\ Len(written) \in Nat /\ offered \in Nat
  BY Periods, LenProperties DEF EventTypes
<1>2. CASE UNCHANGED <<written, inbox, current, offered, writer>>
  BY <1>2 DEF InOrder, InHand
<1>3. CASE writer' = "ended" /\ UNCHANGED <<written, offered>>
  BY <1>3 DEF InOrder
<1>4. CASE /\ UNCHANGED <<written, inbox, current, offered>>
           /\ writer \notin {"event", "ended"} /\ writer' \notin {"event", "ended"}
  BY <1>4 DEF InOrder, InHand
<1>5. CASE BeginEvent
  <2>1. /\ writer = "select" /\ writer' = "event" /\ UNCHANGED <<written, offered>>
        /\ inbox # <<>> /\ current' = Head(inbox) /\ inbox' = Tail(inbox)
    BY <1>5 DEF BeginEvent, HasEvent
  <2>2. PICK rest \in Seq(Events) : rest = Tail(inbox)
    BY <1>1, <2>1, HeadTailProperties
  <2>3. /\ Len(inbox) > 0 /\ Head(inbox) = inbox[1] /\ Len(rest) = Len(inbox) - 1
        /\ \A x \in 1..Len(rest) : rest[x] = inbox[x + 1]
    BY <1>1, <2>1, <2>2, HeadTailProperties, EmptySeq
  <2>4. /\ Len(written) + Len(inbox) = offered
        /\ \A x \in 1..Len(inbox) : inbox[x] = Len(written) + x
    BY <1>1, <2>1 DEF InOrder, InHand
  <2>5. current' = Len(written) + 1
    BY <1>1, <2>1, <2>3, <2>4
  <2>6. \A x \in 1..Len(rest) : rest[x] = Len(written) + 1 + x
    BY <1>1, <2>3, <2>4
  <2>7. Len(written) + 1 + Len(rest) = offered
    <3>1. Len(rest) = Len(inbox) - 1 /\ Len(written) + Len(inbox) = offered
      BY <2>3, <2>4
    <3> QED
      BY <1>1, <3>1
  <2> QED
    BY <1>1, <2>1, <2>2, <2>5, <2>6, <2>7 DEF InOrder, InHand
<1>6. CASE WriteEvent
  <2>1. /\ writer = "event" /\ writer' = "select" /\ UNCHANGED <<inbox, offered>>
        /\ written' = Append(written, current)
    BY <1>6 DEF WriteEvent, stream
  <2>2. /\ Len(written) + 1 + Len(inbox) = offered /\ current = Len(written) + 1
        /\ \A x \in 1..Len(inbox) : inbox[x] = Len(written) + 1 + x
        /\ \A x \in 1..Len(written) : written[x] = x
    BY <2>1 DEF InOrder, InHand
  <2>3. current \in Events
    BY <1>1, <2>2, Periods DEF EventTypes, Events
  <2>4. PICK w \in Seq(Events) : w = Append(written, current)
    BY <1>1, <2>3, AppendProperties
  <2>5. /\ Len(w) = Len(written) + 1 /\ w[Len(written) + 1] = current
        /\ \A x \in 1..Len(written) : w[x] = written[x]
    BY <1>1, <2>3, <2>4, AppendProperties
  <2>6. \A x \in 1..Len(w) : w[x] = x
    BY <1>1, <2>2, <2>5
  <2> QED
    BY <1>1, <2>1, <2>2, <2>4, <2>5, <2>6 DEF InOrder, InHand
<1>7. CASE Offer
  <2>1. /\ UNCHANGED <<written, writer, current>> /\ offered' = offered + 1
        /\ offered < MaxEvents /\ inbox' = Append(inbox, offered + 1)
    BY <1>7 DEF Offer, Local, output
  <2>2. offered + 1 \in Events
    BY <1>1, <2>1, Periods DEF Events
  <2>3. PICK b \in Seq(Events) : b = Append(inbox, offered + 1)
    BY <1>1, <2>2, AppendProperties
  <2>4. /\ Len(b) = Len(inbox) + 1 /\ b[Len(inbox) + 1] = offered + 1
        /\ \A x \in 1..Len(inbox) : b[x] = inbox[x]
    BY <1>1, <2>2, <2>3, AppendProperties
  <2>5. InHand' = InHand /\ InHand \in Nat
    BY <2>1 DEF InHand
  <2>6. CASE writer = "ended"
    BY <1>1, <2>1, <2>6 DEF InOrder
  <2>7. CASE writer # "ended"
    <3>1. /\ Len(written) + InHand + Len(inbox) = offered
          /\ \A x \in 1..Len(inbox) : inbox[x] = Len(written) + InHand + x
          /\ writer = "event" => current = Len(written) + 1
          /\ \A x \in 1..Len(written) : written[x] = x
      BY <2>7 DEF InOrder
    <3>2. \A x \in 1..Len(b) : b[x] = Len(written) + InHand + x
      BY <1>1, <2>4, <2>5, <3>1
    <3>3. Len(written) + InHand + Len(b) = offered + 1 /\ Len(written) <= offered + 1
      <4>1. /\ Len(b) = Len(inbox) + 1 /\ InHand \in Nat
            /\ Len(written) + InHand + Len(inbox) = offered
        BY <2>4, <2>5, <3>1
      <4> QED
        BY <1>1, <4>1
    <3> QED
      BY <2>1, <2>3, <2>5, <3>1, <3>2, <3>3 DEF InOrder
  <2> QED
    BY <2>6, <2>7
<1>8. CASE ServeStep \/ ReaderStep \/ WatcherStep
  <2>1. \/ UNCHANGED <<written, inbox, current, offered, writer>>
        \/ /\ UNCHANGED <<written, inbox, current, offered>>
           /\ writer \notin {"event", "ended"} /\ writer' \notin {"event", "ended"}
    BY <1>8 DEF Stages, Goroutines, ServeStep, Upgrade, Subscribe, Wait, ServeCloses, ReaderStep, StartRead, ReadPong,
                ReadFails, WatcherStep, WatcherEndsOnCtx, WatcherCloses, stream, output
  <2> QED
    BY <1>2, <1>4, <2>1
<1>9. CASE WriterStep /\ ~BeginEvent /\ ~WriteEvent
  BY <1>3, <1>4, <1>9 DEF WriterStep, WriterEndsOnCtx, BeginPing, StreamEnds, WritePing, WriteFails,
                          stream, output
<1>10. CASE CloseInbox \/ PeerGone \/ Shutdown \/ Returned \/ Tick \/ UNCHANGED vars
  BY <1>2, <1>10 DEF CloseInbox, PeerGone, Shutdown, Returned, Tick, Local, stream, output, vars
<1> QED
  BY <1>5, <1>6, <1>7, <1>8, <1>9, <1>10 DEF Next

LEMMA OrderGivesNoGap ==
    ASSUME EventTypes, InOrder
    PROVE  NoGap
<1> DEFINE all == [n \in Events |-> n]
<1>1. written \in Seq(Events) /\ Len(written) \in Nat /\ Len(written) <= MaxEvents /\ MaxEvents \in Nat
  BY Periods, LenProperties DEF EventTypes, InOrder
<1>2. all \in Seq(Events) /\ Len(all) = MaxEvents
  BY <1>1 DEF Events
<1>3. \A x \in 1..MaxEvents : all[x] = x
  BY DEF Events
<1> HIDE DEF all
<1>4. PICK first \in Seq(Events) : first = SubSeq(all, 1, Len(written))
  <2>1. SubSeq(all, 1, Len(written)) \in Seq(Events)
    BY <1>1, <1>2, <1>3, SubSeqProperties
  <2> QED
    BY <2>1
<1>5. Len(first) = Len(written) /\ \A x \in 1..Len(written) : first[x] = all[x]
  BY <1>1, <1>2, <1>4, SubSeqProperties
<1>6. \A x \in 1..Len(written) : first[x] = written[x]
  BY <1>1, <1>3, <1>5 DEF InOrder
<1>7. written = first
  BY <1>1, <1>5, <1>6, SeqEqual
<1> QED
  BY <1>4, <1>7 DEF NoGap, all

-----------------------------------------------------------------------------
(* The read deadline.                                                      *)

(* The time the events still to be written can take.                       *)
EventsLeft == (MaxEvents - Len(written)) * MaxWrite

LEMMA Products ==
    ASSUME NEW a \in Nat, NEW b \in Nat, NEW m \in Nat, b <= a
    PROVE  /\ (a - b) * m \in Nat /\ (a - b) * m + m + MaxPong <= (a + 1) * m + MaxPong
           /\ (a + 1) * m \in Nat
           /\ b + 1 <= a => (a - (b + 1)) * m = (a - b) * m - m
<1>1. MaxPong \in Nat
  BY Periods
<1>2. PICK c \in Nat : c = a - b
  OBVIOUS
<1>3. c * m \in Nat /\ b * m \in Nat /\ (a + 1) * m \in Nat
  BY <1>2
<1>4. (a + 1) * m = c * m + b * m + m
  BY <1>2
<1>5. b + 1 <= a => (a - (b + 1)) * m = c * m - m
  BY <1>2
<1> QED
  BY <1>1, <1>2, <1>3, <1>4, <1>5

LEMMA Ways ==
    ASSUME EventTypes, InOrder
    PROVE  /\ EventsLeft \in Nat /\ LongestWay \in Nat
           /\ EventsLeft + MaxWrite + MaxPong <= LongestWay
           /\ writer = "event" => EventsLeft >= MaxWrite
           /\ WriteEvent => EventsLeft' = EventsLeft - MaxWrite
<1> USE Periods
<1>1. /\ Len(written) \in Nat /\ Len(inbox) \in Nat /\ offered \in Nat
      /\ Len(written) <= offered /\ offered <= MaxEvents
  BY LenProperties DEF EventTypes, InOrder
<1>2. writer = "event" => Len(written) + 1 <= MaxEvents
  BY <1>1 DEF InOrder, InHand
<1>3. /\ EventsLeft \in Nat /\ EventsLeft + MaxWrite + MaxPong <= LongestWay
      /\ LongestWay \in Nat
      /\ Len(written) + 1 <= MaxEvents =>
             (MaxEvents - (Len(written) + 1)) * MaxWrite = EventsLeft - MaxWrite
  BY <1>1, Products DEF EventsLeft, LongestWay
<1>4. Len(written) + 1 <= MaxEvents => EventsLeft - MaxWrite \in Nat
  <2>1. ASSUME Len(written) + 1 <= MaxEvents
        PROVE  (MaxEvents - (Len(written) + 1)) * MaxWrite \in Nat
    <3>1. Len(written) + 1 \in Nat
      BY <1>1
    <3> QED
      BY <2>1, <3>1, Products
  <2> QED
    BY <1>3, <2>1
<1>5. writer = "event" => EventsLeft >= MaxWrite
  BY <1>2, <1>3, <1>4
<1>6. ASSUME WriteEvent PROVE EventsLeft' = EventsLeft - MaxWrite
  <2>1. written \in Seq(Events) /\ current \in Events /\ written' = Append(written, current)
    BY <1>1, <1>6 DEF WriteEvent, EventTypes, InOrder, InHand, Events
  <2>2. Len(written') = Len(written) + 1
    BY <2>1, AppendProperties
  <2>3. Len(written) + 1 <= MaxEvents
    BY <1>2, <1>6 DEF WriteEvent
  <2> QED
    BY <1>3, <2>2, <2>3 DEF EventsLeft
<1> QED
  BY <1>3, <1>5, <1>6

(* The ways to a pong. *)
WayIs ==
    /\ pong # NoPong => WayToPong = pong
    /\ pong = NoPong /\ writer = "ping" => WayToPong = MaxWrite - Spent + MaxPong
    /\ pong = NoPong /\ writer = "event" /\ pingDue =>
           WayToPong = EventsLeft - Spent + MaxWrite + MaxPong
    /\ pong = NoPong /\ writer \notin {"event", "ping"} /\ pingDue =>
           WayToPong = EventsLeft - 0 + MaxWrite + MaxPong
    /\ pong = NoPong /\ writer # "ping" /\ ~pingDue => WayToPong = tickLeft + LongestWay

LEMMA WayCases == WayIs /\ WayIs'
<1>1. WayIs
  BY DEF WayIs, WayToPong, EventsLeft
<1> QED
  BY <1>1, PTL

(* A fresh deadline is far enough for all of them. *)
Fresh ==
    /\ EventTypes /\ TimeTypes /\ InOrder /\ LongestWay < PingPeriod
    /\ writer \in {"event", "ping"} => Spent <= MaxWrite
    => PongDeadline > WayToPong

LEMMA FreshDeadline == Fresh /\ Fresh'
<1>1. Fresh
  <2> USE Periods
  <2>1. SUFFICES ASSUME EventTypes, TimeTypes, InOrder, LongestWay < PingPeriod,
                        writer \in {"event", "ping"} => Spent <= MaxWrite
                 PROVE  PongDeadline > WayToPong
    BY DEF Fresh
  <2>2. /\ EventsLeft \in Nat /\ LongestWay \in Nat
        /\ EventsLeft + MaxWrite + MaxPong <= LongestWay
    BY <2>1, Ways
  <2>3. PongDeadline = PingPeriod + PingPeriod /\ tickLeft <= PingPeriod /\ tickLeft \in Nat
    BY <2>1 DEF PongDeadline, TimeTypes
  <2>4. Spent \in Int /\ Spent >= 0
    BY <2>1 DEF Spent, TimeTypes
  <2>5. pong \in Nat /\ (pong # NoPong => pong <= MaxPong)
    BY <2>1 DEF TimeTypes, NoPong
  <2> QED
    BY <2>1, <2>2, <2>3, <2>4, <2>5, WayCases DEF WayIs
<1> QED
  BY <1>1, PTL

LEMMA TickerStep ==
    ASSUME StageTypes, TimeTypes, Stages, OnTime, [Next]_vars
    PROVE  writer' \in {"select", "event", "ping"} => tickLeft' > 0
<1> USE Periods
<1>1. CASE Tick
  <2>1. writer' = writer /\ tickLeft \in Nat
    BY <1>1 DEF Tick, TimeTypes
  <2>2. SUFFICES ASSUME writer \in {"select", "event", "ping"} PROVE tickLeft' > 0
    BY <2>1
  <2>3. tickLeft > 0 /\ tickLeft' = (IF tickLeft = 1 THEN PingPeriod ELSE tickLeft - 1)
    BY <1>1, <2>2 DEF OnTime, Tick
  <2> QED
    BY <2>1, <2>3
<1>2. CASE ~Tick
  <2>1. \/ tickLeft' = tickLeft /\ (writer' \in {"select", "event", "ping"} => writer \in {"select", "event", "ping"})
        \/ tickLeft' = PingPeriod
    BY <1>2 DEF Next, ServeStep, Upgrade, Subscribe, Wait, ServeCloses, ReaderStep, StartRead, ReadPong,
         ReadFails, WriterStep, WriterEndsOnCtx, BeginPing, BeginEvent, StreamEnds, WritePing,
         WriteEvent, WriteFails, WatcherStep, WatcherEndsOnCtx, WatcherCloses, Offer,
         CloseInbox, PeerGone, Shutdown, Returned, Local, vars, timers
  <2> QED
    BY <2>1 DEF OnTime
<1> QED
  BY <1>1, <1>2

OpenToLive == peer = "live" /\ conn = "open"

(* A live peer with an open connection was one before, or is new.          *)
LEMMA LiveBefore ==
    ASSUME StageTypes, Stages, [Next]_vars, OpenToLive'
    PROVE  peer = "live" /\ (conn = "open" \/ Upgrade)
BY DEF OpenToLive, Stages, StageTypes, Goroutines, Next, ServeStep, Upgrade, Subscribe, Wait,
       ServeCloses, ReaderStep, StartRead, ReadPong, ReadFails, WriterStep, WriterEndsOnCtx,
       BeginPing, BeginEvent, StreamEnds, WritePing, WriteEvent, WriteFails, WatcherStep,
       WatcherEndsOnCtx, WatcherCloses, BeginClose, EndClose, Offer, CloseInbox, PeerGone,
       Shutdown, Returned, Tick, Local, vars, sock, world

LEMMA SpentStep ==
    ASSUME StageTypes, TimeTypes, Stages, OnTime, [Next]_vars, OpenToLive', writer' \in {"event", "ping"}
    PROVE  Spent' <= MaxWrite
<1> USE Periods
<1>1. peer = "live" /\ (conn = "open" \/ Upgrade)
  BY LiveBefore
<1>2. CASE BeginPing \/ BeginEvent
  <2>1. writeLeft' = WriteTimeout
    BY <1>2 DEF BeginPing, BeginEvent
  <2> QED
    BY <2>1 DEF Spent
<1>3. CASE Tick
  <2>1. conn = "open" /\ writer' = writer /\ writeLeft' = Down(writeLeft)
    BY <1>1, <1>3 DEF Tick, OpenToLive
  <2>2. writeLeft > 0 /\ WriteTimeout - writeLeft < MaxWrite
    BY <1>1, <1>3, <2>1 DEF Tick, WriterWaits
  <2>3. writeLeft \in Nat /\ writeLeft' = writeLeft - 1
    BY <2>1, <2>2 DEF TimeTypes, Down
  <2> QED
    BY <2>2, <2>3 DEF Spent
<1>4. CASE Upgrade
  BY <1>4 DEF Upgrade, Stages, Goroutines
<1>5. CASE ~BeginPing /\ ~BeginEvent /\ ~Tick /\ ~Upgrade
  <2>1. writeLeft' = writeLeft /\ writer' = writer
    BY <1>5 DEF Next, ServeStep, Subscribe, Wait, ServeCloses, ReaderStep, StartRead, ReadPong,
         ReadFails, WriterStep, WriterEndsOnCtx, StreamEnds, WritePing,
         WriteEvent, WriteFails, WatcherStep, WatcherEndsOnCtx, WatcherCloses, Offer,
         CloseInbox, PeerGone, Shutdown, Returned, Local, vars, timers
  <2>2. Spent <= MaxWrite
    BY <1>1, <1>5, <2>1 DEF OnTime
  <2> QED
    BY <2>1, <2>2 DEF Spent
<1> QED
  BY <1>2, <1>3, <1>4, <1>5

(* A read loop that reads, a write loop that writes and a live peer.       *)
Served == reader = "read" /\ writer # "ended" /\ OpenToLive

InTime == LongestWay < PingPeriod => (Served => readLeft > WayToPong)

LEMMA OnTimeParts ==
    OnTime <=> /\ writer \in {"select", "event", "ping"} => tickLeft > 0
               /\ writer \in {"event", "ping"} /\ OpenToLive => Spent <= MaxWrite
               /\ InTime
BY DEF OnTime, InTime, Served, OpenToLive

(* What a tick leaves of a way. *)
LEMMA TickInTime ==
    ASSUME TypeOK, TypeOK', Stages, InOrder, OnTime, Tick, LongestWay < PingPeriod, Served, Served'
    PROVE  readLeft' > WayToPong'
<1> USE Periods
<1>1. EventTypes /\ TimeTypes /\ TimeTypes' /\ StageTypes
  BY DEF TypeOK, EventTypes, TimeTypes, StageTypes
<1>2. readLeft > WayToPong /\ (writer \in {"event", "ping"} => Spent <= MaxWrite)
  BY OnTimeParts DEF InTime, Served
<1>3. /\ EventsLeft \in Nat /\ LongestWay \in Nat
      /\ EventsLeft + MaxWrite + MaxPong <= LongestWay
      /\ writer = "event" => EventsLeft >= MaxWrite
  BY <1>1, Ways
<1>4. /\ ReaderWaits /\ WriterWaits /\ UNCHANGED <<reader, writer, written, peer, conn>>
      /\ readLeft' = Down(readLeft) /\ writeLeft' = Down(writeLeft)
      /\ pong' = IF pong \in {0, NoPong} THEN pong ELSE pong - 1
  BY DEF Tick, output
<1>5. readLeft \in Nat /\ readLeft > 0 /\ pong \in Nat /\ pong # 0 /\ readLeft' = readLeft - 1
  BY <1>1, <1>4 DEF ReaderWaits, Served, MustEnd, TimeTypes, Down
<1>6. EventsLeft' = EventsLeft /\ LongestWay' = LongestWay
  BY <1>4 DEF EventsLeft, LongestWay
<1>7. Spent \in Int /\ Spent >= 0 /\ (writer \in {"event", "ping"} => Spent' = Spent + 1)
  <2>1. writeLeft \in Nat /\ writeLeft <= WriteTimeout
    BY <1>1 DEF TimeTypes
  <2>2. writer \in {"event", "ping"} => writeLeft > 0
    BY <1>4 DEF WriterWaits
  <2> QED
    BY <1>4, <2>1, <2>2 DEF Spent, Down
<1>8. Spent' \in Int /\ Spent' >= 0 /\ (writer \in {"event", "ping"} => Spent' <= MaxWrite)
  <2>1. Spent' \in Int /\ Spent' >= 0
    <3>1. writeLeft' \in Nat /\ writeLeft' <= WriteTimeout
      BY <1>1 DEF TimeTypes
    <3>2. WriteTimeout - writeLeft' \in Int /\ WriteTimeout - writeLeft' >= 0
      BY <3>1, Rest
    <3> QED
      BY <3>2 DEF Spent
  <2>2. writer \in {"event", "ping"} => WriteTimeout - writeLeft < MaxWrite
    BY <1>4 DEF WriterWaits, Served, OpenToLive
  <2> QED
    BY <1>7, <2>1, <2>2 DEF Spent
<1>9. WayIs /\ WayIs'
  BY WayCases
<1>10. CASE pong # NoPong
  <2>1. pong' = pong - 1 /\ pong' # NoPong
    BY <1>1, <1>4, <1>5, <1>10 DEF NoPong, TimeTypes
  <2> QED
    BY <1>2, <1>5, <1>9, <1>10, <2>1 DEF WayIs
<1>11. CASE pong = NoPong /\ writer = "ping"
  <2>1. pong' = NoPong
    BY <1>4, <1>11
  <2> QED
    BY <1>2, <1>4, <1>5, <1>7, <1>9, <1>11, <2>1 DEF WayIs
<1>12. CASE pong = NoPong /\ writer = "event"
  <2>1. pong' = NoPong /\ writer' = "event"
    BY <1>4, <1>12
  <2>2. CASE pingDue
    <3>1. pingDue'
      BY <1>12, <2>2 DEF Tick
    <3> QED
      BY <1>2, <1>3, <1>5, <1>6, <1>7, <1>9, <1>12, <2>1, <2>2, <3>1 DEF WayIs
  <2>3. CASE ~pingDue
    <3>1. readLeft > tickLeft + LongestWay /\ tickLeft \in Nat /\ tickLeft > 0
      BY <1>1, <1>2, <1>9, <1>12, <2>3, OnTimeParts DEF WayIs, TimeTypes
    <3>2. \/ tickLeft = 1 /\ pingDue'
          \/ tickLeft' = tickLeft - 1 /\ ~pingDue'
      BY <1>12, <2>3, <3>1 DEF Tick
    <3> QED
      BY <1>3, <1>5, <1>6, <1>8, <1>9, <1>12, <2>1, <3>1, <3>2 DEF WayIs
  <2> QED
    BY <2>2, <2>3
<1>13. CASE pong = NoPong /\ writer \notin {"event", "ping"}
  <2>1. pong' = NoPong /\ writer' = writer /\ writer = "select"
    <3>1. writer # "off" /\ writer # "ended"
      BY DEF Stages, Goroutines, Served, Tick, ServeWaits
    <3> QED
      BY <1>1, <1>4, <1>13, <3>1 DEF StageTypes
  <2>2. ~pingDue
    BY <1>4, <2>1 DEF WriterWaits
  <2>3. readLeft > tickLeft + LongestWay /\ tickLeft \in Nat /\ tickLeft > 0
    BY <1>1, <1>2, <1>9, <1>13, <2>2, <2>1, OnTimeParts DEF WayIs, TimeTypes
  <2>4. \/ tickLeft = 1 /\ pingDue'
        \/ tickLeft' = tickLeft - 1 /\ ~pingDue'
    BY <2>1, <2>2, <2>3 DEF Tick
  <2> QED
    BY <1>3, <1>5, <1>6, <1>9, <1>13, <2>1, <2>3, <2>4 DEF WayIs
<1> QED
  BY <1>10, <1>11, <1>12, <1>13

(* The steps of the loops.                                                 *)
LEMMA RenewInTime ==
    ASSUME TypeOK', InOrder', StartRead \/ ReadPong, LongestWay < PingPeriod, Served',
           writer' \in {"event", "ping"} => Spent' <= MaxWrite
    PROVE  readLeft' > WayToPong'
<1>1. EventTypes' /\ TimeTypes'
  BY DEF TypeOK, EventTypes, TimeTypes
<1>2. readLeft' = PongDeadline
  BY DEF StartRead, ReadPong, RenewDeadline, Served
<1>3. LongestWay' < PingPeriod
  BY DEF LongestWay
<1>4. PongDeadline > WayToPong'
  BY <1>1, <1>3, FreshDeadline DEF Fresh, PongDeadline
<1> QED
  BY <1>2, <1>4

LEMMA WriterInTime ==
    ASSUME TypeOK, TypeOK', Stages, InOrder, OnTime, WriterStep, LongestWay < PingPeriod, Served, Served'
    PROVE  readLeft' > WayToPong'
<1> USE Periods
<1>1. EventTypes /\ TimeTypes /\ TimeTypes' /\ StageTypes
  BY DEF TypeOK, EventTypes, TimeTypes, StageTypes
<1>2. readLeft > WayToPong /\ (writer \in {"event", "ping"} => Spent <= MaxWrite)
  BY OnTimeParts DEF InTime, Served
<1>3. /\ EventsLeft \in Nat /\ LongestWay \in Nat
      /\ EventsLeft + MaxWrite + MaxPong <= LongestWay
      /\ WriteEvent => EventsLeft' = EventsLeft - MaxWrite
  BY <1>1, Ways
<1>4. WayIs /\ WayIs'
  BY WayCases
<1>5. readLeft \in Nat /\ pong \in Nat /\ pong' \in Nat /\ Spent \in Int /\ Spent >= 0
  BY <1>1 DEF TimeTypes, Spent
<1>6. BeginPing \/ BeginEvent \/ WritePing \/ WriteEvent
  BY DEF Served, WriterStep, WriterEndsOnCtx, StreamEnds, WriteFails
<1>7. CASE BeginPing
  <2>1. /\ writer = "select" /\ pingDue /\ writer' = "ping" /\ pong' = pong /\ readLeft' = readLeft
        /\ writeLeft' = WriteTimeout
    BY <1>7 DEF BeginPing, world
  <2>2. Spent' = 0
    BY <2>1 DEF Spent
  <2> QED
    BY <1>2, <1>3, <1>4, <1>5, <2>1, <2>2 DEF WayIs
<1>8. CASE BeginEvent
  <2>1. /\ writer = "select" /\ writer' = "event" /\ pong' = pong /\ readLeft' = readLeft
        /\ UNCHANGED <<pingDue, tickLeft, written>> /\ writeLeft' = WriteTimeout
    BY <1>8 DEF BeginEvent, world
  <2>2. Spent' = 0 /\ EventsLeft' = EventsLeft /\ LongestWay' = LongestWay
    BY <2>1 DEF Spent, EventsLeft, LongestWay
  <2> QED
    BY <1>2, <1>3, <1>4, <1>5, <2>1, <2>2 DEF WayIs
<1>9. CASE WritePing
  <2>1. /\ writer = "ping" /\ readLeft' = readLeft
        /\ IF pong = NoPong THEN pong' \in 0..MaxPong ELSE pong' = pong
    BY <1>9 DEF WritePing, Served, OpenToLive
  <2>2. pong' # NoPong
    BY <2>1 DEF NoPong
  <2> QED
    BY <1>2, <1>4, <1>5, <2>1, <2>2 DEF WayIs
<1>10. CASE WriteEvent
  <2>1. /\ writer = "event" /\ writer' = "select" /\ pong' = pong /\ readLeft' = readLeft
        /\ UNCHANGED <<pingDue, tickLeft>>
    BY <1>10 DEF WriteEvent, world
  <2>2. LongestWay' = LongestWay /\ EventsLeft' = EventsLeft - MaxWrite
    BY <1>3, <1>10 DEF LongestWay
  <2> QED
    BY <1>2, <1>3, <1>4, <1>5, <2>1, <2>2 DEF WayIs
<1> QED
  BY <1>6, <1>7, <1>8, <1>9, <1>10

LEMMA OnTimeStep ==
    ASSUME TypeOK, TypeOK', Stages, InOrder, InOrder', OnTime, [Next]_vars
    PROVE  OnTime'
<1>1. EventTypes /\ TimeTypes /\ StageTypes
  BY DEF TypeOK, EventTypes, TimeTypes, StageTypes
<1>2. writer' \in {"select", "event", "ping"} => tickLeft' > 0
  BY <1>1, TickerStep
<1>3. writer' \in {"event", "ping"} /\ OpenToLive' => Spent' <= MaxWrite
  BY <1>1, SpentStep
<1>4. ASSUME LongestWay < PingPeriod, Served' PROVE readLeft' > WayToPong'
  <2>1. peer = "live" /\ (conn = "open" \/ Upgrade)
    BY <1>1, <1>4, LiveBefore DEF Served
  <2>2. CASE StartRead \/ ReadPong
    BY <1>3, <1>4, <2>2, RenewInTime DEF Served
  <2>3. CASE ~StartRead /\ ~ReadPong
    <3>1. Served
      BY <1>4, <2>1, <2>3 DEF Served, OpenToLive, Next, ServeStep, Upgrade, Subscribe, Wait,
         ServeCloses, ReaderStep, ReadFails, WriterStep, WriterEndsOnCtx, BeginPing, BeginEvent,
         StreamEnds, WritePing, WriteEvent, WriteFails, WatcherStep, WatcherEndsOnCtx,
         WatcherCloses, Offer, CloseInbox, PeerGone, Shutdown, Returned, Tick, Local, vars,
         Stages, Goroutines
    <3>2. CASE WriterStep
      BY <1>4, <3>1, <3>2, WriterInTime
    <3>3. CASE Tick
      BY <1>4, <3>1, <3>3, TickInTime
    <3>4. CASE ~WriterStep /\ ~Tick
      <4>1. UNCHANGED <<readLeft, tickLeft, pingDue, writeLeft, pong, writer, written>>
        BY <1>4, <2>3, <3>1, <3>4 DEF Served, OpenToLive, Next, ServeStep, Upgrade, Subscribe, Wait,
           ServeCloses, ReaderStep, ReadFails, WatcherStep, WatcherEndsOnCtx,
           WatcherCloses, Offer, CloseInbox, PeerGone, Shutdown, Returned, Local, vars,
           timers, world, output, Stages, Goroutines
      <4>2. readLeft > WayToPong
        BY <1>4, <3>1, OnTimeParts DEF InTime
      <4> QED
        BY <4>1, <4>2 DEF WayToPong, LongestWay, Spent
    <3> QED
      BY <3>2, <3>3, <3>4
  <2> QED
    BY <2>2, <2>3
<1>5. LongestWay' = LongestWay
  BY DEF LongestWay
<1> QED
  BY <1>2, <1>3, <1>4, <1>5 DEF OnTime, Served, OpenToLive

LEMMA OnTimeGivesLive ==
    ASSUME TypeOK, Stages, InOrder, OnTime
    PROVE  LivePeerStays
<1> USE Periods
<1>1. EventTypes /\ TimeTypes /\ StageTypes
  BY DEF TypeOK, EventTypes, TimeTypes, StageTypes
<1>2. EventsLeft \in Nat /\ LongestWay \in Nat /\ EventsLeft + MaxWrite + MaxPong <= LongestWay
      /\ (writer = "event" => EventsLeft >= MaxWrite)
  BY <1>1, Ways
<1>3. /\ readLeft \in Nat /\ pong \in Nat /\ tickLeft \in Nat /\ Spent \in Int
  BY <1>1 DEF TimeTypes, Spent
<1>4. ASSUME LongestWay < PingPeriod, Served PROVE readLeft > 0
  <2>1. readLeft > WayToPong /\ (writer \in {"event", "ping"} => Spent <= MaxWrite)
    BY <1>4, OnTimeParts DEF InTime, Served
  <2>2. WayIs
    BY WayCases
  <2> QED
    BY <1>2, <1>3, <2>1, <2>2 DEF WayIs
<1> QED
  BY <1>4 DEF LivePeerStays, LongestWay, Served, OpenToLive

-----------------------------------------------------------------------------
LEMMA WebSocketInit == Init => WebSocketInv
<1> SUFFICES ASSUME Init PROVE WebSocketInv
  OBVIOUS
<1> USE Periods, Deadlines
<1>1. <<>> \in Seq(Events) /\ Len(<<>>) = 0
  OBVIOUS
<1>2. StageTypes /\ TimeTypes
  BY DEF Init, StageTypes, TimeTypes
<1>3. EventTypes /\ FlagTypes
  <2>1. EventTypes
    <3>1. inbox = <<>> /\ written = <<>> /\ current = 0 /\ offered = 0 /\ errors = 0 /\ closes = 0
      BY DEF Init
    <3> QED
      BY <1>1, <3>1 DEF EventTypes
  <2>2. FlagTypes
    BY Zenon DEF Init, FlagTypes
  <2> QED
    BY <2>1, <2>2
<1>4. TypeOK
  BY <1>2, <1>3, TypeParts
<1>5. Stages
  BY DEF Init, Stages, Goroutines
<1>6. InOrder
  BY <1>1 DEF Init, InOrder, InHand
<1>7. OnTime
  BY DEF Init, OnTime
<1> QED
  BY <1>3, <1>4, <1>5, <1>6, <1>7, StagesGiveEnds, OrderGivesNoGap, OnTimeGivesLive DEF WebSocketInv

LEMMA WebSocketStep == WebSocketInv /\ [Next]_vars => WebSocketInv'
<1>1. WebSocketInv => TypeOK /\ Stages /\ InOrder /\ OnTime /\ StageTypes /\ EventTypes
  BY DEF WebSocketInv, TypeOK, StageTypes, EventTypes
<1>2. TypeOK /\ Stages /\ InOrder /\ OnTime => ClosedAtMostOnce /\ NothingLeftBehind /\ NoGap /\ LivePeerStays
  BY StagesGiveEnds, OrderGivesNoGap, OnTimeGivesLive, TypeParts
<1>3. (TypeOK /\ Stages /\ InOrder /\ OnTime => ClosedAtMostOnce /\ NothingLeftBehind /\ NoGap /\ LivePeerStays)'
  BY <1>2, PTL
<1> SUFFICES ASSUME WebSocketInv, [Next]_vars PROVE WebSocketInv'
  OBVIOUS
<1>4. TypeOK /\ Stages /\ InOrder /\ OnTime /\ StageTypes /\ EventTypes
  BY <1>1
<1>5. TypeOK' /\ Stages' /\ InOrder'
  BY <1>4, TypeStep, StagesStep, OrderStep
<1>6. OnTime'
  BY <1>4, <1>5, OnTimeStep
<1> QED
  BY <1>3, <1>5, <1>6 DEF WebSocketInv

(* The session, whatever its periods, timeouts, events and failures: where *)
(* Serve, its goroutines and the closer are, the order of the events, and  *)
(* how far the read deadline is from the pong it waits for.                *)
THEOREM WebSocketInvariant == Spec => []WebSocketInv
<1>1. Init => WebSocketInv
  BY WebSocketInit
<1>2. WebSocketInv /\ [Next]_vars => WebSocketInv'
  BY WebSocketStep
<1> QED
  BY <1>1, <1>2, PTL DEF Spec

(* pongDeadline of readLoop is two periods: a peer that answers in time is *)
(* never cut off, if writes and answer fit into the second period.         *)
THEOREM DeadlineSparesLivePeers == Spec => []LivePeerStays
<1>1. WebSocketInv => LivePeerStays
  BY DEF WebSocketInv
<1> QED
  BY <1>1, WebSocketInvariant, PTL

(* Serve returns behind its goroutines with the connection closed, once,   *)
(* whether the shutdown or Serve came first to wsCloser.                   *)
THEOREM ServeCleansUp == Spec => []NothingLeftBehind
<1>1. WebSocketInv => NothingLeftBehind
  BY DEF WebSocketInv
<1> QED
  BY <1>1, WebSocketInvariant, PTL

(* writeLoop sends the events of the stream in their order, none left out. *)
THEOREM EventsWithoutGap == Spec => []NoGap
<1>1. WebSocketInv => NoGap
  BY DEF WebSocketInv
<1> QED
  BY <1>1, WebSocketInvariant, PTL
=============================================================================
