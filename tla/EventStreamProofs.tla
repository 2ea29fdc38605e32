-------------------------- MODULE EventStreamProofs --------------------------
(***************************************************************************)
(* The event stream, for any users, subscribers, events and capacity: its  *)
(* streams are windows of what was published, though Publish removes       *)
(* clients from the slice it ranges over.  Then the process that closes    *)
(* the stream when nobody publishes any more (module Lifecycle).           *)
(***************************************************************************)
EXTENDS EventStream, Lifecycle, SequenceTheorems, FiniteSetTheorems, TLAPS

-----------------------------------------------------------------------------
(* Types.                                                                  *)

SliceTypes ==
    /\ arr \in [User -> Seq(Subscriber)]
    /\ len \in [User -> Nat] /\ \A u \in User : len[u] <= Len(arr[u])

ReaderTypes ==
    /\ ctx \in [Subscriber -> {"none", "live", "done"}]
    /\ closes \in [Subscriber -> Nat] /\ since \in [Subscriber -> Nat]

ChannelTypes ==
    /\ ch \in [Subscriber -> Seq(Publication)]
    /\ \A s \in Subscriber : Len(ch[s]) <= Cap
    /\ got \in [Subscriber -> Seq(Publication)]

CallTypes ==
    /\ mu \in Publication \cup {Nobody}
    /\ pc \in [Publication -> PC]
    /\ k \in [Publication -> Nat] /\ n \in [Publication -> Nat]
    /\ result \in [Publication -> {"none", "ok", "closed", "invalid"}]
    /\ published \in [User -> Seq(Publication)]

FlagTypes ==
    /\ closed \in BOOLEAN
    /\ closing \in {"no", "waiting", "returned"}

LEMMA TypeParts == TypeOK <=> SliceTypes /\ ReaderTypes /\ ChannelTypes /\ CallTypes /\ FlagTypes
BY DEF TypeOK, SliceTypes, ReaderTypes, ChannelTypes, CallTypes, FlagTypes

(* Whom a publication meets in its loop. *)
LEMMA VisitedIsRegistered ==
    ASSUME TypeOK, SlicesAreSets, LoopMissesNobody, NEW p \in Publication,
           pc[p] \in {"visit", "full"}, k[p] <= n[p]
    PROVE  /\ Addressee[p] \in User /\ k[p] \in 1..Len(arr[Addressee[p]])
           /\ Visited(p) \in Subscriber
           /\ Visited(p) \in Registered(Addressee[p])
           /\ SubscriberOf[Visited(p)] = Addressee[p] /\ ctx[Visited(p)] # "none"
<1>1. Addressee[p] \in User /\ SliceTypes
  BY EventStreamAssumption, TypeParts
<1>2. /\ k[p] \in Nat /\ n[p] \in Nat /\ k[p] >= 1 /\ n[p] <= Len(arr[Addressee[p]])
      /\ arr[Addressee[p]][k[p]] \in Registered(Addressee[p])
  BY TypeParts DEF LoopMissesNobody, CallTypes
<1>3. Len(arr[Addressee[p]]) \in Nat
  BY <1>1, LenProperties DEF SliceTypes
<1>4. k[p] \in 1..Len(arr[Addressee[p]])
  BY <1>2, <1>3
<1>5. Visited(p) \in Subscriber
  BY <1>1, <1>4, ElementOfSeq DEF SliceTypes, Visited
<1>6. PICK i \in 1..len[Addressee[p]] : arr[Addressee[p]][i] = Visited(p)
  BY <1>2 DEF Registered, Visited
<1> QED
  BY <1>1, <1>2, <1>4, <1>5, <1>6 DEF SlicesAreSets, Visited

(* clients.remove of a registered client: it leaves the slice, its channel *)
(* is closed, and only its cell is overwritten, with the last one.         *)
LEMMA RemoveFacts ==
    ASSUME TypeOK, SlicesAreSets, NEW s \in Subscriber, s \in Registered(SubscriberOf[s]), Remove(s)
    PROVE  \E i \in 1..len[SubscriberOf[s]] :
              LET u == SubscriberOf[s] IN
              /\ arr[u][i] = s
              /\ arr' = [arr EXCEPT ![u] = SwapLast(u, i)]
              /\ len' = [len EXCEPT ![u] = @ - 1]
              /\ closes' = [closes EXCEPT ![s] = @ + 1]
<1> DEFINE u == SubscriberOf[s]
           at == {i \in 1..len[u] : arr[u][i] = s}
<1>1. PICK i \in 1..len[u] : arr[u][i] = s
  BY DEF Registered
<1>2. u \in User
  BY EventStreamAssumption
<1>3. \A j \in 1..len[u] : arr[u][j] = s => j = i
  BY <1>1, <1>2 DEF SlicesAreSets
<1>4. at = {i}
  BY <1>1, <1>3
<1>5. Cardinality(at) = 1
  BY <1>4, FS_Singleton
<1>6. at # {}
  BY <1>4
<1> HIDE DEF at
<1>7. /\ \E j \in at : arr' = [arr EXCEPT ![u] = SwapLast(u, j)]
      /\ len' = [len EXCEPT ![u] = @ - 1]
      /\ closes' = [closes EXCEPT ![s] = @ + Cardinality(at)]
  BY <1>6 DEF Remove, at
<1> QED
  BY <1>1, <1>4, <1>5, <1>7

LEMMA SwapFacts ==
    ASSUME TypeOK, NEW u \in User, NEW i \in 1..len[u]
    PROVE  /\ i \in 1..Len(arr[u]) /\ len[u] \in 1..Len(arr[u])
           /\ SwapLast(u, i) \in Seq(Subscriber) /\ Len(SwapLast(u, i)) = Len(arr[u])
           /\ \A j \in 1..Len(arr[u]) :
                 SwapLast(u, i)[j] = IF j = i THEN arr[u][len[u]] ELSE arr[u][j]
<1>1. arr[u] \in Seq(Subscriber) /\ len[u] \in Nat /\ len[u] <= Len(arr[u])
  BY TypeParts DEF SliceTypes
<1>2. Len(arr[u]) \in Nat
  BY <1>1, LenProperties
<1>3. i \in 1..Len(arr[u]) /\ len[u] \in 1..Len(arr[u])
  BY <1>1, <1>2
<1>4. arr[u][len[u]] \in Subscriber
  BY <1>1, <1>3, ElementOfSeq
<1> QED
  BY <1>1, <1>3, <1>4, ExceptSeq DEF SwapLast

(* clients.add copies the slice: what a loop has removed is not in it. *)
LEMMA AddFacts ==
    ASSUME TypeOK, NEW s \in Subscriber, Add(s)
    PROVE  LET u == SubscriberOf[s] IN
           /\ u \in User /\ len[u] \in Nat
           /\ len' = [len EXCEPT ![u] = @ + 1]
           /\ \E new \in Seq(Subscriber) :
                 /\ arr' = [arr EXCEPT ![u] = new]
                 /\ Len(new) = len[u] + 1 /\ new[len[u] + 1] = s
                 /\ \A j \in 1..len[u] : new[j] = arr[u][j]
<1> DEFINE u == SubscriberOf[s]
           old == SubSeq(arr[u], 1, len[u])
<1>1. u \in User
  BY EventStreamAssumption
<1>2. arr[u] \in Seq(Subscriber) /\ len[u] \in Nat /\ len[u] <= Len(arr[u]) /\ Len(arr[u]) \in Nat
  BY <1>1, TypeParts, LenProperties DEF SliceTypes
<1>3. \A j \in 1..len[u] : arr[u][j] \in Subscriber
  BY <1>2, ElementOfSeq
<1>4. /\ old \in Seq(Subscriber) /\ Len(old) = len[u]
      /\ \A j \in 1..len[u] : old[j] = arr[u][j]
  <2>1. /\ old \in Seq(Subscriber) /\ Len(old) = IF 1 <= len[u] THEN len[u] - 1 + 1 ELSE 0
        /\ \A j \in 1..len[u] - 1 + 1 : old[j] = arr[u][1 + j - 1]
    BY <1>2, <1>3, SubSeqProperties
  <2> QED
    BY <1>2, <2>1
<1> HIDE DEF old
<1>5. /\ Append(old, s) \in Seq(Subscriber) /\ Len(Append(old, s)) = len[u] + 1
      /\ \A j \in 1..len[u] : Append(old, s)[j] = old[j]
      /\ Append(old, s)[len[u] + 1] = s
  BY <1>4, AppendProperties
<1>6. arr' = [arr EXCEPT ![u] = Append(old, s)] /\ len' = [len EXCEPT ![u] = @ + 1]
  BY DEF Add, old
<1>7. PICK new \in Seq(Subscriber) : new = Append(old, s)
  BY <1>5
<1>8. /\ arr' = [arr EXCEPT ![u] = new]
      /\ Len(new) = len[u] + 1 /\ new[len[u] + 1] = s
      /\ \A j \in 1..len[u] : new[j] = arr[u][j]
  BY <1>4, <1>5, <1>6, <1>7
<1> QED
  BY <1>1, <1>2, <1>6, <1>8

Dropping(p) == DropDone(p) \/ DropSlow(p)
Delivering(p) == Send(p) \/ SendLate(p)

(* What a publication removes. *)
LEMMA DroppingFacts ==
    ASSUME TypeOK, SlicesAreSets, OneLoop, LoopMissesNobody,
           NEW p \in Publication, Dropping(p)
    PROVE  LET s == Visited(p)
               u == Addressee[p] IN
           /\ pc[p] \in {"visit", "full"} /\ k[p] <= n[p]
           /\ u \in User /\ s \in Subscriber /\ SubscriberOf[s] = u
           /\ k' = [k EXCEPT ![p] = @ + 1] /\ pc' = [pc EXCEPT ![p] = "visit"]
           /\ UNCHANGED <<ctx, ch, got, mu, closed, closing, n, result, published, since>>
           /\ \E i \in 1..len[u] :
                 /\ i <= k[p] /\ arr[u][i] = s
                 /\ arr' = [arr EXCEPT ![u] = SwapLast(u, i)]
                 /\ len' = [len EXCEPT ![u] = @ - 1]
                 /\ closes' = [closes EXCEPT ![s] = @ + 1]
<1> DEFINE s == Visited(p)
           u == Addressee[p]
<1>1. pc[p] \in {"visit", "full"} /\ k[p] <= n[p]
  BY DEF Dropping, DropDone, DropSlow, OneLoop
<1>2. /\ u \in User /\ s \in Subscriber /\ SubscriberOf[s] = u /\ s \in Registered(u)
      /\ s = arr[u][k[p]]
  BY <1>1, VisitedIsRegistered DEF Visited
<1>3. /\ Remove(s) /\ k' = [k EXCEPT ![p] = @ + 1] /\ pc' = [pc EXCEPT ![p] = "visit"]
      /\ UNCHANGED <<ctx, ch, got, mu, closed, closing, n, result, published, since>>
  BY DEF Dropping, DropDone, DropSlow, NextClient, GoTo, RemoveSlow
<1>4. PICK i \in 1..len[u] :
         /\ arr[u][i] = s
         /\ arr' = [arr EXCEPT ![u] = SwapLast(u, i)]
         /\ len' = [len EXCEPT ![u] = @ - 1]
         /\ closes' = [closes EXCEPT ![s] = @ + 1]
  BY <1>2, <1>3, RemoveFacts
<1>5. i <= k[p]
  <2>1. len[u] \in Nat /\ k[p] \in Nat /\ n[p] \in Nat /\ len[u] <= n[p]
    BY <1>1, <1>2, TypeParts DEF SliceTypes, CallTypes, LoopMissesNobody
  <2>2. \A a, b \in k[p]..n[p] : arr[u][a] = arr[u][b] => a = b
    BY <1>1 DEF LoopMissesNobody
  <2> QED
    BY <1>1, <1>2, <1>4, <2>1, <2>2
<1> QED
  BY <1>1, <1>2, <1>3, <1>4, <1>5

-----------------------------------------------------------------------------
(* Types.                                                                  *)

LEMMA SliceTypesStep ==
    ASSUME TypeOK, SlicesAreSets, OneLoop, LoopMissesNobody, [Next]_vars
    PROVE  SliceTypes'
<1>1. SliceTypes
  BY TypeParts
<1>2. ASSUME NEW s \in Subscriber, Subscribe(s) PROVE SliceTypes'
  <2>1. Add(s)
    BY <1>2 DEF Subscribe
  <2> DEFINE u == SubscriberOf[s]
  <2>2. PICK new \in Seq(Subscriber) :
           /\ u \in User /\ len[u] \in Nat /\ len' = [len EXCEPT ![u] = @ + 1]
           /\ arr' = [arr EXCEPT ![u] = new] /\ Len(new) = len[u] + 1
    BY <2>1, AddFacts
  <2>3. arr' \in [User -> Seq(Subscriber)] /\ len' \in [User -> Nat]
    BY <1>1, <2>2 DEF SliceTypes
  <2>4. ASSUME NEW v \in User PROVE len'[v] <= Len(arr'[v])
    <3>1. CASE v = u
      BY <1>1, <2>2, <3>1 DEF SliceTypes
    <3>2. CASE v # u
      <4>1. len'[v] = len[v] /\ arr'[v] = arr[v]
        BY <1>1, <2>2, <3>2 DEF SliceTypes
      <4> QED
        BY <1>1, <4>1 DEF SliceTypes
    <3> QED
      BY <3>1, <3>2
  <2> QED
    BY <2>3, <2>4 DEF SliceTypes
<1>3. ASSUME NEW p \in Publication, Dropping(p) PROVE SliceTypes'
  <2> DEFINE u == Addressee[p]
  <2>1. PICK i \in 1..len[u] :
           /\ u \in User
           /\ arr' = [arr EXCEPT ![u] = SwapLast(u, i)]
           /\ len' = [len EXCEPT ![u] = @ - 1]
    BY <1>3, DroppingFacts
  <2>2. SwapLast(u, i) \in Seq(Subscriber) /\ Len(SwapLast(u, i)) = Len(arr[u]) /\ len[u] >= 1
    BY <2>1, SwapFacts
  <2>3. len[u] \in Nat /\ len[u] <= Len(arr[u]) /\ Len(arr[u]) \in Nat
    BY <1>1, <2>1, LenProperties DEF SliceTypes
  <2>4. arr' \in [User -> Seq(Subscriber)] /\ len' \in [User -> Nat]
    BY <1>1, <2>1, <2>2, <2>3 DEF SliceTypes
  <2>5. ASSUME NEW v \in User PROVE len'[v] <= Len(arr'[v])
    BY <1>1, <2>1, <2>2, <2>3 DEF SliceTypes
  <2> QED
    BY <2>4, <2>5 DEF SliceTypes
<1>4. CASE UNCHANGED clients
  BY <1>1, <1>4 DEF clients, SliceTypes
<1>5. \/ \E s \in Subscriber : Subscribe(s)
      \/ \E p \in Publication : Dropping(p)
      \/ UNCHANGED clients
  BY DEF Next, vars, PublishStep, Leave, Receive, Enter, Lock, Send, Block, SendLate, Finish,
         CloseStream, CloseReturns, Dropping
<1> QED
  BY <1>2, <1>3, <1>4, <1>5

LEMMA ReaderTypesStep ==
    ASSUME TypeOK, SlicesAreSets, OneLoop, LoopMissesNobody, [Next]_vars
    PROVE  ReaderTypes'
<1>1. ReaderTypes
  BY TypeParts
<1>2. ASSUME NEW s \in Subscriber, Subscribe(s) PROVE ReaderTypes'
  <2>1. SubscriberOf[s] \in User /\ published \in [User -> Seq(Publication)]
    BY EventStreamAssumption, TypeParts DEF CallTypes
  <2>2. Len(published[SubscriberOf[s]]) \in Nat
    BY <2>1, LenProperties
  <2> QED
    BY <1>1, <1>2, <2>2 DEF Subscribe, ReaderTypes
<1>3. ASSUME NEW p \in Publication, Dropping(p) PROVE ReaderTypes'
  BY <1>1, <1>3, DroppingFacts DEF ReaderTypes
<1>4. ASSUME NEW s \in Subscriber, Leave(s) PROVE ReaderTypes'
  BY <1>1, <1>4 DEF Leave, ReaderTypes
<1>5. CASE UNCHANGED <<ctx, closes, since>>
  BY <1>1, <1>5 DEF ReaderTypes
<1>6. \/ \E s \in Subscriber : Subscribe(s) \/ Leave(s)
      \/ \E p \in Publication : Dropping(p)
      \/ UNCHANGED <<ctx, closes, since>>
  BY DEF Next, vars, readers, PublishStep, Receive, Enter, Lock, Send, Block, SendLate, Finish,
         CloseStream, CloseReturns, Dropping
<1> QED
  BY <1>2, <1>3, <1>4, <1>5, <1>6

(* Whom a publication sends its event. *)
LEMMA DeliveringFacts ==
    ASSUME TypeOK, SlicesAreSets, OneLoop, LoopMissesNobody,
           NEW p \in Publication, Delivering(p)
    PROVE  LET s == Visited(p)
               u == Addressee[p] IN
           /\ pc[p] \in {"visit", "full"} /\ k[p] <= n[p]
           /\ u \in User /\ s \in Subscriber /\ SubscriberOf[s] = u /\ s \in Registered(u)
           /\ k' = [k EXCEPT ![p] = @ + 1] /\ pc' = [pc EXCEPT ![p] = "visit"]
           /\ Len(ch[s]) < Cap /\ ch' = [ch EXCEPT ![s] = Append(@, p)]
           /\ UNCHANGED <<clients, ctx, got, closes, mu, closed, closing, n, result,
                          published, since>>
<1>1. pc[p] \in {"visit", "full"} /\ k[p] <= n[p]
  BY DEF Delivering, Send, SendLate, OneLoop
<1>2. /\ Addressee[p] \in User /\ Visited(p) \in Subscriber
      /\ SubscriberOf[Visited(p)] = Addressee[p] /\ Visited(p) \in Registered(Addressee[p])
  BY <1>1, VisitedIsRegistered
<1>3. /\ k' = [k EXCEPT ![p] = @ + 1] /\ pc' = [pc EXCEPT ![p] = "visit"]
      /\ Len(ch[Visited(p)]) < Cap /\ ch' = [ch EXCEPT ![Visited(p)] = Append(@, p)]
      /\ UNCHANGED <<clients, ctx, got, closes, mu, closed, closing, n, result,
                     published, since>>
  BY DEF Delivering, Send, SendLate, NextClient, GoTo, Deliver
<1> QED
  BY <1>1, <1>2, <1>3

LEMMA ChannelTypesStep ==
    ASSUME TypeOK, SlicesAreSets, OneLoop, LoopMissesNobody, [Next]_vars
    PROVE  ChannelTypes'
<1>1. ChannelTypes /\ Cap \in Nat
  BY TypeParts, EventStreamAssumption
<1>2. ASSUME NEW s \in Subscriber, Receive(s) PROVE ChannelTypes'
  <2>1. ch[s] \in Seq(Publication) /\ ch[s] # <<>> /\ got[s] \in Seq(Publication) /\ Len(ch[s]) <= Cap
    BY <1>1, <1>2 DEF Receive, ChannelTypes
  <2>2. /\ Head(ch[s]) \in Publication /\ Tail(ch[s]) \in Seq(Publication)
        /\ Len(Tail(ch[s])) <= Cap
    BY <1>1, <2>1, HeadTailProperties, LenProperties
  <2>3. Append(got[s], Head(ch[s])) \in Seq(Publication)
    BY <2>1, <2>2, AppendProperties
  <2>4. got' = [got EXCEPT ![s] = Append(got[s], Head(ch[s]))] /\ ch' = [ch EXCEPT ![s] = Tail(ch[s])]
    BY <1>2 DEF Receive
  <2>5. got' \in [Subscriber -> Seq(Publication)] /\ ch' \in [Subscriber -> Seq(Publication)]
    BY <1>1, <2>2, <2>3, <2>4 DEF ChannelTypes
  <2>6. \A t \in Subscriber : Len(ch'[t]) <= Cap
    BY <1>1, <2>2, <2>4 DEF ChannelTypes
  <2> QED
    BY <2>5, <2>6 DEF ChannelTypes
<1>3. ASSUME NEW p \in Publication, Delivering(p) PROVE ChannelTypes'
  <2> DEFINE s == Visited(p)
  <2>1. /\ s \in Subscriber /\ Len(ch[s]) < Cap /\ ch' = [ch EXCEPT ![s] = Append(ch[s], p)]
        /\ got' = got
    BY <1>3, DeliveringFacts
  <2>2. Append(ch[s], p) \in Seq(Publication) /\ Len(Append(ch[s], p)) <= Cap
    BY <1>1, <2>1, AppendProperties, LenProperties DEF ChannelTypes
  <2>3. ch' \in [Subscriber -> Seq(Publication)]
    BY <1>1, <2>1, <2>2 DEF ChannelTypes
  <2>4. \A t \in Subscriber : Len(ch'[t]) <= Cap
    BY <1>1, <2>1, <2>2 DEF ChannelTypes
  <2> QED
    BY <1>1, <2>1, <2>3, <2>4 DEF ChannelTypes
<1>4. CASE UNCHANGED <<ch, got>>
  BY <1>1, <1>4 DEF ChannelTypes
<1>5. \/ \E s \in Subscriber : Receive(s)
      \/ \E p \in Publication : Delivering(p)
      \/ UNCHANGED <<ch, got>>
  BY DEF Next, vars, readers, PublishStep, Subscribe, Leave, Enter, Lock, DropDone, DropSlow, Block, Finish,
         CloseStream, CloseReturns, Delivering
<1> QED
  BY <1>2, <1>3, <1>4, <1>5

LEMMA CallTypesStep ==
    ASSUME TypeOK, SlicesAreSets, OneLoop, LoopMissesNobody, [Next]_vars
    PROVE  CallTypes' /\ FlagTypes'
<1>1. CallTypes /\ FlagTypes
  BY TypeParts
<1>2. ASSUME NEW p \in Publication, Lock(p) PROVE CallTypes' /\ FlagTypes'
  <2>1. Addressee[p] \in User /\ len[Addressee[p]] \in Nat
    BY EventStreamAssumption, TypeParts DEF SliceTypes
  <2>2. Append(published[Addressee[p]], p) \in Seq(Publication)
    BY <1>1, <2>1, AppendProperties DEF CallTypes
  <2>3. FlagTypes'
    BY <1>1, <1>2 DEF Lock, FlagTypes
  <2>4. CASE closed
    BY <1>1, <1>2, <2>3, <2>4 DEF Lock, Refused, CallTypes, GoTo, Return, PC
  <2>5. CASE ~closed
    <3>1. /\ mu' = p /\ pc' = [pc EXCEPT ![p] = "visit"] /\ k' = [k EXCEPT ![p] = 1]
          /\ n' = [n EXCEPT ![p] = len[Addressee[p]]] /\ result' = result
          /\ published' = [published EXCEPT ![Addressee[p]] = Append(published[Addressee[p]], p)]
      BY <1>2, <2>5 DEF Lock, Refused, GoTo
    <3> QED
      BY <1>1, <2>1, <2>2, <2>3, <3>1 DEF CallTypes, PC
  <2> QED
    BY <2>4, <2>5
<1>3. ASSUME NEW p \in Publication, Dropping(p) \/ Delivering(p) PROVE CallTypes' /\ FlagTypes'
  <2>1. /\ k' = [k EXCEPT ![p] = @ + 1] /\ pc' = [pc EXCEPT ![p] = "visit"]
        /\ UNCHANGED <<mu, closed, closing, n, result, published>>
    BY <1>3, DroppingFacts, DeliveringFacts
  <2> QED
    BY <1>1, <2>1 DEF CallTypes, FlagTypes, PC
<1>4. ASSUME NEW p \in Publication, Enter(p) \/ Block(p) \/ Finish(p) PROVE CallTypes' /\ FlagTypes'
  BY <1>1, <1>4 DEF Enter, Block, Finish, GoTo, Return, Unlock, CallTypes, FlagTypes, PC
<1>5. CASE CloseStream \/ CloseReturns
  BY <1>1, <1>5 DEF CloseStream, CloseReturns, calls, CallTypes, FlagTypes
<1>6. CASE UNCHANGED <<mu, closed, closing, calls, published>>
  BY <1>1, <1>6 DEF calls, CallTypes, FlagTypes
<1>7. \/ \E p \in Publication : Lock(p)
      \/ \E p \in Publication : Dropping(p) \/ Delivering(p)
      \/ \E p \in Publication : Enter(p) \/ Block(p) \/ Finish(p)
      \/ CloseStream \/ CloseReturns
      \/ UNCHANGED <<mu, closed, closing, calls, published>>
  BY DEF Next, vars, PublishStep, Subscribe, Leave, Receive, Dropping, Delivering
<1> QED
  BY <1>2, <1>3, <1>4, <1>5, <1>6, <1>7

LEMMA TypeStep ==
    ASSUME TypeOK, SlicesAreSets, OneLoop, LoopMissesNobody, [Next]_vars
    PROVE  TypeOK'
<1>1. SliceTypes' /\ ReaderTypes' /\ ChannelTypes' /\ CallTypes' /\ FlagTypes'
  BY SliceTypesStep, ReaderTypesStep, ChannelTypesStep, CallTypesStep
<1> QED
  BY <1>1 DEF TypeOK, SliceTypes, ReaderTypes, ChannelTypes, CallTypes, FlagTypes

-----------------------------------------------------------------------------
(* What a step does to the streams and to the slices.                      *)

LEMMA MoveOne ==
    ASSUME NEW S, NEW a \in Seq(S), NEW b \in Seq(S), b # <<>>
    PROVE  Append(a, Head(b)) \o Tail(b) = a \o b
<1>1. /\ Head(b) \in S /\ Tail(b) \in Seq(S) /\ Len(Tail(b)) = Len(b) - 1
      /\ \A i \in 1..Len(Tail(b)) : Tail(b)[i] = b[i + 1]
      /\ Head(b) = b[1]
  BY HeadTailProperties
<1>2. Len(a) \in Nat /\ Len(b) \in Nat /\ Len(b) > 0
  BY EmptySeq, LenProperties
<1>3. /\ Append(a, Head(b)) \in Seq(S) /\ Len(Append(a, Head(b))) = Len(a) + 1
      /\ \A i \in 1..Len(a) : Append(a, Head(b))[i] = a[i]
      /\ Append(a, Head(b))[Len(a) + 1] = b[1]
  BY <1>1, AppendProperties
<1> DEFINE c == Append(a, Head(b))
           d == Tail(b)
<1>4. /\ c \o d \in Seq(S) /\ Len(c \o d) = Len(c) + Len(d)
      /\ \A i \in 1..Len(c) + Len(d) : (c \o d)[i] = IF i <= Len(c) THEN c[i] ELSE d[i - Len(c)]
  BY <1>1, <1>3, ConcatProperties
<1>5. /\ a \o b \in Seq(S) /\ Len(a \o b) = Len(a) + Len(b)
      /\ \A i \in 1..Len(a) + Len(b) : (a \o b)[i] = IF i <= Len(a) THEN a[i] ELSE b[i - Len(a)]
  BY ConcatProperties
<1>6. c \in Seq(S) /\ Len(c) = Len(a) + 1 /\ Len(d) = Len(b) - 1
  BY <1>1, <1>3
<1>7. \A i \in 1..Len(a) : c[i] = a[i]
  BY <1>3
<1>8. c[Len(a) + 1] = b[1] /\ \A i \in 1..Len(b) - 1 : d[i] = b[i + 1]
  BY <1>1, <1>3
<1> HIDE DEF c, d
<1>9. Len(c \o d) = Len(a \o b)
  BY <1>2, <1>4, <1>5, <1>6
<1>10. ASSUME NEW i \in 1..Len(c \o d) PROVE (c \o d)[i] = (a \o b)[i]
  <2>1. CASE i <= Len(a)
    BY <1>2, <1>4, <1>5, <1>6, <1>7, <2>1
  <2>2. CASE i = Len(a) + 1
    BY <1>2, <1>4, <1>5, <1>6, <1>8, <2>2
  <2>3. CASE i > Len(a) + 1
    <3>1. (c \o d)[i] = d[i - (Len(a) + 1)] /\ i - (Len(a) + 1) \in 1..Len(b) - 1
      BY <1>2, <1>4, <1>6, <2>3
    <3>2. d[i - (Len(a) + 1)] = b[i - Len(a)]
      BY <1>2, <1>8, <3>1
    <3> QED
      BY <1>2, <1>4, <1>5, <1>6, <2>3, <3>1, <3>2
  <2> QED
    BY <1>2, <1>4, <1>6, <2>1, <2>2, <2>3
<1> QED
  BY <1>4, <1>5, <1>9, <1>10, SeqEqual DEF c, d

LEMMA AppendLast ==
    ASSUME NEW S, NEW a \in Seq(S), NEW b \in Seq(S), NEW e \in S
    PROVE  a \o Append(b, e) = Append(a \o b, e)
<1>1. <<e>> \in Seq(S) /\ Append(b, e) = b \o <<e>>
  BY AppendIsConcat
<1>2. a \o b \in Seq(S) /\ Append(a \o b, e) = (a \o b) \o <<e>>
  BY ConcatProperties, AppendIsConcat
<1> QED
  BY <1>1, <1>2, ConcatAssociative

LEMMA StreamTypes ==
    ASSUME TypeOK, NEW s \in Subscriber
    PROVE  /\ got[s] \in Seq(Publication) /\ ch[s] \in Seq(Publication)
           /\ Stream(s) \in Seq(Publication) /\ Len(Stream(s)) \in Nat
           /\ SubscriberOf[s] \in User
           /\ published[SubscriberOf[s]] \in Seq(Publication)
           /\ Len(published[SubscriberOf[s]]) \in Nat /\ since[s] \in Nat
<1>1. got[s] \in Seq(Publication) /\ ch[s] \in Seq(Publication) /\ since[s] \in Nat
  BY TypeParts DEF ChannelTypes, ReaderTypes
<1>2. SubscriberOf[s] \in User /\ published[SubscriberOf[s]] \in Seq(Publication)
  BY EventStreamAssumption, TypeParts DEF CallTypes
<1>3. Stream(s) \in Seq(Publication)
  BY <1>1, ConcatProperties DEF Stream
<1> QED
  BY <1>1, <1>2, <1>3, LenProperties

(* What is sent is seen at the end of the stream, what is received stays.  *)
LEMMA ReceiveKeepsStreams ==
    ASSUME TypeOK, NEW s \in Subscriber, Receive(s), NEW t \in Subscriber
    PROVE  Stream(t)' = Stream(t)
<1>1. got' = [got EXCEPT ![s] = Append(got[s], Head(ch[s]))] /\ ch' = [ch EXCEPT ![s] = Tail(ch[s])]
      /\ ch[s] # <<>>
  BY DEF Receive
<1>2. CASE t = s
  <2>1. got'[s] = Append(got[s], Head(ch[s])) /\ ch'[s] = Tail(ch[s])
    BY <1>1, TypeParts DEF ChannelTypes
  <2>2. got'[s] \o ch'[s] = got[s] \o ch[s]
    BY <1>1, <2>1, StreamTypes, MoveOne
  <2> QED
    BY <1>2, <2>2 DEF Stream
<1>3. CASE t # s
  BY <1>1, <1>3, TypeParts DEF ChannelTypes, Stream
<1> QED
  BY <1>2, <1>3

LEMMA DeliveryAppends ==
    ASSUME TypeOK, SlicesAreSets, OneLoop, LoopMissesNobody,
           NEW p \in Publication, Delivering(p), NEW t \in Subscriber
    PROVE  Stream(t)' = IF t = Visited(p) THEN Append(Stream(t), p) ELSE Stream(t)
<1>1. got' = got /\ ch' = [ch EXCEPT ![Visited(p)] = Append(ch[Visited(p)], p)]
  BY DeliveringFacts
<1>2. ch'[t] = IF t = Visited(p) THEN Append(ch[t], p) ELSE ch[t]
  BY <1>1, TypeParts DEF ChannelTypes
<1>3. got[t] \in Seq(Publication) /\ ch[t] \in Seq(Publication)
  BY StreamTypes
<1>4. \A a, b \in Seq(Publication) : a \o Append(b, p) = Append(a \o b, p)
  BY AppendLast
<1>5. got[t] \o Append(ch[t], p) = Append(got[t] \o ch[t], p)
  BY <1>3, <1>4
<1>6. Stream(t)' = got[t] \o ch'[t] /\ Stream(t) = got[t] \o ch[t]
  BY <1>1 DEF Stream
<1> QED
  BY <1>2, <1>5, <1>6

LEMMA OtherStreams ==
    ASSUME [Next]_vars, ~\E s \in Subscriber : Receive(s), ~\E p \in Publication : Delivering(p)
    PROVE  \A t \in Subscriber : Stream(t)' = Stream(t)
<1>1. UNCHANGED <<ch, got>>
  BY DEF Next, vars, readers, PublishStep, Subscribe, Leave, Enter, Lock, DropDone, DropSlow, Block, Finish,
         CloseStream, CloseReturns, Delivering
<1> QED
  BY <1>1 DEF Stream

LEMMA RegisteredAfterDrop ==
    ASSUME TypeOK, SlicesAreSets, OneLoop, LoopMissesNobody,
           NEW p \in Publication, Dropping(p), NEW v \in User
    PROVE  Registered(v)' = IF v = Addressee[p] THEN Registered(v) \ {Visited(p)} ELSE Registered(v)
<1> DEFINE s == Visited(p)
           u == Addressee[p]
<1>1. PICK i \in 1..len[u] :
         /\ u \in User /\ arr[u][i] = s
         /\ arr' = [arr EXCEPT ![u] = SwapLast(u, i)]
         /\ len' = [len EXCEPT ![u] = @ - 1]
  BY DroppingFacts
<1>2. SliceTypes
  BY TypeParts
<1>3. CASE v = u
  <2>1. arr'[u] = SwapLast(u, i) /\ len'[u] = len[u] - 1 /\ len[u] \in Nat
    BY <1>1, <1>2 DEF SliceTypes
  <2>2. len[u] <= Len(arr[u]) /\ Len(arr[u]) \in Nat
    BY <1>1, <1>2, LenProperties DEF SliceTypes
  <2>3. \A j \in 1..len[u] - 1 : arr'[u][j] = IF j = i THEN arr[u][len[u]] ELSE arr[u][j]
    BY <1>1, <2>1, <2>2, SwapFacts
  <2>4. \A j, m \in 1..len[u] : arr[u][j] = arr[u][m] => j = m
    BY <1>1 DEF SlicesAreSets
  <2>5. \A t : t \in Registered(u)' <=> \E j \in 1..len[u] - 1 : arr'[u][j] = t
    BY <2>1 DEF Registered
  <2>6. ASSUME NEW t, t \in Registered(u)' PROVE t \in Registered(u) /\ t # s
    <3>1. PICK j \in 1..len[u] - 1 : arr'[u][j] = t
      BY <2>5, <2>6
    <3> DEFINE m == IF j = i THEN len[u] ELSE j
    <3>2. m \in 1..len[u] /\ arr[u][m] = t /\ m # i
      BY <2>1, <2>3, <3>1
    <3> QED
      BY <1>1, <2>4, <3>2 DEF Registered
  <2>7. ASSUME NEW t, t \in Registered(u), t # s PROVE t \in Registered(u)'
    <3>1. PICK m \in 1..len[u] : arr[u][m] = t
      BY <2>7 DEF Registered
    <3> DEFINE j == IF m = len[u] THEN i ELSE m
    <3>2. m # i
      BY <1>1, <2>7, <3>1
    <3>3. j \in 1..len[u] - 1 /\ arr'[u][j] = t
      BY <2>1, <2>3, <3>1, <3>2
    <3> QED
      BY <2>5, <3>3
  <2> QED
    BY <1>3, <2>6, <2>7
<1>4. CASE v # u
  <2>1. arr'[v] = arr[v] /\ len'[v] = len[v]
    BY <1>1, <1>2, <1>4 DEF SliceTypes
  <2> QED
    BY <1>4, <2>1 DEF Registered
<1> QED
  BY <1>3, <1>4

LEMMA RegisteredAfterAdd ==
    ASSUME TypeOK, NEW s \in Subscriber, Add(s), NEW v \in User
    PROVE  Registered(v)' = IF v = SubscriberOf[s] THEN Registered(v) \cup {s} ELSE Registered(v)
<1> DEFINE u == SubscriberOf[s]
<1>1. PICK new \in Seq(Subscriber) :
         /\ u \in User /\ len[u] \in Nat /\ len' = [len EXCEPT ![u] = @ + 1]
         /\ arr' = [arr EXCEPT ![u] = new] /\ new[len[u] + 1] = s
         /\ \A j \in 1..len[u] : new[j] = arr[u][j]
  BY AddFacts
<1>2. SliceTypes
  BY TypeParts
<1>3. CASE v = u
  <2>1. arr'[u] = new /\ len'[u] = len[u] + 1
    BY <1>1, <1>2 DEF SliceTypes
  <2>2. 1..len[u] + 1 = (1..len[u]) \cup {len[u] + 1}
    BY <1>1
  <2>3. Registered(u)' = {new[j] : j \in (1..len[u]) \cup {len[u] + 1}}
    BY <2>1, <2>2 DEF Registered
  <2>4. ASSUME NEW t PROVE t \in Registered(u)' <=> t = s \/ t \in Registered(u)
    <3>1. t \in Registered(u)' <=> t = new[len[u] + 1] \/ \E j \in 1..len[u] : t = new[j]
      BY <2>3
    <3>2. t \in Registered(u) <=> \E j \in 1..len[u] : t = arr[u][j]
      BY DEF Registered
    <3> QED
      BY <1>1, <3>1, <3>2
  <2> QED
    BY <1>3, <2>4
<1>4. CASE v # u
  <2>1. arr'[v] = arr[v] /\ len'[v] = len[v]
    BY <1>1, <1>2, <1>4 DEF SliceTypes
  <2> QED
    BY <1>4, <2>1 DEF Registered
<1> QED
  BY <1>3, <1>4

LEMMA OtherSlices ==
    ASSUME [Next]_vars, ~\E s \in Subscriber : Subscribe(s), ~\E p \in Publication : Dropping(p)
    PROVE  UNCHANGED <<arr, len, closes>>
BY DEF Next, vars, clients, readers, PublishStep, Leave, Receive, Enter, Lock, Send, Block, SendLate, Finish,
       CloseStream, CloseReturns, Dropping

-----------------------------------------------------------------------------
(* The parts of the invariant.                                             *)

LEMMA OneLoopStep ==
    ASSUME TypeOK, SlicesAreSets, OneLoop, LoopMissesNobody, [Next]_vars
    PROVE  OneLoop'
<1>1. CallTypes /\ Nobody \notin Publication
  BY TypeParts, EventStreamAssumption
<1>2. ASSUME NEW p \in Publication, Lock(p) PROVE OneLoop'
  <2>1. CASE closed
    BY <1>1, <1>2, <2>1 DEF Lock, Refused, OneLoop, CallTypes, GoTo, Return
  <2>2. CASE ~closed
    <3>1. /\ mu = Nobody /\ mu' = p /\ pc' = [pc EXCEPT ![p] = "visit"]
          /\ closing' = closing /\ closed' = closed
          /\ \A q \in Publication : q # p => k'[q] = k[q] /\ n'[q] = n[q]
      BY <1>1, <1>2, <2>2 DEF Lock, Refused, GoTo, CallTypes
    <3> QED
      BY <1>1, <2>2, <3>1 DEF OneLoop, CallTypes
  <2> QED
    BY <2>1, <2>2
<1>3. ASSUME NEW p \in Publication, Dropping(p) \/ Delivering(p) PROVE OneLoop'
  <2>1. /\ k' = [k EXCEPT ![p] = @ + 1] /\ pc' = [pc EXCEPT ![p] = "visit"]
        /\ pc[p] \in {"visit", "full"} /\ UNCHANGED <<mu, closed, closing, n>>
    BY <1>3, DroppingFacts, DeliveringFacts
  <2> QED
    BY <1>1, <2>1 DEF OneLoop, CallTypes
<1>4. ASSUME NEW p \in Publication, Enter(p) \/ Block(p) PROVE OneLoop'
  BY <1>1, <1>4 DEF Enter, Block, GoTo, Return, OneLoop, CallTypes
<1>5. ASSUME NEW p \in Publication, Finish(p) PROVE OneLoop'
  BY <1>1, <1>5 DEF Finish, Unlock, GoTo, Return, OneLoop, CallTypes
<1>6. CASE CloseStream
  BY <1>6 DEF CloseStream, calls, OneLoop
<1>7. CASE CloseReturns
  BY <1>1, <1>7 DEF CloseReturns, NobodyPublishes, calls, OneLoop, CallTypes
<1>8. CASE UNCHANGED <<mu, closed, closing, calls>>
  BY <1>8 DEF calls, OneLoop
<1>9. \/ \E p \in Publication : Lock(p)
      \/ \E p \in Publication : Dropping(p) \/ Delivering(p)
      \/ \E p \in Publication : Enter(p) \/ Block(p)
      \/ \E p \in Publication : Finish(p)
      \/ CloseStream \/ CloseReturns
      \/ UNCHANGED <<mu, closed, closing, calls>>
  BY DEF Next, vars, PublishStep, Subscribe, Leave, Receive, Dropping, Delivering
<1> QED
  BY <1>2, <1>3, <1>4, <1>5, <1>6, <1>7, <1>8, <1>9

LEMMA SlicesStep ==
    ASSUME TypeOK, SlicesAreSets, OneLoop, LoopMissesNobody, ClosedOnce, [Next]_vars
    PROVE  SlicesAreSets'
<1>1. SliceTypes /\ ReaderTypes
  BY TypeParts
<1> DEFINE Slice(u) == \A i \in 1..len[u] :
                          /\ SubscriberOf[arr[u][i]] = u /\ ctx[arr[u][i]] # "none"
                          /\ \A j \in 1..len[u] : arr[u][i] = arr[u][j] => i = j
           Fresh(t) == ctx[t] = "none" => Stream(t) = <<>>
<1>2. (\A u \in User : Slice(u)) /\ (\A t \in Subscriber : Fresh(t))
  BY DEF SlicesAreSets
<1>3. ASSUME NEW s \in Subscriber, Subscribe(s), NEW v \in User PROVE Slice(v)'
  <2> DEFINE u == SubscriberOf[s]
  <2>1. PICK new \in Seq(Subscriber) :
           /\ u \in User /\ len[u] \in Nat /\ len' = [len EXCEPT ![u] = @ + 1]
           /\ arr' = [arr EXCEPT ![u] = new] /\ new[len[u] + 1] = s
           /\ \A j \in 1..len[u] : new[j] = arr[u][j]
    BY <1>3, AddFacts DEF Subscribe
  <2>2. ctx[s] = "none" /\ \A t \in Subscriber : ctx'[t] = IF t = s THEN "live" ELSE ctx[t]
    BY <1>1, <1>3 DEF Subscribe, ReaderTypes
  <2>3. ASSUME NEW w \in User, NEW i \in 1..len[w]
        PROVE  arr[w][i] \in Subscriber /\ arr[w][i] # s /\ ctx'[arr[w][i]] # "none"
    <3>1. arr[w] \in Seq(Subscriber) /\ i \in 1..Len(arr[w])
      BY <1>1, LenProperties DEF SliceTypes
    <3>2. arr[w][i] \in Subscriber /\ ctx[arr[w][i]] # "none"
      BY <1>2, <3>1, ElementOfSeq
    <3> QED
      BY <2>2, <3>2
  <2>4. CASE v = u
    <3>1. arr'[u] = new /\ len'[u] = len[u] + 1
      BY <1>1, <2>1 DEF SliceTypes
    <3>2. ASSUME NEW i \in 1..len[u] + 1
          PROVE  /\ SubscriberOf[new[i]] = u /\ ctx'[new[i]] # "none"
                 /\ \A j \in 1..len[u] + 1 : new[i] = new[j] => i = j
      <4>1. CASE i = len[u] + 1
        BY <2>1, <2>2, <2>3, <4>1
      <4>2. CASE i # len[u] + 1
        <5>1. i \in 1..len[u] /\ new[i] = arr[u][i]
          BY <2>1, <4>2
        <5>2. SubscriberOf[new[i]] = u /\ ctx'[new[i]] # "none" /\ new[i] # s
          BY <1>2, <2>1, <2>3, <5>1
        <5>3. ASSUME NEW j \in 1..len[u] + 1, new[i] = new[j] PROVE i = j
          <6>1. j # len[u] + 1
            BY <2>1, <5>2, <5>3
          <6>2. j \in 1..len[u]
            BY <2>1, <6>1
          <6>3. new[j] = arr[u][j]
            BY <2>1, <6>2
          <6> QED
            BY <1>2, <2>1, <5>1, <5>3, <6>2, <6>3
        <5> QED
          BY <5>2, <5>3
      <4> QED
        BY <4>1, <4>2
    <3> QED
      BY <2>4, <3>1, <3>2
  <2>5. CASE v # u
    <3>1. arr'[v] = arr[v] /\ len'[v] = len[v]
      BY <1>1, <2>1, <2>5 DEF SliceTypes
    <3> QED
      BY <1>2, <2>3, <3>1
  <2> QED
    BY <2>4, <2>5
<1>4. ASSUME NEW p \in Publication, Dropping(p), NEW v \in User PROVE Slice(v)'
  <2> DEFINE u == Addressee[p]
  <2>1. PICK i \in 1..len[u] :
           /\ u \in User /\ ctx' = ctx
           /\ arr' = [arr EXCEPT ![u] = SwapLast(u, i)]
           /\ len' = [len EXCEPT ![u] = @ - 1]
    BY <1>4, DroppingFacts
  <2>2. CASE v = u
    <3>1. arr'[u] = SwapLast(u, i) /\ len'[u] = len[u] - 1 /\ len[u] \in Nat
      BY <1>1, <2>1 DEF SliceTypes
    <3>2. len[u] <= Len(arr[u]) /\ Len(arr[u]) \in Nat
      BY <1>1, <2>1, LenProperties DEF SliceTypes
    <3>3. \A j \in 1..len[u] - 1 : arr'[u][j] = IF j = i THEN arr[u][len[u]] ELSE arr[u][j]
      BY <2>1, <3>1, <3>2, SwapFacts
    <3> QED
      BY <1>2, <2>1, <2>2, <3>1, <3>3
  <2>3. CASE v # u
    <3>1. arr'[v] = arr[v] /\ len'[v] = len[v]
      BY <1>1, <2>1, <2>3 DEF SliceTypes
    <3> QED
      BY <1>2, <2>1, <3>1
  <2> QED
    BY <2>2, <2>3
<1>5. ASSUME NEW s \in Subscriber, Leave(s), NEW v \in User PROVE Slice(v)'
  <2>1. UNCHANGED <<arr, len>> /\ \A t \in Subscriber : ctx'[t] = IF t = s THEN "done" ELSE ctx[t]
    BY <1>1, <1>5 DEF Leave, clients, ReaderTypes
  <2>2. ASSUME NEW i \in 1..len[v] PROVE arr[v][i] \in Subscriber
    BY <1>1, LenProperties, ElementOfSeq DEF SliceTypes
  <2> QED
    BY <1>2, <2>1, <2>2
<1>6. ASSUME UNCHANGED <<arr, len, ctx>>, NEW v \in User PROVE Slice(v)'
  BY <1>2, <1>6
<1>7. \/ \E s \in Subscriber : Subscribe(s) \/ Leave(s)
      \/ \E p \in Publication : Dropping(p)
      \/ UNCHANGED <<arr, len, ctx>>
  BY DEF Next, vars, clients, readers, PublishStep, Receive, Enter, Lock, Send, Block, SendLate, Finish,
         CloseStream, CloseReturns, Dropping
<1>8. \A v \in User : Slice(v)'
  BY <1>3, <1>4, <1>5, <1>6, <1>7
<1>9. ASSUME NEW t \in Subscriber, ctx'[t] = "none" PROVE ctx[t] = "none"
  <2>1. ASSUME NEW s \in Subscriber, Subscribe(s) \/ Leave(s) PROVE ctx[t] = "none"
    BY <1>1, <1>9, <2>1 DEF Subscribe, Leave, ReaderTypes
  <2>2. ctx' = ctx \/ \E s \in Subscriber : Subscribe(s) \/ Leave(s)
    BY DEF Next, vars, readers, PublishStep, Receive, Enter, Lock, DropDone, DropSlow, Send, Block,
           SendLate, Finish, CloseStream, CloseReturns
  <2> QED
    BY <1>9, <2>1, <2>2
<1>10. ASSUME NEW t \in Subscriber PROVE Fresh(t)'
  <2>1. ASSUME NEW p \in Publication, Delivering(p), ctx'[t] = "none" PROVE t # Visited(p)
    <3>1. pc[p] \in {"visit", "full"} /\ k[p] <= n[p]
      BY <2>1, DeliveringFacts
    <3> QED
      BY <1>9, <2>1, <3>1, VisitedIsRegistered
  <2>2. ctx'[t] = "none" => Stream(t)' = Stream(t)
    BY <2>1, ReceiveKeepsStreams, DeliveryAppends, OtherStreams
  <2> QED
    BY <1>2, <1>9, <2>2
<1> QED
  BY <1>8, <1>10 DEF SlicesAreSets

LEMMA ClosedOnceStep ==
    ASSUME TypeOK, SlicesAreSets, OneLoop, LoopMissesNobody, ClosedOnce, [Next]_vars
    PROVE  ClosedOnce'
<1>1. ReaderTypes /\ SubscriberOf \in [Subscriber -> User]
  BY TypeParts, EventStreamAssumption
<1> SUFFICES ASSUME NEW t \in Subscriber
             PROVE  closes'[t] = IF ctx'[t] # "none" /\ t \notin Registered(SubscriberOf[t])'
                                 THEN 1 ELSE 0
  BY DEF ClosedOnce
<1>2. closes[t] = IF ctx[t] # "none" /\ t \notin Registered(SubscriberOf[t]) THEN 1 ELSE 0
  BY DEF ClosedOnce
<1>3. SubscriberOf[t] \in User
  BY <1>1
<1>4. ASSUME NEW s \in Subscriber, Subscribe(s)
      PROVE  closes'[t] = IF ctx'[t] # "none" /\ t \notin Registered(SubscriberOf[t])' THEN 1 ELSE 0
  <2>1. Registered(SubscriberOf[t])' = IF SubscriberOf[t] = SubscriberOf[s]
                                       THEN Registered(SubscriberOf[t]) \cup {s}
                                       ELSE Registered(SubscriberOf[t])
    BY <1>3, <1>4, RegisteredAfterAdd DEF Subscribe
  <2>2. closes' = closes /\ ctx[s] = "none" /\ ctx' = [ctx EXCEPT ![s] = "live"]
    BY <1>4 DEF Subscribe
  <2> QED
    BY <1>1, <1>2, <2>1, <2>2 DEF ReaderTypes
<1>5. ASSUME NEW p \in Publication, Dropping(p)
      PROVE  closes'[t] = IF ctx'[t] # "none" /\ t \notin Registered(SubscriberOf[t])' THEN 1 ELSE 0
  <2>1. Registered(SubscriberOf[t])' = IF SubscriberOf[t] = Addressee[p]
                                       THEN Registered(SubscriberOf[t]) \ {Visited(p)}
                                       ELSE Registered(SubscriberOf[t])
    BY <1>3, <1>5, RegisteredAfterDrop
  <2>2. /\ closes' = [closes EXCEPT ![Visited(p)] = @ + 1] /\ ctx' = ctx
        /\ pc[p] \in {"visit", "full"} /\ k[p] <= n[p]
    BY <1>5, DroppingFacts
  <2>3. /\ Visited(p) \in Registered(Addressee[p]) /\ SubscriberOf[Visited(p)] = Addressee[p]
        /\ ctx[Visited(p)] # "none"
    BY <2>2, VisitedIsRegistered
  <2> QED
    BY <1>1, <1>2, <2>1, <2>2, <2>3 DEF ReaderTypes
<1>6. ASSUME NEW s \in Subscriber, Leave(s)
      PROVE  closes'[t] = IF ctx'[t] # "none" /\ t \notin Registered(SubscriberOf[t])' THEN 1 ELSE 0
  <2>1. UNCHANGED <<arr, len, closes>> /\ ctx[s] = "live" /\ ctx' = [ctx EXCEPT ![s] = "done"]
    BY <1>6 DEF Leave, clients
  <2>2. Registered(SubscriberOf[t])' = Registered(SubscriberOf[t])
    BY <2>1 DEF Registered
  <2> QED
    BY <1>1, <1>2, <2>1, <2>2 DEF ReaderTypes
<1>7. ASSUME UNCHANGED <<arr, len, closes, ctx>>
      PROVE  closes'[t] = IF ctx'[t] # "none" /\ t \notin Registered(SubscriberOf[t])' THEN 1 ELSE 0
  BY <1>2, <1>7 DEF Registered
<1>8. \/ \E s \in Subscriber : Subscribe(s) \/ Leave(s)
      \/ \E p \in Publication : Dropping(p)
      \/ UNCHANGED <<arr, len, closes, ctx>>
  BY DEF Next, vars, clients, readers, PublishStep, Receive, Enter, Lock, Send, Block, SendLate, Finish,
         CloseStream, CloseReturns, Dropping
<1> QED
  BY <1>4, <1>5, <1>6, <1>7, <1>8

Looping(p) == pc[p] \in {"visit", "full"}

(* What is known of a publication in its loop. *)
Loop(p) ==
    LET u == Addressee[p] IN
    /\ k[p] >= 1 /\ len[u] <= n[p] /\ n[p] <= Len(arr[u])
    /\ \A i \in k[p]..n[p] :
          /\ arr[u][i] \in Registered(u)
          /\ \A j \in k[p]..n[p] : arr[u][i] = arr[u][j] => i = j
    /\ published[u] # <<>> /\ published[u][Len(published[u])] = p

LEMMA LoopParts == LoopMissesNobody <=> \A p \in Publication : Looping(p) => Loop(p)
BY DEF LoopMissesNobody, Looping, Loop

LEMMA CellsAhead ==
    ASSUME TypeOK, SlicesAreSets, OneLoop, LoopMissesNobody, NEW p \in Publication, Dropping(p)
    PROVE  \A j \in k[p] + 1..n[p] : arr'[Addressee[p]][j] = arr[Addressee[p]][j]
<1> DEFINE u == Addressee[p]
<1>1. PICK i \in 1..len[u] :
         /\ u \in User /\ i <= k[p] /\ pc[p] \in {"visit", "full"}
         /\ arr' = [arr EXCEPT ![u] = SwapLast(u, i)]
  BY DroppingFacts
<1>2. arr'[u] = SwapLast(u, i)
  BY <1>1, TypeParts DEF SliceTypes
<1>3. k[p] \in Nat /\ n[p] \in Nat /\ k[p] >= 1 /\ n[p] <= Len(arr[u]) /\ Len(arr[u]) \in Nat
  BY <1>1, TypeParts, LenProperties DEF LoopMissesNobody, CallTypes, SliceTypes
<1>4. \A j \in k[p] + 1..n[p] : j \in 1..Len(arr[u]) /\ j # i
  BY <1>1, <1>3
<1> QED
  BY <1>1, <1>2, <1>4, SwapFacts

LEMMA LoopStep ==
    ASSUME TypeOK, SlicesAreSets, OneLoop, LoopMissesNobody, [Next]_vars
    PROVE  LoopMissesNobody'
<1>1. CallTypes /\ SliceTypes /\ Nobody \notin Publication
  BY TypeParts, EventStreamAssumption
<1>2. \A q \in Publication : Looping(q) => Loop(q)
  BY LoopParts
<1>3. \A p, q \in Publication : Looping(p) /\ Looping(q) => p = q
  BY DEF OneLoop, Looping
<1> SUFFICES ASSUME NEW q \in Publication, Looping(q)' PROVE Loop(q)'
  BY DEF LoopMissesNobody, Looping, Loop
<1> DEFINE v == Addressee[q]
<1>4. v \in User
  BY EventStreamAssumption
<1>5. ASSUME NEW p \in Publication, Lock(p) PROVE Loop(q)'
  <2>1. ~Looping(q)
    BY <1>1, <1>5 DEF Lock, Refused, OneLoop, Looping
  <2>2. q = p /\ ~closed
    BY <1>1, <1>5, <2>1 DEF Lock, Refused, GoTo, Return, Looping, CallTypes
  <2>3. /\ k'[p] = 1 /\ n'[p] = len[v] /\ arr' = arr /\ len' = len
        /\ published'[v] = Append(published[v], p)
    BY <1>1, <1>4, <1>5, <2>2 DEF Lock, Refused, clients, CallTypes
  <2>4. published[v] \in Seq(Publication) /\ len[v] \in Nat /\ len[v] <= Len(arr[v])
    BY <1>1, <1>4 DEF CallTypes, SliceTypes
  <2>5. published'[v] # <<>> /\ published'[v][Len(published'[v])] = p
    BY <2>3, <2>4, AppendProperties, LenProperties
  <2>6. \A i \in 1..len[v] : /\ arr[v][i] \in Registered(v)
                             /\ \A j \in 1..len[v] : arr[v][i] = arr[v][j] => i = j
    BY <1>4 DEF SlicesAreSets, Registered
  <2>7. Registered(v)' = Registered(v)
    BY <2>3 DEF Registered
  <2> QED
    BY <2>2, <2>3, <2>4, <2>5, <2>6, <2>7 DEF Loop
<1>6. ASSUME NEW p \in Publication, Dropping(p) PROVE Loop(q)'
  <2>1. /\ Looping(p) /\ k[p] <= n[p] /\ UNCHANGED <<n, published>>
        /\ k' = [k EXCEPT ![p] = @ + 1] /\ pc' = [pc EXCEPT ![p] = "visit"]
    BY <1>6, DroppingFacts DEF Looping
  <2>2. q = p /\ Loop(p)
    BY <1>1, <1>2, <1>3, <2>1 DEF Looping, CallTypes
  <2>3. PICK i \in 1..len[v] : /\ arr' = [arr EXCEPT ![v] = SwapLast(v, i)]
                               /\ len' = [len EXCEPT ![v] = @ - 1]
    BY <1>6, <2>2, DroppingFacts
  <2>4. Len(arr'[v]) = Len(arr[v]) /\ len'[v] = len[v] - 1 /\ len[v] \in Nat
    BY <1>1, <1>4, <2>3, SwapFacts DEF SliceTypes
  <2>5. \A j \in k[q] + 1..n[q] : arr'[v][j] = arr[v][j]
    BY <1>6, <2>2, CellsAhead
  <2>6. Registered(v)' = Registered(v) \ {arr[v][k[q]]}
    BY <1>4, <1>6, <2>2, RegisteredAfterDrop DEF Visited
  <2>7. k'[q] = k[q] + 1 /\ n'[q] = n[q] /\ k[q] \in Nat /\ n[q] \in Nat
    BY <1>1, <2>1, <2>2 DEF CallTypes
  <2>8. ASSUME NEW j \in k[q] + 1..n[q]
        PROVE  /\ arr'[v][j] \in Registered(v)'
               /\ \A m \in k[q] + 1..n[q] : arr'[v][j] = arr'[v][m] => j = m
    <3>1. k[q] \in k[q]..n[q] /\ j \in k[q]..n[q] /\ j # k[q]
      BY <2>1, <2>2, <2>7
    <3>2. arr[v][j] \in Registered(v) /\ arr[v][j] # arr[v][k[q]]
      BY <2>2, <3>1 DEF Loop
    <3>3. \A m \in k[q] + 1..n[q] : m \in k[q]..n[q]
      BY <2>7
    <3> QED
      BY <2>2, <2>5, <2>6, <3>1, <3>2, <3>3 DEF Loop
  <2>9. k[q] >= 1 /\ len[v] <= n[q] /\ n[q] <= Len(arr[v])
    BY <2>2 DEF Loop
  <2>10. k'[q] >= 1 /\ len'[v] <= n'[q] /\ n'[q] <= Len(arr'[v])
    BY <2>4, <2>7, <2>9
  <2>11. published'[v] # <<>> /\ published'[v][Len(published'[v])] = q
    BY <2>1, <2>2 DEF Loop
  <2> QED
    BY <2>7, <2>8, <2>10, <2>11 DEF Loop
<1>7. ASSUME NEW p \in Publication, Delivering(p) PROVE Loop(q)'
  <2>1. /\ Looping(p) /\ k[p] <= n[p] /\ UNCHANGED <<arr, len, n, published>>
        /\ k' = [k EXCEPT ![p] = @ + 1] /\ pc' = [pc EXCEPT ![p] = "visit"]
    BY <1>7, DeliveringFacts DEF Looping, clients
  <2>2. q = p /\ Loop(p)
    BY <1>1, <1>2, <1>3, <2>1 DEF Looping, CallTypes
  <2>3. k'[q] = k[q] + 1 /\ n'[q] = n[q] /\ k[q] \in Nat /\ n[q] \in Nat
    BY <1>1, <2>1, <2>2 DEF CallTypes
  <2>4. Registered(v)' = Registered(v)
    BY <2>1 DEF Registered
  <2> QED
    BY <2>1, <2>2, <2>3, <2>4 DEF Loop
<1>8. ASSUME NEW s \in Subscriber, Subscribe(s) PROVE Loop(q)'
  BY <1>1, <1>8 DEF Subscribe, calls, OneLoop, Looping
<1>9. ASSUME NEW p \in Publication, Enter(p) \/ Block(p) \/ Finish(p) PROVE Loop(q)'
  <2>1. Looping(q)
    BY <1>1, <1>9 DEF Enter, Block, Finish, GoTo, Return, Looping, CallTypes
  <2>2. UNCHANGED <<arr, len, k, n, published>>
    BY <1>9 DEF Enter, Block, Finish, clients
  <2> QED
    BY <1>2, <2>1, <2>2 DEF Loop, Registered
<1>10. ASSUME UNCHANGED <<arr, len, calls, published>> PROVE Loop(q)'
  <2>1. Looping(q)
    BY <1>10 DEF calls, Looping
  <2> QED
    BY <1>2, <1>10, <2>1 DEF Loop, Registered, calls
<1>11. \/ \E p \in Publication : Lock(p)
       \/ \E p \in Publication : Dropping(p)
       \/ \E p \in Publication : Delivering(p)
       \/ \E s \in Subscriber : Subscribe(s)
       \/ \E p \in Publication : Enter(p) \/ Block(p) \/ Finish(p)
       \/ UNCHANGED <<arr, len, calls, published>>
  BY DEF Next, vars, clients, PublishStep, Leave, Receive, CloseStream, CloseReturns, Dropping, Delivering
<1> QED
  BY <1>5, <1>6, <1>7, <1>8, <1>9, <1>10, <1>11

LEMMA AheadOf ==
    ASSUME OneLoop, NEW p \in Publication, Looping(p), NEW s \in Subscriber
    PROVE  Ahead(s) <=> /\ Addressee[p] = SubscriberOf[s]
                        /\ \E i \in k[p]..n[p] : arr[Addressee[p]][i] = s
BY DEF Ahead, OneLoop, Looping

LEMMA LackStep ==
    ASSUME TypeOK, SlicesAreSets, OneLoop, LoopMissesNobody, OnlyAheadLack, TypeOK', OneLoop', [Next]_vars
    PROVE  OnlyAheadLack'
<1>1. CallTypes /\ ReaderTypes /\ Nobody \notin Publication
  BY TypeParts, EventStreamAssumption
<1>2. \A q \in Publication : Looping(q) => Loop(q)
  BY LoopParts
<1> DEFINE Owes(t) == IF Ahead(t) THEN 1 ELSE 0
<1> SUFFICES ASSUME NEW t \in Subscriber, t \in Registered(SubscriberOf[t])'
             PROVE  Lacks(t)' = Owes(t)'
  BY DEF OnlyAheadLack
<1> DEFINE v == SubscriberOf[t]
<1>3. /\ v \in User /\ Len(Stream(t)) \in Nat /\ since[t] \in Nat
      /\ published[v] \in Seq(Publication) /\ Len(published[v]) \in Nat
  BY StreamTypes
<1>4. t \in Registered(v) => Lacks(t) = Owes(t)
  BY DEF OnlyAheadLack
<1>5. ASSUME NEW s \in Subscriber, Subscribe(s) PROVE Lacks(t)' = Owes(t)'
  <2>1. /\ mu = Nobody /\ mu' = mu /\ published' = published /\ ctx[s] = "none"
        /\ since' = [since EXCEPT ![s] = Len(published[SubscriberOf[s]])]
    BY <1>5 DEF Subscribe
  <2>2. Stream(t)' = Stream(t)
    BY <1>5 DEF Subscribe, Stream
  <2>3. ~Ahead(t) /\ ~Ahead(t)'
    BY <1>1, <2>1 DEF Ahead
  <2>4. CASE t = s
    <3>1. Stream(t) = <<>> /\ since'[t] = Len(published[v])
      BY <1>1, <2>1, <2>4 DEF SlicesAreSets, ReaderTypes
    <3>2. Len(Stream(t)') = 0
      BY <2>2, <3>1
    <3> QED
      BY <1>3, <2>1, <2>3, <3>1, <3>2 DEF Lacks
  <2>5. CASE t # s
    <3>1. t \in Registered(v)
      BY <1>3, <1>5, <2>5, RegisteredAfterAdd DEF Subscribe
    <3>2. since'[t] = since[t]
      BY <1>1, <2>1, <2>5 DEF ReaderTypes
    <3> QED
      BY <1>4, <2>1, <2>2, <2>3, <3>1, <3>2 DEF Lacks
  <2> QED
    BY <2>4, <2>5
<1>6. ASSUME NEW p \in Publication, Lock(p) PROVE Lacks(t)' = Owes(t)'
  <2>1. /\ mu = Nobody /\ since' = since /\ UNCHANGED <<arr, len>> /\ Stream(t)' = Stream(t)
    BY <1>6 DEF Lock, Refused, clients, readers, Stream
  <2>2. t \in Registered(v) /\ ~Ahead(t) /\ Registered(v)' = Registered(v)
    BY <1>1, <2>1 DEF Registered, Ahead
  <2>3. Lacks(t) = 0
    BY <1>4, <2>2
  <2>4. CASE closed
    <3>1. mu' = Nobody /\ published' = published
      BY <1>6, <2>1, <2>4 DEF Lock, Refused
    <3>2. ~Ahead(t)'
      BY <1>1, <3>1 DEF Ahead
    <3> QED
      BY <2>1, <2>3, <3>1, <3>2 DEF Lacks
  <2>5. CASE ~closed
    <3>1. /\ mu' = p /\ k' = [k EXCEPT ![p] = 1] /\ n' = [n EXCEPT ![p] = len[Addressee[p]]]
          /\ published' = [published EXCEPT ![Addressee[p]] = Append(@, p)]
      BY <1>6, <2>5 DEF Lock, Refused
    <3>2. Ahead(t)' <=> /\ Addressee[p] = v
                        /\ \E i \in 1..len[Addressee[p]] : arr[Addressee[p]][i] = t
      BY <1>1, <2>1, <3>1 DEF Ahead, CallTypes
    <3>3. CASE Addressee[p] = v
      <4>1. Ahead(t)'
        BY <2>2, <3>2, <3>3 DEF Registered
      <4>2. published'[v] = Append(published[v], p)
        BY <1>1, <1>3, <3>1, <3>3 DEF CallTypes
      <4>3. Len(published'[v]) = Len(published[v]) + 1
        BY <1>3, <4>2, AppendProperties
      <4>4. since'[t] = since[t] /\ Len(Stream(t)') = Len(Stream(t))
        BY <2>1
      <4>5. Lacks(t)' = Lacks(t) + 1
        BY <1>3, <4>3, <4>4 DEF Lacks
      <4> QED
        BY <2>3, <4>1, <4>5
    <3>4. CASE Addressee[p] # v
      <4>1. published'[v] = published[v]
        BY <1>1, <1>3, <3>1, <3>4 DEF CallTypes
      <4> QED
        BY <2>1, <2>3, <3>2, <3>4, <4>1 DEF Lacks
    <3> QED
      BY <3>3, <3>4
  <2> QED
    BY <2>4, <2>5
<1>7. ASSUME NEW p \in Publication, Dropping(p) PROVE Lacks(t)' = Owes(t)'
  <2>1. /\ Looping(p) /\ k[p] <= n[p] /\ UNCHANGED <<n, published, since, mu>>
        /\ k' = [k EXCEPT ![p] = @ + 1] /\ pc' = [pc EXCEPT ![p] = "visit"]
    BY <1>7, DroppingFacts DEF Looping
  <2>2. k'[p] = k[p] + 1 /\ n'[p] = n[p] /\ k[p] \in Nat /\ n[p] \in Nat /\ Looping(p)'
    BY <1>1, <2>1 DEF CallTypes, Looping
  <2>3. t \in Registered(v) /\ (Addressee[p] = v => t # Visited(p))
    BY <1>3, <1>7, RegisteredAfterDrop
  <2>4. Stream(t)' = Stream(t)
    BY <1>7, DroppingFacts DEF Stream
  <2>5. \A j \in k[p] + 1..n[p] : arr'[Addressee[p]][j] = arr[Addressee[p]][j]
    BY <1>7, CellsAhead
  <2>6. Ahead(t) <=> Addressee[p] = v /\ \E i \in k[p]..n[p] : arr[Addressee[p]][i] = t
    BY <2>1, AheadOf
  <2>7. Ahead(t)' <=> Addressee[p] = v /\ \E i \in k[p] + 1..n[p] : arr'[Addressee[p]][i] = t
    BY <1>1, <2>1, <2>2 DEF Ahead, OneLoop, Looping
  <2>8. Ahead(t)' <=> Ahead(t)
    BY <2>1, <2>2, <2>3, <2>5, <2>6, <2>7 DEF Visited
  <2> QED
    BY <1>4, <2>1, <2>3, <2>4, <2>8 DEF Lacks
<1>8. ASSUME NEW p \in Publication, Delivering(p) PROVE Lacks(t)' = Owes(t)'
  <2>1. /\ Looping(p) /\ k[p] <= n[p] /\ UNCHANGED <<arr, len, n, published, since, mu>>
        /\ k' = [k EXCEPT ![p] = @ + 1] /\ pc' = [pc EXCEPT ![p] = "visit"]
        /\ SubscriberOf[Visited(p)] = Addressee[p]
    BY <1>8, DeliveringFacts DEF Looping, clients
  <2>2. k'[p] = k[p] + 1 /\ n'[p] = n[p] /\ k[p] \in Nat /\ n[p] \in Nat
    BY <1>1, <2>1 DEF CallTypes
  <2>3. t \in Registered(v)
    BY <2>1 DEF Registered
  <2>4. Stream(t)' = IF t = Visited(p) THEN Append(Stream(t), p) ELSE Stream(t)
    BY <1>8, DeliveryAppends
  <2>5. Ahead(t) <=> Addressee[p] = v /\ \E i \in k[p]..n[p] : arr[Addressee[p]][i] = t
    BY <2>1, AheadOf
  <2>6. Ahead(t)' <=> Addressee[p] = v /\ \E i \in k[p] + 1..n[p] : arr[Addressee[p]][i] = t
    BY <1>1, <2>1, <2>2 DEF Ahead, OneLoop, Looping
  <2>7. CASE t = Visited(p)
    <3>1. Ahead(t)
      BY <2>1, <2>2, <2>5, <2>7 DEF Visited
    <3>2. \A i \in k[p] + 1..n[p] : arr[Addressee[p]][i] # t
      BY <1>2, <2>1, <2>2, <2>7 DEF Loop, Visited
    <3>3. ~Ahead(t)'
      BY <2>6, <3>2
    <3>4. Len(Stream(t)') = Len(Stream(t)) + 1
      BY <2>4, <2>7, StreamTypes, AppendProperties
    <3> QED
      BY <1>3, <1>4, <2>1, <2>3, <3>1, <3>3, <3>4 DEF Lacks
  <2>8. CASE t # Visited(p)
    <3>1. Ahead(t)' <=> Ahead(t)
      BY <2>1, <2>2, <2>5, <2>6, <2>8 DEF Visited
    <3> QED
      BY <1>4, <2>1, <2>3, <2>4, <2>8, <3>1 DEF Lacks
  <2> QED
    BY <2>7, <2>8
<1>9. ASSUME NEW p \in Publication, Finish(p) PROVE Lacks(t)' = Owes(t)'
  <2>1. /\ Looping(p) /\ k[p] > n[p] /\ mu' = Nobody /\ UNCHANGED <<arr, len, published, since>>
        /\ Stream(t)' = Stream(t)
    BY <1>9 DEF Finish, Unlock, Looping, clients, readers, Stream
  <2>2. t \in Registered(v)
    BY <2>1 DEF Registered
  <2>3. ~Ahead(t)' /\ ~Ahead(t)
    <3>1. mu = p
      BY <2>1 DEF Looping, OneLoop
    <3>2. k[p] \in Nat /\ n[p] \in Nat
      BY <1>1 DEF CallTypes
    <3>3. \A j \in k[p]..n[p] : FALSE
      BY <2>1, <3>2
    <3>4. ~Ahead(t)
      BY <3>1, <3>3 DEF Ahead
    <3> QED
      BY <1>1, <2>1, <3>4 DEF Ahead
  <2>4. Lacks(t) = Owes(t)
    BY <1>4, <2>2
  <2>5. Lacks(t)' = Lacks(t)
    BY <2>1 DEF Lacks
  <2>6. Owes(t)' = Owes(t)
    BY <2>3
  <2> QED
    BY <2>4, <2>5, <2>6
<1>10. ASSUME UNCHANGED <<arr, len, mu, k, n, published, since>>, Stream(t)' = Stream(t)
       PROVE  Lacks(t)' = Owes(t)'
  <2>1. t \in Registered(v)
    BY <1>10 DEF Registered
  <2>2. Ahead(t)' <=> Ahead(t)
    BY <1>10 DEF Ahead
  <2> QED
    BY <1>4, <1>10, <2>1, <2>2 DEF Lacks
<1>11. ASSUME NEW s \in Subscriber, Receive(s) PROVE Lacks(t)' = Owes(t)'
  BY <1>10, <1>11, ReceiveKeepsStreams DEF Receive, clients, calls
<1>12. ASSUME UNCHANGED <<arr, len, mu, k, n, published, since, ch, got>> PROVE Lacks(t)' = Owes(t)'
  BY <1>10, <1>12 DEF Stream
<1>13. \/ \E s \in Subscriber : Subscribe(s) \/ Receive(s)
       \/ \E p \in Publication : Lock(p) \/ Dropping(p) \/ Delivering(p) \/ Finish(p)
       \/ UNCHANGED <<arr, len, mu, k, n, published, since, ch, got>>
  BY DEF Next, vars, clients, readers, calls, PublishStep, Leave, Enter, Block, CloseStream, CloseReturns,
         Dropping, Delivering
<1> QED
  BY <1>5, <1>6, <1>7, <1>8, <1>9, <1>11, <1>12, <1>13

(* StreamIsWindow, event by event. *)
Window(s) ==
    LET all == published[SubscriberOf[s]] IN
    /\ since[s] + Len(Stream(s)) <= Len(all)
    /\ \A i \in 1..Len(Stream(s)) : Stream(s)[i] = all[since[s] + i]

Windows == \A s \in Subscriber : Window(s)

LEMMA SubSeqPoints ==
    ASSUME NEW S, NEW a \in Seq(S), NEW b \in Seq(S), NEW m \in Nat, m + Len(b) <= Len(a)
    PROVE  b = SubSeq(a, m + 1, m + Len(b)) <=> \A i \in 1..Len(b) : b[i] = a[m + i]
<1>1. Len(a) \in Nat /\ Len(b) \in Nat
  BY LenProperties
<1> DEFINE c == SubSeq(a, m + 1, m + Len(b))
<1>2. PICK x \in Int, y \in Int : x = m + 1 /\ y = m + Len(b)
  BY <1>1
<1>3. /\ c \in Seq(S) /\ Len(c) = IF x <= y THEN y - x + 1 ELSE 0
      /\ \A i \in 1..y - x + 1 : c[i] = a[x + i - 1]
  <2>1. \A i \in x..y : i \in 1..Len(a)
    BY <1>1, <1>2
  <2>2. \A i \in x..y : a[i] \in S
    BY <2>1, ElementOfSeq
  <2> QED
    BY <1>2, <2>2, SubSeqProperties
<1> HIDE DEF c
<1>4. Len(c) = Len(b)
  BY <1>1, <1>2, <1>3
<1>5. \A i \in 1..Len(b) : c[i] = a[m + i]
  BY <1>1, <1>2, <1>3
<1>6. b = c <=> \A i \in 1..Len(b) : b[i] = c[i]
  BY <1>3, <1>4, SeqEqual
<1> QED
  BY <1>5, <1>6 DEF c

LEMMA WindowPoints ==
    ASSUME TypeOK
    PROVE  StreamIsWindow <=> Windows
<1> SUFFICES ASSUME NEW s \in Subscriber
             PROVE  LET all == published[SubscriberOf[s]] IN
                    Window(s) <=> /\ since[s] + Len(Stream(s)) <= Len(all)
                                  /\ Stream(s) = SubSeq(all, since[s] + 1, since[s] + Len(Stream(s)))
  BY DEF StreamIsWindow, Windows
<1> DEFINE a == published[SubscriberOf[s]]
           b == Stream(s)
           m == since[s]
<1>1. a \in Seq(Publication) /\ b \in Seq(Publication) /\ m \in Nat
  BY StreamTypes
<1>2. Window(s) <=> m + Len(b) <= Len(a) /\ \A i \in 1..Len(b) : b[i] = a[m + i]
  BY DEF Window
<1> HIDE DEF a, b, m
<1>3. m + Len(b) <= Len(a) => (b = SubSeq(a, m + 1, m + Len(b)) <=> \A i \in 1..Len(b) : b[i] = a[m + i])
  BY <1>1, SubSeqPoints
<1>4. Window(s) <=> m + Len(b) <= Len(a) /\ b = SubSeq(a, m + 1, m + Len(b))
  BY <1>2, <1>3
<1> QED
  BY <1>4 DEF a, b, m

LEMMA WindowStep ==
    ASSUME TypeOK, SlicesAreSets, OneLoop, LoopMissesNobody, OnlyAheadLack, StreamIsWindow,
           TypeOK', [Next]_vars
    PROVE  StreamIsWindow'
<1>1. CallTypes /\ ReaderTypes
  BY TypeParts
<1> SUFFICES ASSUME NEW t \in Subscriber PROVE Window(t)'
  <2>1. Windows' => StreamIsWindow'
    BY WindowPoints, PTL
  <2> QED
    BY <2>1 DEF Windows
<1>2. Window(t)
  BY WindowPoints DEF Windows
<1> DEFINE v == SubscriberOf[t]
<1>3. /\ v \in User /\ Stream(t) \in Seq(Publication) /\ Len(Stream(t)) \in Nat /\ since[t] \in Nat
      /\ published[v] \in Seq(Publication) /\ Len(published[v]) \in Nat
  BY StreamTypes
<1>4. ASSUME NEW s \in Subscriber, Subscribe(s) PROVE Window(t)'
  <2>1. /\ Stream(t)' = Stream(t) /\ published' = published
        /\ since'[t] = IF t = s THEN Len(published[v]) ELSE since[t]
        /\ ctx[s] = "none"
    BY <1>1, <1>4 DEF Subscribe, Stream, ReaderTypes
  <2>2. CASE t = s
    <3>1. Len(Stream(t)') = 0
      BY <2>1, <2>2 DEF SlicesAreSets
    <3> QED
      BY <1>3, <2>1, <2>2, <3>1 DEF Window
  <2>3. CASE t # s
    BY <1>2, <2>1, <2>3 DEF Window
  <2> QED
    BY <2>2, <2>3
<1>5. ASSUME NEW p \in Publication, Lock(p) PROVE Window(t)'
  <2>1. Stream(t)' = Stream(t) /\ since' = since
    BY <1>5 DEF Lock, readers, Stream
  <2>2. published'[v] = published[v] \/ published'[v] = Append(published[v], p)
    BY <1>1, <1>3, <1>5 DEF Lock, CallTypes
  <2>3. /\ Len(published[v]) <= Len(published'[v]) /\ Len(published'[v]) \in Nat
        /\ \A i \in 1..Len(published[v]) : published'[v][i] = published[v][i]
    BY <1>3, <2>2, AppendProperties
  <2>4. \A i \in 1..Len(Stream(t)) : since[t] + i \in 1..Len(published[v])
    BY <1>2, <1>3 DEF Window
  <2>5. since[t] + Len(Stream(t)) <= Len(published'[v])
    BY <1>2, <1>3, <2>3 DEF Window
  <2> QED
    BY <1>2, <2>1, <2>3, <2>4, <2>5 DEF Window
<1>6. ASSUME NEW p \in Publication, Delivering(p) PROVE Window(t)'
  <2>1. /\ Looping(p) /\ k[p] <= n[p] /\ UNCHANGED <<published, since>>
        /\ SubscriberOf[Visited(p)] = Addressee[p] /\ Visited(p) \in Registered(Addressee[p])
    BY <1>6, DeliveringFacts DEF Looping
  <2>2. Stream(t)' = IF t = Visited(p) THEN Append(Stream(t), p) ELSE Stream(t)
    BY <1>6, DeliveryAppends
  <2>3. CASE t = Visited(p)
    <3>1. Ahead(t)
      BY <1>1, <2>1, <2>3, AheadOf DEF Visited, CallTypes
    <3>2. Len(published[v]) = since[t] + Len(Stream(t)) + 1
      BY <1>3, <2>1, <2>3, <3>1 DEF OnlyAheadLack, Lacks
    <3>3. published[v][Len(published[v])] = p
      BY <2>1, <2>3, LoopParts DEF Loop
    <3>4. /\ Len(Stream(t)') = Len(Stream(t)) + 1 /\ Stream(t)'[Len(Stream(t)) + 1] = p
          /\ \A i \in 1..Len(Stream(t)) : Stream(t)'[i] = Stream(t)[i]
      BY <1>3, <2>2, <2>3, AppendProperties
    <3>5. ASSUME NEW i \in 1..Len(Stream(t)) + 1
          PROVE  Stream(t)'[i] = published[v][since[t] + i]
      <4>1. CASE i \in 1..Len(Stream(t))
        BY <1>2, <3>4, <4>1 DEF Window
      <4>2. CASE i = Len(Stream(t)) + 1
        <5>1. \A a, b \in Nat : a + (b + 1) = a + b + 1
          OBVIOUS
        <5>2. since[t] + i = Len(published[v])
          BY <1>3, <3>2, <4>2, <5>1
        <5> QED
          BY <3>3, <3>4, <4>2, <5>2
      <4> QED
        BY <1>3, <4>1, <4>2
    <3> QED
      BY <1>3, <2>1, <3>2, <3>4, <3>5 DEF Window
  <2>4. CASE t # Visited(p)
    BY <1>2, <2>1, <2>2, <2>4 DEF Window
  <2> QED
    BY <2>3, <2>4
<1>7. ASSUME NEW s \in Subscriber, Receive(s) PROVE Window(t)'
  <2>1. Stream(t)' = Stream(t) /\ UNCHANGED <<published, since>>
    BY <1>7, ReceiveKeepsStreams DEF Receive
  <2> QED
    BY <1>2, <2>1 DEF Window
<1>8. ASSUME UNCHANGED <<published, since, ch, got>> PROVE Window(t)'
  BY <1>2, <1>8 DEF Window, Stream
<1>9. \/ \E s \in Subscriber : Subscribe(s) \/ Receive(s)
      \/ \E p \in Publication : Lock(p) \/ Delivering(p)
      \/ UNCHANGED <<published, since, ch, got>>
  BY DEF Next, vars, readers, PublishStep, Leave, Enter, DropDone, DropSlow, Block, Finish, CloseStream,
         CloseReturns, Delivering
<1> QED
  BY <1>4, <1>5, <1>6, <1>7, <1>8, <1>9

-----------------------------------------------------------------------------
(* What follows from the parts. *)
LEMMA PartsSuffice ==
    ASSUME TypeOK, SlicesAreSets, OneLoop, LoopMissesNobody, OnlyAheadLack, ClosedOnce
    PROVE  NoSendOnClosed /\ RegisteredIsCurrent
<1>1. ASSUME NEW p \in Publication, pc[p] \in {"visit", "full"}, k[p] <= n[p]
      PROVE  closes[Visited(p)] = 0
  BY <1>1, VisitedIsRegistered DEF ClosedOnce
<1>2. ASSUME NEW s \in Subscriber, Ahead(s) PROVE mu # Nobody /\ Addressee[mu] = SubscriberOf[s]
  BY <1>2, EventStreamAssumption DEF Ahead
<1> QED
  BY <1>1, <1>2 DEF NoSendOnClosed, RegisteredIsCurrent, OnlyAheadLack

LEMMA EventStreamInit == Init => EventStreamInv
<1> SUFFICES ASSUME Init PROVE EventStreamInv
  OBVIOUS
<1>1. /\ arr = [u \in User |-> <<>>] /\ len = [u \in User |-> 0]
      /\ ctx = [s \in Subscriber |-> "none"]
      /\ ch = [s \in Subscriber |-> <<>>] /\ got = [s \in Subscriber |-> <<>>]
      /\ closes = [s \in Subscriber |-> 0] /\ since = [s \in Subscriber |-> 0]
      /\ mu = Nobody /\ closed = FALSE /\ closing = "no"
      /\ pc = [p \in Publication |-> "idle"] /\ published = [u \in User |-> <<>>]
      /\ k = [p \in Publication |-> 0] /\ n = [p \in Publication |-> 0]
      /\ result = [p \in Publication |-> "none"]
  BY DEF Init
<1>2. /\ <<>> \in Seq(Subscriber) /\ <<>> \in Seq(Publication) /\ Len(<<>>) = 0
      /\ Cap \in Nat /\ Nobody \notin Publication
  BY EmptySeq, EventStreamAssumption
<1>3. SliceTypes /\ ReaderTypes
  BY <1>1, <1>2 DEF SliceTypes, ReaderTypes
<1>4. ChannelTypes
  BY <1>1, <1>2 DEF ChannelTypes
<1>5. CallTypes /\ FlagTypes
  BY <1>1, <1>2 DEF CallTypes, FlagTypes, PC
<1>6. TypeOK
  BY <1>3, <1>4, <1>5, TypeParts
<1>7. \A s \in Subscriber : Stream(s) = <<>>
  BY <1>1, <1>2, ConcatEmptySeq DEF Stream
<1>8. \A u \in User : len[u] = 0 /\ Registered(u) = {}
  BY <1>1 DEF Registered
<1>9. SlicesAreSets
  BY <1>7, <1>8 DEF SlicesAreSets
<1>10. OneLoop /\ LoopMissesNobody
  BY <1>1, <1>2 DEF OneLoop, LoopMissesNobody
<1>11. SubscriberOf \in [Subscriber -> User]
  BY EventStreamAssumption
<1>12. OnlyAheadLack /\ ClosedOnce
  BY <1>1, <1>8, <1>11 DEF OnlyAheadLack, ClosedOnce
<1>13. \A s \in Subscriber : Window(s)
  BY <1>1, <1>2, <1>7, <1>11 DEF Window
<1> QED
  BY <1>6, <1>9, <1>10, <1>12, <1>13, PartsSuffice, WindowPoints DEF EventStreamInv, Windows

LEMMA EventStreamStep == EventStreamInv /\ [Next]_vars => EventStreamInv'
<1> SUFFICES ASSUME EventStreamInv, [Next]_vars PROVE EventStreamInv'
  OBVIOUS
<1>1. /\ TypeOK /\ SlicesAreSets /\ OneLoop /\ LoopMissesNobody /\ OnlyAheadLack /\ ClosedOnce
      /\ StreamIsWindow
  BY DEF EventStreamInv
<1>2. TypeOK' /\ SlicesAreSets' /\ OneLoop' /\ LoopMissesNobody' /\ ClosedOnce'
  BY <1>1, TypeStep, SlicesStep, OneLoopStep, LoopStep, ClosedOnceStep
<1>3. OnlyAheadLack' /\ StreamIsWindow'
  BY <1>1, <1>2, LackStep, WindowStep
<1>4. NoSendOnClosed' /\ RegisteredIsCurrent'
  BY <1>2, <1>3, PartsSuffice, PTL
<1> QED
  BY <1>2, <1>3, <1>4 DEF EventStreamInv

(* The stream, whatever its users, subscribers, publications and capacity: *)
(* no channel is closed twice or sent to after that, and the range loop of *)
(* Publish meets every client once although remove moves cells under it.   *)
THEOREM EventStreamInvariant == Spec => []EventStreamInv
<1>1. Init => EventStreamInv
  BY EventStreamInit
<1>2. EventStreamInv /\ [Next]_vars => EventStreamInv'
  BY EventStreamStep
<1> QED
  BY <1>1, <1>2, PTL DEF Spec

(* What a client's channel carries is a window of its user's events, in    *)
(* the order of Publish, none missing and none twice.                      *)
THEOREM StreamsAreWindows == Spec => []StreamIsWindow
<1>1. EventStreamInv => StreamIsWindow
  BY DEF EventStreamInv
<1> QED
  BY <1>1, EventStreamInvariant, PTL

(* After Close has returned, Publish sends nothing more.                   *)
THEOREM ClosedIsQuiet == Spec => QuietAfterClose
<1>1. ASSUME EventStreamInv, [Next]_vars, closing = "returned", NEW s \in Subscriber
      PROVE  Len(Stream(s)') = Len(Stream(s))
  <2>1. /\ TypeOK /\ SlicesAreSets /\ OneLoop /\ LoopMissesNobody /\ mu = Nobody
    BY <1>1 DEF EventStreamInv, OneLoop
  <2>2. ~\E p \in Publication : Delivering(p)
    <3>1. SUFFICES ASSUME NEW p \in Publication, Delivering(p) PROVE FALSE
      OBVIOUS
    <3>2. pc[p] \in {"visit", "full"}
      BY <2>1, <3>1, DeliveringFacts
    <3> QED
      BY <2>1, <3>2, EventStreamAssumption DEF OneLoop
  <2> QED
    BY <1>1, <2>1, <2>2, ReceiveKeepsStreams, OtherStreams
<1>2. EventStreamInv /\ [Next]_vars =>
         [closing = "returned" => \A s \in Subscriber : Len(Stream(s)') = Len(Stream(s))]_vars
  BY <1>1
<1> QED
  BY <1>2, EventStreamInvariant, PTL DEF Spec, QuietAfterClose

-----------------------------------------------------------------------------
(* The process that closes the stream (module Lifecycle), for any number   *)
(* of servers, workers, consumers, requests and failures: nothing is       *)
(* closed while it is in use, and the result of run tells whether          *)
(* something failed.                                                       *)

LEMMA StepsInOrder ==
    /\ Len(Steps) = 7
    /\ \A i \in 1..Len(Steps) : Steps[i] \notin {"run", "closing", "exited"}
    /\ \A i \in 1..Len(Steps) : Steps[i] \in Stages
    /\ {"run", "closing", "exited"} \subseteq Stages
<1>1. Len(Steps) = 7
  BY DEF Steps
<1>2. \A i \in 1..7 : i = 1 \/ i = 2 \/ i = 3 \/ i = 4 \/ i = 5 \/ i = 6 \/ i = 7
  OBVIOUS
<1>3. \A i \in 1..Len(Steps) : Steps[i] \notin {"run", "closing", "exited"}
  BY <1>1, <1>2 DEF Steps
<1> QED
  BY <1>1, <1>3 DEF Stages

LEMMA LifecycleInit == ProcessInit => LifecycleInv
<1> SUFFICES ASSUME ProcessInit PROVE LifecycleInv
  OBVIOUS
<1>1. 1 \in 1..Len(Steps)
  BY StepsInOrder
<1>2. ProcessTypeOK
  <2>1. stage \in Stages
    BY <1>1, StepsInOrder DEF ProcessInit
  <2>2. signalled \in BOOLEAN
    BY Zenon DEF ProcessInit
  <2>3. /\ listening \in [Server -> {"off", "run", "nil", "error"}]
        /\ shutting \in [Server -> {"off", "run", "drain", "nil", "error"}]
        /\ graceLeft \in [Server -> 0..ShutdownTimeout]
        /\ requests \in [Server -> 0..MaxRequests]
        /\ working \in [Worker -> {"off", "run", "busy", "nil", "error"}]
        /\ consuming \in [Consumer -> {"off", "run", "nil"}]
        /\ faults \in 0..MaxFaults
    BY LifecycleAssumption DEF ProcessInit
  <2> QED
    BY <2>1, <2>2, <2>3 DEF ProcessInit, ProcessTypeOK
<1>3. stage \notin {"run", "closing", "exited"}
  BY <1>1, StepsInOrder DEF ProcessInit
<1> QED
  BY <1>2, <1>3 DEF ProcessInit, LifecycleInv, StagesInOrder, Closing, AllOff, Drainage, ClosedWhenUnused

LEMMA LifecycleTypes == LifecycleInv /\ [ProcessNext]_processVars => ProcessTypeOK'
<1> SUFFICES ASSUME LifecycleInv, [ProcessNext]_processVars PROVE ProcessTypeOK'
  OBVIOUS
<1> USE LifecycleAssumption DEF ProcessTypeOK, LifecycleInv, setup, servers
<1>1. CASE Signal
  BY <1>1 DEF Signal
<1>2. ASSUME NEW i \in 1..Len(Steps), Prepare(i) PROVE ProcessTypeOK'
  <2>1. stage' \in Stages
    BY <1>2, StepsInOrder DEF Prepare
  <2> QED
    BY <1>2, <2>1 DEF Prepare
<1>3. ASSUME NEW i \in 1..Len(Steps), PrepareFails(i) PROVE ProcessTypeOK'
  BY <1>3, StepsInOrder DEF PrepareFails, Fault
<1>4. CASE WaitReturns
  BY <1>4, StepsInOrder DEF WaitReturns, WaitResult
<1>5. CASE CloseEventStream
  BY <1>5 DEF CloseEventStream
<1>6. CASE CloseDb
  BY <1>6 DEF CloseDb
<1>7. CASE Exit
  BY <1>7, StepsInOrder DEF Exit
<1>8. CASE Tick
  BY <1>8 DEF Tick
<1>9. ASSUME NEW s \in Server, Accept(s) \/ Respond(s) PROVE ProcessTypeOK'
  BY <1>9 DEF Accept, Respond
<1>10. ASSUME NEW s \in Server, ListenStep(s) PROVE ProcessTypeOK'
  BY <1>10 DEF ListenStep, ListenFails, ServerClosed, Fault
<1>11. ASSUME NEW s \in Server, ShutdownStep(s) PROVE ProcessTypeOK'
  BY <1>11 DEF ShutdownStep, BeginShutdown, Drained, ShutdownTimesOut
<1>12. ASSUME NEW w \in Worker, WorkerStep(w) PROVE ProcessTypeOK'
  BY <1>12 DEF WorkerStep, TakeJob, FinishJob, WorkerFails, WorkerStops, Fault
<1>13. ASSUME NEW c \in Consumer, ConsumerStops(c) PROVE ProcessTypeOK'
  BY <1>13 DEF ConsumerStops, Fault
<1>14. CASE UNCHANGED processVars
  BY <1>14 DEF processVars
<1> QED
  BY <1>1, <1>2, <1>3, <1>4, <1>5, <1>6, <1>7, <1>8, <1>9, <1>10, <1>11, <1>12, <1>13, <1>14
  DEF ProcessNext, Run, Over

(* Who has started, failed and returned is a matter of the goroutines. *)
LEMMA SameRunners ==
    ASSUME UNCHANGED <<listening, shutting, working, consuming>>
    PROVE  /\ requests' = requests => AllOff' = AllOff
           /\ AllStarted' = AllStarted
           /\ EverybodyReturned' = EverybodyReturned /\ WaitResult' = WaitResult
BY DEF AllOff, AllStarted, EverybodyReturned, WaitResult, OutboxReturned, AfcReturned,
   ServerReturned, AnyRunnerFailed, ServerFailed, OutboxFailed

(* Stages, drainage and what is closed, for the steps of run. *)
LEMMA ProcessRuns == LifecycleInv /\ Run /\ ProcessTypeOK' => LifecycleInv'
<1> SUFFICES ASSUME LifecycleInv, Run, ProcessTypeOK' PROVE LifecycleInv'
  OBVIOUS
<1> USE DEF LifecycleInv, StagesInOrder, Drainage, ClosedWhenUnused, Closing, setup, servers
<1>1. ASSUME NEW i \in 1..Len(Steps), Prepare(i) PROVE LifecycleInv'
  <2>1. stage \notin {"run", "closing", "exited"}
    BY <1>1, StepsInOrder DEF Prepare
  <2>2. stage' = "run" \/ stage' \notin {"run", "closing", "exited"}
    BY <1>1, StepsInOrder DEF Prepare
  <2>3. stage' = "run" => i >= Len(Steps)
    BY <1>1, StepsInOrder DEF Prepare
  <2>4. /\ UNCHANGED <<requests, exit>> /\ db' # "closed" /\ stream' # "closed"
        /\ exit = "none"
    BY <1>1, <2>1 DEF Prepare
  <2>5. CASE stage' = "run"
    BY <1>1, <2>1, <2>3, <2>4, <2>5 DEF Prepare, AllOff, AllStarted
  <2>6. CASE stage' # "run"
    <3>1. i < Len(Steps)
      BY <1>1, <2>6, StepsInOrder DEF Prepare
    <3> QED
      BY <1>1, <2>1, <2>2, <2>4, <2>6, <3>1 DEF Prepare, AllOff
  <2> QED
    BY <2>5, <2>6
<1>2. ASSUME NEW i \in 1..Len(Steps), PrepareFails(i) PROVE LifecycleInv'
  <2>1. stage \notin {"run", "closing", "exited"}
    BY <1>2, StepsInOrder DEF PrepareFails
  <2> QED
    BY <1>2, <2>1 DEF PrepareFails, AllOff
<1>3. CASE WaitReturns
  <2>1. /\ AllStarted /\ EverybodyReturned /\ exit' = WaitResult /\ stage' = "closing"
        /\ db # "closed" /\ stream # "closed"
        /\ UNCHANGED <<db, stream, listening, shutting, requests, working, consuming>>
    BY <1>3 DEF WaitReturns
  <2>2. AllStarted' /\ EverybodyReturned' /\ exit' = WaitResult'
    BY <2>1, SameRunners
  <2>3. Drainage'
    BY <2>1
  <2>4. ClosedWhenUnused'
    BY <2>1
  <2>5. Closing' /\ stage' # "run"
    BY <2>1
  <2>6. StagesInOrder'
    BY <2>2, <2>5 DEF Closing
  <2> QED
    BY <2>3, <2>4, <2>6
<1>4. CASE CloseEventStream \/ CloseDb \/ Exit
  <2>1. /\ Closing /\ Closing' /\ exit' = exit
        /\ stage' = "exited" => db' # "open" /\ stream' # "open"
        /\ UNCHANGED <<listening, shutting, requests, working, consuming>>
    BY <1>4 DEF CloseEventStream, CloseDb, Exit
  <2>2. \/ AllOff' /\ exit' = "error"
        \/ AllStarted' /\ EverybodyReturned' /\ exit' = WaitResult'
    BY <2>1, SameRunners
  <2>3. \A w \in Worker : working'[w] \in {"off"} \cup Ended
    BY <2>2 DEF AllOff, EverybodyReturned, OutboxReturned
  <2>4. \A c \in Consumer : consuming'[c] \in {"off"} \cup Ended
    BY <2>2 DEF AllOff, EverybodyReturned, AfcReturned
  <2>5. \A s \in Server : requests'[s] > 0 => shutting'[s] = "error" /\ exit' = "error"
    <3> SUFFICES ASSUME NEW s \in Server, requests'[s] > 0
                 PROVE  shutting'[s] = "error" /\ exit' = "error"
      OBVIOUS
    <3>1. CASE AllOff'
      BY <3>1 DEF AllOff
    <3>2. CASE AllStarted' /\ EverybodyReturned' /\ exit' = WaitResult'
      <4>1. shutting'[s] = "error"
        BY <2>1, <3>2 DEF EverybodyReturned, ServerReturned, Ended
      <4> QED
        BY <3>2, <4>1 DEF EverybodyReturned, WaitResult, AnyRunnerFailed, ServerFailed
    <3> QED
      BY <2>2, <3>1, <3>2
  <2> QED
    BY <2>1, <2>2, <2>3, <2>4, <2>5
<1> QED
  BY <1>1, <1>2, <1>3, <1>4 DEF Run

(* ... and for those of signals, servers, workers and consumers.  After    *)
(* the end of the errgroup nobody but a request takes one.                 *)
LEMMA RunnersRest ==
    ASSUME LifecycleInv, Closing
    PROVE  /\ \A s \in Server : listening[s] # "run" /\ shutting[s] \notin {"run", "drain"}
           /\ \A w \in Worker : working[w] \notin {"run", "busy"}
           /\ \A c \in Consumer : consuming[c] # "run"
BY DEF LifecycleInv, StagesInOrder, AllOff, EverybodyReturned, OutboxReturned, AfcReturned,
   ServerReturned, Ended

LEMMA RunnersStep ==
    ASSUME LifecycleInv, UNCHANGED <<stage, db, stream, exit>>, ~Closing,
           AllStarted => AllStarted', AllOff => AllOff', Drainage'
    PROVE  StagesInOrder' /\ ClosedWhenUnused'
BY DEF LifecycleInv, StagesInOrder, Closing, ClosedWhenUnused

LEMMA LifecycleStep == LifecycleInv /\ [ProcessNext]_processVars => LifecycleInv'
<1> SUFFICES ASSUME LifecycleInv, [ProcessNext]_processVars PROVE LifecycleInv'
  OBVIOUS
<1>1. ProcessTypeOK /\ ProcessTypeOK'
  BY LifecycleTypes DEF LifecycleInv
<1>2. CASE Run
  BY <1>1, <1>2, ProcessRuns
<1>3. CASE Signal \/ Tick \/ Over \/ UNCHANGED processVars
  <2>1. UNCHANGED <<stage, db, stream, exit, listening, shutting, requests, working, consuming>>
    BY <1>3 DEF Signal, Tick, Over, processVars, setup, servers
  <2> QED
    BY <1>1, <2>1, SameRunners
    DEF LifecycleInv, StagesInOrder, Closing, Drainage, ClosedWhenUnused
<1>4. ASSUME NEW s \in Server, Respond(s) PROVE LifecycleInv'
  <2>1. /\ UNCHANGED <<stage, db, stream, exit, listening, shutting, working, consuming>>
        /\ stage # "exited" /\ requests[s] > 0
        /\ requests' = [requests EXCEPT ![s] = @ - 1]
    BY <1>4 DEF Respond, setup
  <2>2. ~AllOff
    BY <2>1 DEF AllOff
  <2>3. StagesInOrder'
    BY <2>1, <2>2, SameRunners DEF LifecycleInv, StagesInOrder, Closing
  <2>4. Drainage' /\ ClosedWhenUnused'
    BY <1>1, <2>1 DEF LifecycleInv, Drainage, ClosedWhenUnused, ProcessTypeOK
  <2> QED
    BY <1>1, <2>3, <2>4 DEF LifecycleInv
<1>5. ASSUME NEW s \in Server, Accept(s) \/ ListenStep(s) \/ ShutdownStep(s) PROVE LifecycleInv'
  <2>1. ~Closing /\ UNCHANGED <<stage, db, stream, exit>>
    BY <1>5, RunnersRest DEF Accept, ListenStep, ListenFails, ServerClosed, ShutdownStep,
       BeginShutdown, Drained, ShutdownTimesOut, setup
  <2>2. (AllStarted => AllStarted') /\ (AllOff => AllOff') /\ Drainage'
    BY <1>1, <1>5 DEF LifecycleInv, Accept, ListenStep, ListenFails, ServerClosed, ShutdownStep,
       BeginShutdown, Drained, ShutdownTimesOut, AllOff, AllStarted, Drainage, ProcessTypeOK
  <2> QED
    BY <1>1, <2>1, <2>2, RunnersStep DEF LifecycleInv
<1>6. ASSUME NEW w \in Worker, WorkerStep(w) PROVE LifecycleInv'
  <2>1. ~Closing /\ UNCHANGED <<stage, db, stream, exit, servers>>
    BY <1>6, RunnersRest DEF WorkerStep, TakeJob, FinishJob, WorkerFails, WorkerStops, setup
  <2>2. (AllStarted => AllStarted') /\ (AllOff => AllOff') /\ Drainage'
    BY <1>1, <1>6, <2>1 DEF LifecycleInv, WorkerStep, TakeJob, FinishJob, WorkerFails, WorkerStops,
       AllOff, AllStarted, Drainage, ProcessTypeOK, servers
  <2> QED
    BY <1>1, <2>1, <2>2, RunnersStep DEF LifecycleInv
<1>7. ASSUME NEW c \in Consumer, ConsumerStops(c) PROVE LifecycleInv'
  <2>1. ~Closing /\ UNCHANGED <<stage, db, stream, exit, servers>>
    BY <1>7, RunnersRest DEF ConsumerStops, setup
  <2>2. (AllStarted => AllStarted') /\ (AllOff => AllOff') /\ Drainage'
    BY <1>1, <1>7, <2>1 DEF LifecycleInv, ConsumerStops, AllOff, AllStarted, Drainage, ProcessTypeOK,
       servers
  <2> QED
    BY <1>1, <2>1, <2>2, RunnersStep DEF LifecycleInv
<1> QED
  BY <1>2, <1>3, <1>4, <1>5, <1>6, <1>7 DEF ProcessNext

(* What has started and what has ended at each stage, and that run closes   *)
(* the event stream and the database under nobody but a request that has   *)
(* outlasted the server's Shutdown.                                        *)
THEOREM LifecycleInvariant == ProcessSpec => []LifecycleInv
<1> QED
  BY LifecycleInit, LifecycleStep, PTL DEF ProcessSpec

(* Whatever the order of signals, errors and timeouts, run returns an error *)
(* exactly when the preparation or a runner has failed.                    *)
THEOREM ExitIsTrue == ProcessSpec => []ExitTellsTheTruth
<1>1. LifecycleInv => ExitTellsTheTruth
  <2> SUFFICES ASSUME LifecycleInv, Closing
               PROVE  exit = "error" <=> \/ NotPrepared
                                         \/ \E s \in Server : ServerFailed(s)
                                         \/ OutboxFailed
    BY DEF ExitTellsTheTruth, Closing
  <2>1. CASE AllOff /\ exit = "error"
    BY <2>1 DEF AllOff, NotPrepared
  <2>2. CASE AllStarted /\ EverybodyReturned /\ exit = WaitResult
    <3>1. ~NotPrepared
      BY <2>2, LifecycleAssumption DEF AllStarted, NotPrepared
    <3>2. AnyRunnerFailed <=> (\E s \in Server : ServerFailed(s)) \/ OutboxFailed
      BY <2>2 DEF AnyRunnerFailed, EverybodyReturned
    <3> QED
      BY <2>2, <3>1, <3>2 DEF WaitResult
  <2> QED
    BY <2>1, <2>2 DEF LifecycleInv, StagesInOrder
<1> QED
  BY <1>1, LifecycleInvariant, PTL
=============================================================================
