----------------------------- MODULE EventStream -----------------------------
(***************************************************************************)
(* The in-memory event stream (internal/services/event-stream/in-mem):     *)
(* Subscribe, Publish and Close under one mutex, a buffered channel per     *)
(* subscriber, and the slice of subscribers of a user, from which Publish  *)
(* removes elements in place while it ranges over it.                      *)
(***************************************************************************)
EXTENDS Naturals, Sequences, FiniteSets

CONSTANTS
    User,
    Subscriber,     \* calls of Subscribe, and the client each one returns
    Publication,    \* calls of Publish, and the event each one carries
    SubscriberOf,   \* the user of a subscriber
    Addressee,      \* the user of a publication
    Invalid,        \* publications whose event does not validate
    Cap,            \* capacity of a client's channel (1024 in the code)
    Nobody          \* the mutex is free

ASSUME EventStreamAssumption ==
    /\ SubscriberOf \in [Subscriber -> User]
    /\ Addressee \in [Publication -> User]
    /\ Invalid \subseteq Publication
    /\ Cap \in Nat \ {0}
    /\ Nobody \notin Publication

VARIABLES
    arr,        \* backing array of clients.items[u]
    len,        \* length of the slice clients.items[u]
    ctx,        \* context of a subscriber: "none" before Subscribe, "live", "done"
    ch,         \* what a client's channel holds
    got,        \* what its reader has received
    closes,     \* how many times its channel was closed
    mu,         \* the publication that holds Service.mu, or Nobody
    closed,     \* Service.closed
    closing,    \* Close: "no", "waiting" for the WaitGroup, "returned"
    pc,         \* where a call of Publish is
    k,          \* index of the range loop of a Publish
    n,          \* length of the slice the loop ranges over
    result,     \* what a Publish has returned
    published,  \* history: the events of a user in the order of the mutex
    since       \* history: Len(published) when a subscriber joined

clients == <<arr, len>>
readers == <<ctx, ch, got, closes>>
calls   == <<pc, k, n, result>>
vars    == <<clients, readers, mu, closed, closing, calls, published, since>>

PC == {"idle", "lock", "visit", "full", "ended"}

TypeOK ==
    /\ arr \in [User -> Seq(Subscriber)]
    /\ len \in [User -> Nat] /\ \A u \in User : len[u] <= Len(arr[u])
    /\ ctx \in [Subscriber -> {"none", "live", "done"}]
    /\ ch \in [Subscriber -> Seq(Publication)]
    /\ \A s \in Subscriber : Len(ch[s]) <= Cap
    /\ got \in [Subscriber -> Seq(Publication)]
    /\ closes \in [Subscriber -> Nat]
    /\ mu \in Publication \cup {Nobody}
    /\ closed \in BOOLEAN
    /\ closing \in {"no", "waiting", "returned"}
    /\ pc \in [Publication -> PC]
    /\ k \in [Publication -> Nat]
    /\ n \in [Publication -> Nat]
    /\ result \in [Publication -> {"none", "ok", "closed", "invalid"}]
    /\ published \in [User -> Seq(Publication)]
    /\ since \in [Subscriber -> Nat]

Init ==
    /\ arr = [u \in User |-> <<>>] /\ len = [u \in User |-> 0]
    /\ ctx = [s \in Subscriber |-> "none"]
    /\ ch = [s \in Subscriber |-> <<>>] /\ got = [s \in Subscriber |-> <<>>]
    /\ closes = [s \in Subscriber |-> 0]
    /\ mu = Nobody /\ closed = FALSE /\ closing = "no"
    /\ pc = [p \in Publication |-> "idle"]
    /\ k = [p \in Publication |-> 0] /\ n = [p \in Publication |-> 0]
    /\ result = [p \in Publication |-> "none"]
    /\ published = [u \in User |-> <<>>]
    /\ since = [s \in Subscriber |-> 0]

-----------------------------------------------------------------------------
(* clients.items: the slice of a user is the first len[u] cells of arr[u].  *)

Registered(u) == {arr[u][i] : i \in 1..len[u]}

(* clients.add: append, to a new array if the user was deleted. *)
Add(s) ==
    LET u == SubscriberOf[s] IN
    /\ arr' = [arr EXCEPT ![u] = Append(SubSeq(@, 1, len[u]), s)]
    /\ len' = [len EXCEPT ![u] = @ + 1]

(* Mutant: the slice is shortened, the removed element keeps its cell. *)
LeaveCell(u, i) == arr[u]

(* The helper remove: the last element of the slice takes the cell.  The   *)
(* array is shared with the loop that ranges over it.                      *)
SwapLast(u, i) == [arr[u] EXCEPT ![i] = arr[u][len[u]]]

(* clients.remove *)
Remove(s) ==
    LET u == SubscriberOf[s]
        at == {i \in 1..len[u] : arr[u][i] = s} IN
    IF at = {} THEN UNCHANGED <<arr, len, closes>>
    ELSE /\ \E i \in at : arr' = [arr EXCEPT ![u] = SwapLast(u, i)]
         /\ len' = [len EXCEPT ![u] = @ - 1]
         /\ closes' = [closes EXCEPT ![s] = @ + Cardinality(at)]

-----------------------------------------------------------------------------
(* Service.Subscribe *)
Subscribe(s) ==
    /\ ctx[s] = "none"
    /\ mu = Nobody /\ ~closed
    /\ Add(s)
    /\ ctx' = [ctx EXCEPT ![s] = "live"]
    /\ since' = [since EXCEPT ![s] = Len(published[SubscriberOf[s]])]
    /\ UNCHANGED <<ch, got, closes, mu, closed, closing, calls, published>>

(* The subscriber's context ends; nobody tells the stream. *)
Leave(s) ==
    /\ ctx[s] = "live"
    /\ ctx' = [ctx EXCEPT ![s] = "done"]
    /\ UNCHANGED <<clients, ch, got, closes, mu, closed, closing, calls, published, since>>

(* The subscriber receives from its channel. *)
Receive(s) ==
    /\ ch[s] # <<>>
    /\ got' = [got EXCEPT ![s] = Append(@, Head(ch[s]))]
    /\ ch' = [ch EXCEPT ![s] = Tail(@)]
    /\ UNCHANGED <<clients, ctx, closes, mu, closed, closing, calls, published, since>>

-----------------------------------------------------------------------------
(* Service.Publish *)

GoTo(p, l) == pc' = [pc EXCEPT ![p] = l]
Return(p, r) == GoTo(p, "ended") /\ result' = [result EXCEPT ![p] = r]

(* wg.Add and the validation of the event.  wg.Add is not ordered with the *)
(* wg.Wait of Close; that sync.WaitGroup may take this for misuse and      *)
(* panic, in the instant its counter is zero, is left out.                 *)
Enter(p) ==
    /\ pc[p] = "idle"
    /\ IF p \in Invalid THEN Return(p, "invalid")
       ELSE GoTo(p, "lock") /\ UNCHANGED result
    /\ UNCHANGED <<clients, readers, mu, closed, closing, k, n, published, since>>

(* Mutant: the test of closed is forgotten. *)
NeverRefused == FALSE
Refused == closed

(* mu.Lock, the test of closed and the start of the loop. *)
Lock(p) ==
    /\ pc[p] = "lock"
    /\ IF Refused
       THEN mu = Nobody /\ UNCHANGED mu /\ Return(p, "closed") /\ UNCHANGED <<k, n, published>>
       ELSE /\ mu = Nobody /\ mu' = p
            /\ GoTo(p, "visit")
            /\ k' = [k EXCEPT ![p] = 1]
            /\ n' = [n EXCEPT ![p] = len[Addressee[p]]]
            /\ published' = [published EXCEPT ![Addressee[p]] = Append(@, p)]
            /\ UNCHANGED result
    /\ UNCHANGED <<clients, readers, closed, closing, since>>

Visited(p) == arr[Addressee[p]][k[p]]
NextClient(p) == k' = [k EXCEPT ![p] = @ + 1] /\ GoTo(p, "visit")
(* Mutant: sent again when the timer fires. *)
DeliverTwice(p, s) == ch' = [ch EXCEPT ![s] = @ \o <<p, p>>]
Deliver(p, s) == ch' = [ch EXCEPT ![s] = Append(@, p)]

(* The context of the visited client is done: it is removed. *)
DropDone(p) ==
    /\ pc[p] = "visit" /\ k[p] <= n[p]
    /\ ctx[Visited(p)] = "done"
    /\ Remove(Visited(p))
    /\ NextClient(p)
    /\ UNCHANGED <<ctx, ch, got, mu, closed, closing, n, result, published, since>>

(* Its channel has room: the event is sent.  (The timer of a second is      *)
(* taken not to fire between its creation and the select that follows.)    *)
Send(p) ==
    /\ pc[p] = "visit" /\ k[p] <= n[p]
    /\ ctx[Visited(p)] # "done" /\ Len(ch[Visited(p)]) < Cap
    /\ Deliver(p, Visited(p))
    /\ NextClient(p)
    /\ UNCHANGED <<clients, ctx, got, closes, mu, closed, closing, n, result,
                   published, since>>

(* Its channel is full: wait for room or for the timer. *)
Block(p) ==
    /\ pc[p] = "visit" /\ k[p] <= n[p]
    /\ ctx[Visited(p)] # "done" /\ Len(ch[Visited(p)]) = Cap
    /\ GoTo(p, "full")
    /\ UNCHANGED <<clients, readers, mu, closed, closing, k, n, result, published, since>>

SendLate(p) ==
    /\ pc[p] = "full" /\ Len(ch[Visited(p)]) < Cap
    /\ Deliver(p, Visited(p))
    /\ NextClient(p)
    /\ UNCHANGED <<clients, ctx, got, closes, mu, closed, closing, n, result,
                   published, since>>

RemoveSlow(s) == Remove(s)

(* One second later the client is removed and its channel closed. *)
DropSlow(p) ==
    /\ pc[p] = "full"
    /\ RemoveSlow(Visited(p))
    /\ NextClient(p)
    /\ UNCHANGED <<ctx, ch, got, mu, closed, closing, n, result, published, since>>

Unlock(p) == mu' = Nobody

(* The deferred Unlock and wg.Done. *)
Finish(p) ==
    /\ pc[p] = "visit" /\ k[p] > n[p]
    /\ Return(p, "ok")
    /\ Unlock(p)
    /\ UNCHANGED <<clients, readers, closed, closing, k, n, published, since>>

-----------------------------------------------------------------------------
(* Service.Close: refuse what comes later, then wait for the WaitGroup.    *)
CloseStream ==
    /\ closing = "no" /\ mu = Nobody
    /\ closed' = TRUE /\ closing' = "waiting"
    /\ UNCHANGED <<clients, readers, mu, calls, published, since>>

(* Mutant: a Publish of an invalid event returns without wg.Done. *)
WaitGroupLeaks ==
    \A p \in Publication : pc[p] = "idle" \/ (pc[p] = "ended" /\ result[p] # "invalid")
NobodyPublishes == \A p \in Publication : pc[p] \in {"idle", "ended"}

CloseReturns ==
    /\ closing = "waiting"
    /\ NobodyPublishes
    /\ closing' = "returned"
    /\ UNCHANGED <<clients, readers, mu, closed, calls, published, since>>

PublishStep(p) ==
    \/ Enter(p) \/ Lock(p) \/ DropDone(p) \/ Send(p) \/ Block(p)
    \/ SendLate(p) \/ DropSlow(p) \/ Finish(p)

(* All calls have returned and all readers have left. *)
AllDone ==
    /\ closing = "returned" /\ \A p \in Publication : pc[p] = "ended"
    /\ \A s \in Subscriber : ctx[s] # "live" /\ ch[s] = <<>>

Next ==
    \/ \E s \in Subscriber : Subscribe(s) \/ Leave(s) \/ Receive(s)
    \/ \E p \in Publication : PublishStep(p)
    \/ CloseStream \/ CloseReturns
    \/ AllDone /\ UNCHANGED vars

Spec == Init /\ [][Next]_vars

(***************************************************************************)
(* A publisher runs on, its timer fires, and it gets the mutex even when   *)
(* others want it: sync.Mutex hands itself to a waiter that has starved.   *)
(* Readers owe nothing.                                                    *)
(***************************************************************************)
LiveSpec ==
    /\ Spec
    /\ \A p \in Publication : WF_vars(PublishStep(p)) /\ SF_vars(Lock(p))
    /\ WF_vars(CloseReturns)

-----------------------------------------------------------------------------
(* Properties.                                                             *)

Stream(s) == got[s] \o ch[s]

(* Every subscriber sees a window of its user's events: from the one after *)
(* it joined, in the order of publication, none missing and none twice,    *)
(* until it is dropped -- although Publish removes clients from the slice  *)
(* it is ranging over.                                                     *)
StreamIsWindow ==
    \A s \in Subscriber :
        LET all == published[SubscriberOf[s]] IN
        /\ since[s] + Len(Stream(s)) <= Len(all)
        /\ Stream(s) = SubSeq(all, since[s] + 1, since[s] + Len(Stream(s)))

(* How many events of its user a subscriber has not been sent yet. *)
Lacks(s) == Len(published[SubscriberOf[s]]) - since[s] - Len(Stream(s))

(* A subscriber is missing nothing while it is registered and nobody holds *)
(* the mutex: a publication in progress is the only one it can be behind.  *)
RegisteredIsCurrent ==
    \A s \in Subscriber :
        s \in Registered(SubscriberOf[s]) =>
            \/ Lacks(s) = 0
            \/ Lacks(s) = 1 /\ mu # Nobody /\ Addressee[mu] = SubscriberOf[s]

(* A channel is closed exactly when its client leaves the slice: closing   *)
(* twice and sending on a closed channel both panic.                       *)
ClosedOnce ==
    \A s \in Subscriber :
        closes[s] = IF ctx[s] # "none" /\ s \notin Registered(SubscriberOf[s])
                    THEN 1 ELSE 0

NoSendOnClosed ==
    \A p \in Publication :
        pc[p] \in {"visit", "full"} /\ k[p] <= n[p] => closes[Visited(p)] = 0

(* The slices hold clients of their users, each once; who has not          *)
(* subscribed has received nothing.                                        *)
SlicesAreSets ==
    /\ \A u \in User : \A i \in 1..len[u] :
          /\ SubscriberOf[arr[u][i]] = u /\ ctx[arr[u][i]] # "none"
          /\ \A j \in 1..len[u] : arr[u][i] = arr[u][j] => i = j
    /\ \A s \in Subscriber : ctx[s] = "none" => Stream(s) = <<>>

(* One Publish at a time is in its loop, and none once Close has returned. *)
OneLoop ==
    /\ \A p \in Publication : pc[p] \in {"visit", "full"} <=> mu = p
    /\ \A p \in Publication : pc[p] = "full" => k[p] <= n[p]
    /\ closing # "no" => closed
    /\ closing = "returned" => mu = Nobody

(* The loop in progress has still to come to a subscriber. *)
Ahead(s) ==
    \E p \in Publication :
        /\ mu = p /\ Addressee[p] = SubscriberOf[s]
        /\ \E i \in k[p]..n[p] : arr[Addressee[p]][i] = s

(* Removals overwrite cells that the loop has passed: what is ahead of it  *)
(* are clients still registered, each in one cell, and they are the ones   *)
(* that lack the event.                                                    *)
LoopMissesNobody ==
    \A p \in Publication : pc[p] \in {"visit", "full"} =>
        LET u == Addressee[p] IN
        /\ k[p] >= 1 /\ len[u] <= n[p] /\ n[p] <= Len(arr[u])
        /\ \A i \in k[p]..n[p] :
              /\ arr[u][i] \in Registered(u)
              /\ \A j \in k[p]..n[p] : arr[u][i] = arr[u][j] => i = j
        /\ published[u] # <<>> /\ published[u][Len(published[u])] = p

OnlyAheadLack ==
    \A s \in Subscriber :
        s \in Registered(SubscriberOf[s]) => Lacks(s) = IF Ahead(s) THEN 1 ELSE 0

EventStreamInv ==
    /\ TypeOK
    /\ SlicesAreSets /\ OneLoop /\ LoopMissesNobody /\ OnlyAheadLack
    /\ ClosedOnce /\ NoSendOnClosed /\ RegisteredIsCurrent
    /\ StreamIsWindow

(* After Close has returned no event reaches a channel. *)
QuietAfterClose ==
    [][closing = "returned" =>
         \A s \in Subscriber : Len(Stream(s)') = Len(Stream(s))]_vars

(* A Publish that was called returns, whatever its readers do, and with    *)
(* the publishers gone Close returns.                                      *)
PublishReturns == \A p \in Publication : pc[p] # "idle" ~> pc[p] = "ended"
CloseFinishes == closing = "waiting" ~> closing = "returned"
CallsReturn == PublishReturns /\ CloseFinishes
=============================================================================
