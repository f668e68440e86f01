------------------------------ MODULE EventBus ------------------------------
(* The runtime event bus (src/pkg/events): publishers walk a snapshot of the *)
(* subscriptions and put each event in the bounded queue of every one that   *)
(* matches, under the subscription's policy for a full queue; a worker per   *)
(* subscription takes events and calls the handler; subscriptions and the    *)
(* bus are closed at any time, also from a handler.                          *)
(*                                                                           *)
(* The life of a subscription is one phase: "closing" once its closing       *)
(* channel is closed, "closed" once the flag is set under the write lock,    *)
(* "sealed" once its queue is closed.  The readers of its lock are the       *)
(* publishers at "try", "evict" or "retry"; the members of its blockWG those *)
(* at "block".                                                               *)
EXTENDS Integers, Sequences, FiniteSets

CONSTANTS
  Publishers,
  Urgent,        \* the publishers that call PublishNonBlocking
  Subs,
  Policy,        \* [Subs -> {"drop_newest", "drop_oldest", "block"}]
  Once,          \* those made by SubscribeOnce
  Readers,       \* those made by SubscribeChan: no handler, the owner reads
  Buffer         \* capacity of a queue

ASSUME ConstantsAssumption ==
  /\ IsFiniteSet(Publishers)
  /\ Urgent \subseteq Publishers
  /\ Policy \in [Subs -> {"drop_newest", "drop_oldest", "block"}]
  /\ Once \subseteq Subs /\ Readers \subseteq Subs /\ Readers \cap Once = {}
  /\ Buffer \in Nat \ {0}

VARIABLES
  busClosed,   \* EventBus.closed
  order,       \* EventBus.orderedSubs, the registered subscriptions
  toClose,     \* what EventBus.Close has still to close
  phase,       \* [Subs -> {"unborn", "open", "closing", "closed", "sealed"}]
  ch,          \* how many events are in the queue of a subscription
  worker,      \* [Subs -> {"take", "call", "close", "wait", "join", "end"}]
  calls,       \* handler calls running in goroutines of their own
  done,        \* whether Done() is closed
  pending,     \* its counters: received, less dropped, less what was taken
  pc,          \* where a publisher is
  todo,        \* the part of its snapshot still to serve
  concurrent   \* the subscriptions with a goroutine per event; others are Locked

bus == <<busClosed, order, toClose>>
running == <<worker, calls, done>>
publisher == <<pc, todo>>
vars == <<busClosed, order, toClose, phase, ch, worker, calls, done,
          pending, pc, todo, concurrent>>

TypeOK ==
  /\ busClosed \in BOOLEAN
  /\ order \in Seq(Subs) /\ toClose \in Seq(Subs)
  /\ phase \in [Subs -> {"unborn", "open", "closing", "closed", "sealed"}]
  /\ ch \in [Subs -> 0 .. Buffer]
  /\ worker \in [Subs -> {"take", "call", "close", "wait", "join", "end"}]
  /\ calls \in [Subs -> Nat] /\ done \in [Subs -> BOOLEAN]
  /\ pending \in [Subs -> Int]
  /\ pc \in [Publishers -> {"idle", "next", "try", "evict", "retry", "block"}]
  /\ todo \in [Publishers -> Seq(Subs)]
  /\ concurrent \subseteq Subs \ Readers

Init ==
  /\ busClosed = FALSE /\ order = <<>> /\ toClose = <<>>
  /\ phase = [s \in Subs |-> "unborn"]
  /\ ch = [s \in Subs |-> 0]
  /\ worker = [s \in Subs |-> IF s \in Readers THEN "end" ELSE "take"]
  /\ calls = [s \in Subs |-> 0]
  /\ done = [s \in Subs |-> FALSE]
  /\ pending = [s \in Subs |-> 0]
  /\ pc = [p \in Publishers |-> "idle"]
  /\ todo = [p \in Publishers |-> <<>>]
  /\ concurrent \in SUBSET (Subs \ Readers)

Add(counter, s, n) == counter' = [counter EXCEPT ![s] = @ + n]
Enters(s) == Add(ch, s, 1)
Drops(s) == Add(pending, s, -1)
Registered(s) == \E i \in DOMAIN order : order[i] = s
Without(s) ==
  LET i == CHOOSE i \in DOMAIN order : order[i] = s
  IN SubSeq(order, 1, i - 1) \o SubSeq(order, i + 1, Len(order))

InLock(s) == {p \in Publishers : pc[p] \in {"try", "evict", "retry"} /\ Head(todo[p]) = s}
Blocked(s) == {p \in Publishers : pc[p] = "block" /\ Head(todo[p]) = s}

-----------------------------------------------------------------------------
(* Publishing.                                                               *)

(* publish: the snapshot is the slice itself, replaced and never changed by  *)
(* later (un)subscriptions.                                                  *)
Publish(p) ==
  /\ pc[p] = "idle"
  /\ IF busClosed THEN UNCHANGED <<pc, todo>>
     ELSE /\ pc' = [pc EXCEPT ![p] = "next"]
          /\ todo' = [todo EXCEPT ![p] = order]
  /\ UNCHANGED <<concurrent, bus, phase, ch, running, pending>>

PublishReturns(p) ==
  /\ pc[p] = "next" /\ todo[p] = <<>>
  /\ pc' = [pc EXCEPT ![p] = "idle"]
  /\ UNCHANGED <<concurrent, bus, phase, ch, running, pending, todo>>

(* p is through with the subscription it is at.                              *)
Leave(p) ==
  /\ pc' = [pc EXCEPT ![p] = "next"]
  /\ todo' = [todo EXCEPT ![p] = Tail(@)]

(* enqueue: the closed flag is read under the lock, which a publisher that   *)
(* never waits for room keeps until it is through; one that may wait takes   *)
(* the write lock to join blockWG.                                           *)
Enqueue(p) ==
  /\ pc[p] = "next" /\ todo[p] # <<>>
  /\ LET s == Head(todo[p])
         waits == Policy[s] = "block" /\ p \notin Urgent
     IN IF phase[s] \in {"closed", "sealed"}
        THEN Leave(p) /\ UNCHANGED pending
        ELSE /\ waits => InLock(s) = {}
             /\ pc' = [pc EXCEPT ![p] = IF waits THEN "block" ELSE "try"]
             /\ Add(pending, s, 1)
             /\ UNCHANGED todo
  /\ UNCHANGED <<concurrent, bus, phase, ch, running>>

(* enqueueDropNewest, and the first two selects of enqueueDropOldest.        *)
TrySend(p) ==
  /\ pc[p] = "try"
  /\ LET s == Head(todo[p])
         full == ch[s] = Buffer
     IN \/ phase[s] = "closing" /\ Leave(p) /\ UNCHANGED <<ch, pending>>
        \/ /\ phase[s] = "open" /\ ~ full
           /\ Enters(s) /\ Leave(p)
           /\ UNCHANGED pending
        \/ /\ phase[s] = "open" /\ full /\ Policy[s] # "drop_oldest"
           /\ Drops(s) /\ Leave(p)
           /\ UNCHANGED ch
        \/ /\ phase[s] = "open" /\ full /\ Policy[s] = "drop_oldest"
           /\ pc' = [pc EXCEPT ![p] = "evict"]
           /\ UNCHANGED <<ch, pending, todo>>
  /\ UNCHANGED <<concurrent, bus, phase, running>>

(* The evicted event would go uncounted.                                     *)
EvictUncounted(p) ==
  /\ pc[p] = "evict"
  /\ ch' = [ch EXCEPT ![Head(todo[p])] = IF @ = 0 THEN 0 ELSE @ - 1]
  /\ pc' = [pc EXCEPT ![p] = "retry"]
  /\ UNCHANGED <<concurrent, bus, phase, running, pending, todo>>

(* enqueueDropOldest: drop the oldest event, if there still is one.          *)
Evict(p) ==
  /\ pc[p] = "evict"
  /\ LET s == Head(todo[p])
     IN IF ch[s] = 0 THEN UNCHANGED <<ch, pending>>
        ELSE Add(ch, s, -1) /\ Drops(s)
  /\ pc' = [pc EXCEPT ![p] = "retry"]
  /\ UNCHANGED <<concurrent, bus, phase, running, todo>>

(* Its last select; the default drops the event being published.             *)
Retry(p) ==
  /\ pc[p] = "retry"
  /\ LET s == Head(todo[p])
         full == ch[s] = Buffer
     IN \/ phase[s] = "closing" /\ UNCHANGED <<ch, pending>>
        \/ ~ full /\ Enters(s) /\ UNCHANGED pending
        \/ full /\ phase[s] = "open" /\ Drops(s) /\ UNCHANGED ch
  /\ Leave(p)
  /\ UNCHANGED <<concurrent, bus, phase, running>>

(* enqueueBlock: room, a closing subscription, or a context that ends.       *)
BlockedSends(p) ==
  /\ pc[p] = "block" /\ ch[Head(todo[p])] < Buffer
  /\ Enters(Head(todo[p]))
  /\ Leave(p)
  /\ UNCHANGED <<concurrent, bus, phase, running, pending>>

(* A publisher waiting for room that does not watch the closing channel.     *)
BlockedWaitsOn(p) ==
  /\ pc[p] = "block" /\ phase[Head(todo[p])] = "sealed"
  /\ Leave(p)
  /\ UNCHANGED <<concurrent, bus, phase, ch, running, pending>>

BlockedIsReleased(p) ==
  /\ pc[p] = "block" /\ phase[Head(todo[p])] \in {"closing", "closed", "sealed"}
  /\ Leave(p)
  /\ UNCHANGED <<concurrent, bus, phase, ch, running, pending>>

BlockedIsCanceled(p) ==
  /\ pc[p] = "block"
  /\ Drops(Head(todo[p]))
  /\ Leave(p)
  /\ UNCHANGED <<concurrent, bus, phase, ch, running>>

-----------------------------------------------------------------------------
(* Subscribing and closing.                                                  *)

Subscribe(s) ==
  /\ phase[s] = "unborn" /\ ~ busClosed
  /\ phase' = [phase EXCEPT ![s] = "open"]
  /\ order' = Append(order, s)
  /\ UNCHANGED <<concurrent, busClosed, toClose, ch, running, pending, publisher>>

(* unsubscribe, then the start of closeInput: by the owner, by the watcher   *)
(* of its context, or by the worker of a SubscribeOnce.                      *)
Unsubscribe(s) ==
  /\ Registered(s)
  /\ order' = Without(s)
  /\ phase' = [phase EXCEPT ![s] = "closing"]

Close(s) ==
  /\ Unsubscribe(s)
  /\ UNCHANGED <<concurrent, busClosed, toClose, ch, running, pending, publisher>>

BusClose ==
  /\ ~ busClosed
  /\ busClosed' = TRUE
  /\ toClose' = order /\ order' = <<>>
  /\ UNCHANGED <<concurrent, phase, ch, running, pending, publisher>>

(* EventBus.Close closes one subscription after the other.                   *)
BusCloseNext ==
  /\ toClose # <<>> /\ phase[Head(toClose)] = "open"
  /\ phase' = [phase EXCEPT ![Head(toClose)] = "closing"]
  /\ UNCHANGED <<concurrent, bus, ch, running, pending, publisher>>

BusCloseNextDone ==
  /\ toClose # <<>> /\ phase[Head(toClose)] = "sealed"
  /\ toClose' = Tail(toClose)
  /\ UNCHANGED <<concurrent, busClosed, order, phase, ch, running, pending,
                 publisher>>

(* closeInput: the flag, under the write lock ...                            *)
SetClosed(s) ==
  /\ phase[s] = "closing" /\ InLock(s) = {}
  /\ phase' = [phase EXCEPT ![s] = "closed"]
  /\ UNCHANGED <<concurrent, bus, ch, running, pending, publisher>>

(* A closeInput that does not wait for blockWG.                              *)
SealAtOnce(s) ==
  /\ phase[s] = "closed"
  /\ phase' = [phase EXCEPT ![s] = "sealed"]
  /\ done' = [done EXCEPT ![s] = @ \/ s \in Readers]
  /\ UNCHANGED <<concurrent, bus, ch, worker, calls, pending, publisher>>

(* ... and the queue, once the publishers waiting for room have left.        *)
Seal(s) ==
  /\ phase[s] = "closed" /\ Blocked(s) = {}
  /\ phase' = [phase EXCEPT ![s] = "sealed"]
  /\ done' = [done EXCEPT ![s] = @ \/ s \in Readers]
  /\ UNCHANGED <<concurrent, bus, ch, worker, calls, pending, publisher>>

-----------------------------------------------------------------------------
(* Handling.                                                                 *)

Pops(s) ==
  /\ ch[s] > 0
  /\ Add(ch, s, -1)
  /\ Add(pending, s, -1)

(* The owner of a SubscribeChan reads, or never does.                        *)
Read(s) ==
  /\ s \in Readers /\ Pops(s)
  /\ UNCHANGED <<concurrent, bus, phase, worker, calls, done, publisher>>

WorkerGoes(s, place) == worker' = [worker EXCEPT ![s] = place]
AfterDispatch(s) == WorkerGoes(s, IF s \in Once THEN "close" ELSE "take")

Dispatch(s) ==
  /\ worker[s] = "take" /\ Pops(s)
  /\ IF s \in concurrent THEN AfterDispatch(s) /\ Add(calls, s, 1)
                         ELSE WorkerGoes(s, "call") /\ UNCHANGED calls
  /\ UNCHANGED <<concurrent, bus, phase, done, publisher>>

(* The handler returns, panics and is recovered, or times out.               *)
HandlerReturns(s) ==
  /\ worker[s] = "call"
  /\ AfterDispatch(s)
  /\ UNCHANGED <<concurrent, bus, phase, ch, calls, done, pending, publisher>>

CallReturns(s) ==
  /\ calls[s] > 0
  /\ calls' = [calls EXCEPT ![s] = @ - 1]
  /\ UNCHANGED <<concurrent, bus, phase, ch, worker, done, pending, publisher>>

(* run, once: the worker closes its own subscription, and waits for that     *)
(* only if nobody else was first.                                            *)
OnceCloses(s) ==
  /\ worker[s] = "close"
  /\ IF Registered(s) THEN Unsubscribe(s) /\ WorkerGoes(s, "wait")
     ELSE WorkerGoes(s, "join") /\ UNCHANGED <<order, phase>>
  /\ UNCHANGED <<concurrent, busClosed, toClose, ch, calls, done, pending,
                 publisher>>

OnceClosed(s) ==
  /\ worker[s] = "wait" /\ phase[s] = "sealed"
  /\ WorkerGoes(s, "join")
  /\ UNCHANGED <<concurrent, bus, phase, ch, calls, done, pending, publisher>>

EndOfInput(s) ==
  /\ worker[s] = "take" /\ ch[s] = 0 /\ phase[s] = "sealed"
  /\ WorkerGoes(s, "join")
  /\ UNCHANGED <<concurrent, bus, phase, ch, calls, done, pending, publisher>>

(* A run that does not wait for the goroutines it started.                   *)
JoinNobody(s) ==
  /\ worker[s] = "join"
  /\ done' = [done EXCEPT ![s] = TRUE]
  /\ WorkerGoes(s, "end")
  /\ UNCHANGED <<concurrent, bus, phase, ch, calls, pending, publisher>>

Join(s) ==
  /\ worker[s] = "join" /\ calls[s] = 0
  /\ done' = [done EXCEPT ![s] = TRUE]
  /\ WorkerGoes(s, "end")
  /\ UNCHANGED <<concurrent, bus, phase, ch, calls, pending, publisher>>

-----------------------------------------------------------------------------
(* The steps of a publisher that do not wait for anybody's decision.         *)
PublisherStep(p) ==
  \/ PublishReturns(p) \/ Enqueue(p) \/ TrySend(p) \/ Evict(p) \/ Retry(p)
  \/ BlockedSends(p) \/ BlockedIsReleased(p)

ClosingStep(s) == SetClosed(s) \/ Seal(s)

WorkerStep(s) ==
  \/ Dispatch(s) \/ HandlerReturns(s) \/ OnceCloses(s) \/ OnceClosed(s)
  \/ EndOfInput(s) \/ Join(s)

Next ==
  \/ \E p \in Publishers : Publish(p) \/ PublisherStep(p) \/ BlockedIsCanceled(p)
  \/ \E s \in Subs : \/ Subscribe(s) \/ Close(s) \/ ClosingStep(s)
                     \/ Read(s) \/ WorkerStep(s) \/ CallReturns(s)
  \/ BusClose \/ BusCloseNext \/ BusCloseNextDone

Spec == Init /\ [][Next]_vars

(* Runnable goroutines run, handlers return (or time out), and a Close that  *)
(* has begun goes on.  Nobody has to publish, read, cancel or close.         *)
Fairness ==
  /\ \A p \in Publishers : WF_vars(PublisherStep(p))
  /\ \A s \in Subs : WF_vars(ClosingStep(s))
  /\ \A s \in Subs \ Readers : WF_vars(WorkerStep(s)) /\ WF_vars(CallReturns(s))
  /\ WF_vars(BusCloseNext \/ BusCloseNextDone)

LiveSpec == Spec /\ Fairness

-----------------------------------------------------------------------------
(* Nobody can be about to send on a queue that closeInput has closed: that   *)
(* would be a panic in the publisher (subscription.go:334).                  *)
NoSendOnClosed ==
  \A s \in Subs : phase[s] = "sealed" => InLock(s) \cup Blocked(s) = {}

(* Every event counted as received by an open subscription was taken, is     *)
(* queued, was counted as dropped (by whoever evicted it), or is in the      *)
(* hands of a publisher (subscription.go:455).                               *)
EveryEventAccounted ==
  \A s \in Subs : phase[s] = "open" =>
    pending[s] = ch[s] + Cardinality(InLock(s) \cup Blocked(s))

(* After Done no handler call runs that the worker waits for, and none will  *)
(* start: a call that timed out may run on (subscription.go:178, 213).       *)
DoneMeansDone ==
  [][\A s \in Subs \ Readers : done[s] => /\ calls[s] = 0 /\ worker[s] = "end"
                                          /\ worker'[s] = "end" /\ done'[s]]_vars

(* A close that has begun ends in Done, also one a handler asks for and one  *)
(* of a bus with other subscriptions, and leaves no publisher waiting        *)
(* (subscription.go:334, bus.go:118).                                        *)
CloseEnds ==
  []<>(\A s \in Subs :
         phase[s] \in {"closing", "closed", "sealed"} \/ (phase[s] = "open" /\ busClosed)
           => done[s])
=============================================================================
