--------------------------- MODULE EventBusProof ---------------------------
(* The safety of the event bus for any publishers, subscriptions, policies   *)
(* and buffers.  What a publisher that stands in the lock of a subscription  *)
(* or waits for room in its queue may rely on (Reliance), and the count of   *)
(* the events it holds (Accounted), carry the rest.                          *)
EXTENDS EventBus, FiniteSetTheorems, SequenceTheorems, TLAPS

Held(s) == InLock(s) \cup Blocked(s)

(* A publisher that is at a subscription has it at the head of its list.     *)
AtWork == \A p \in Publishers : pc[p] \notin {"idle", "next"} => todo[p] # <<>>

(* The write lock of closeInput keeps the flag away from whoever is in the   *)
(* lock, and blockWG the end of the queue from whoever waits for room.       *)
Reliance ==
  \A s \in Subs :
    /\ phase[s] \in {"closed", "sealed"} => InLock(s) = {}
    /\ phase[s] = "sealed" => Blocked(s) = {}

Accounted ==
  \A s \in Subs : phase[s] \in {"unborn", "open"} =>
    pending[s] = ch[s] + Cardinality(Held(s))

Finished ==
  \A s \in Subs \ Readers : done[s] => worker[s] = "end" /\ calls[s] = 0

IInv == TypeOK /\ AtWork /\ Reliance /\ Accounted /\ Finished

-----------------------------------------------------------------------------
LEMMA HeadOfTodo ==
  ASSUME TypeOK, NEW p \in Publishers, todo[p] # <<>>
  PROVE  Head(todo[p]) \in Subs /\ Tail(todo[p]) \in Seq(Subs)
<1>1. todo[p] \in Seq(Subs) BY DEF TypeOK
<1> QED BY <1>1, HeadTailProperties

LEMMA LeaveType ==
  ASSUME TypeOK, AtWork, NEW p \in Publishers, todo[p] # <<>>, Leave(p)
  PROVE  /\ pc' \in [Publishers -> {"idle", "next", "try", "evict", "retry", "block"}]
         /\ todo' \in [Publishers -> Seq(Subs)]
         /\ AtWork'
<1>1. Tail(todo[p]) \in Seq(Subs) BY HeadOfTodo
<1> DEFINE r == Tail(todo[p])
<1>2. todo' = [todo EXCEPT ![p] = r] /\ pc' = [pc EXCEPT ![p] = "next"] BY DEF Leave
<1> HIDE DEF r
<1>3. todo' \in [Publishers -> Seq(Subs)] BY <1>1, <1>2 DEF TypeOK, r
<1> QED BY <1>2, <1>3 DEF TypeOK, AtWork

LEMMA WithoutType == ASSUME TypeOK, NEW s \in Subs, Registered(s) PROVE Without(s) \in Seq(Subs)
<1> DEFINE i == CHOOSE i \in DOMAIN order : order[i] = s
<1>1. i \in 1 .. Len(order) BY DEF TypeOK, Registered
<1> HIDE DEF i
<1>2. SubSeq(order, 1, i - 1) \in Seq(Subs) /\ SubSeq(order, i + 1, Len(order)) \in Seq(Subs)
  <2>1. \A k \in 1 .. i - 1 : order[k] \in Subs BY <1>1 DEF TypeOK
  <2>2. \A k \in i + 1 .. Len(order) : order[k] \in Subs BY <1>1 DEF TypeOK
  <2>3. i \in Int /\ Len(order) \in Int BY <1>1 DEF TypeOK
  <2> QED BY <2>1, <2>2, <2>3, SubSeqProperties
<1> QED BY <1>2, ConcatProperties DEF Without, i

(* One lemma per actor: what it does keeps the types.                        *)
LEMMA PublisherType ==
  ASSUME TypeOK, AtWork, NEW p \in Publishers,
         Publish(p) \/ PublisherStep(p) \/ BlockedIsCanceled(p)
  PROVE  TypeOK' /\ AtWork'
<1> DEFINE s == Head(todo[p])
<1>0. todo[p] # <<>> => s \in Subs BY HeadOfTodo
<1>a. pc[p] \in {"try", "evict", "retry", "block"} => todo[p] # <<>> BY DEF AtWork
<1>b. Leave(p) /\ todo[p] # <<>> =>
        /\ pc' \in [Publishers -> {"idle", "next", "try", "evict", "retry", "block"}]
        /\ todo' \in [Publishers -> Seq(Subs)]
        /\ AtWork'
  BY LeaveType
<1>c. pc' = [pc EXCEPT ![p] = "evict"] \/ pc' = [pc EXCEPT ![p] = "retry"]
        \/ pc' = [pc EXCEPT ![p] = "try"] \/ pc' = [pc EXCEPT ![p] = "block"] =>
      /\ pc' \in [Publishers -> {"idle", "next", "try", "evict", "retry", "block"}]
      /\ todo[p] # <<>> /\ UNCHANGED todo => AtWork'
  BY DEF TypeOK, AtWork
<1>d. ch[s] = Buffer \/ s \notin Subs \/ ch[s] + 1 \in 0 .. Buffer
  BY ConstantsAssumption DEF ConstantsAssumption, TypeOK
<1>e. ch[s] = 0 \/ s \notin Subs \/ ch[s] + -1 \in 0 .. Buffer
  BY ConstantsAssumption DEF ConstantsAssumption, TypeOK
<1>f. \A n \in 0 .. Buffer : ch' = [ch EXCEPT ![s] = n] => ch' \in [Subs -> 0 .. Buffer]
  BY DEF TypeOK
<1>g. Enters(s) /\ s \in Subs /\ ch[s] # Buffer => ch' \in [Subs -> 0 .. Buffer]
  BY <1>d, <1>f DEF Enters, Add
<1>h. Add(ch, s, -1) /\ s \in Subs /\ ch[s] # 0 => ch' \in [Subs -> 0 .. Buffer]
  BY <1>e, <1>f DEF Add
<1>i. Drops(s) \/ Add(pending, s, 1) => pending' \in [Subs -> Int]
  BY DEF Drops, Add, TypeOK
<1> HIDE DEF s
<1> USE DEF bus, running, publisher
<1>1. CASE Publish(p) BY <1>1 DEF Publish, TypeOK, AtWork
<1>2. CASE PublishReturns(p) BY <1>2 DEF PublishReturns, TypeOK, AtWork
<1>3. CASE Enqueue(p)
  BY <1>3, <1>0, <1>b, <1>c, <1>i DEF Enqueue, s, TypeOK
<1>4. CASE TrySend(p)
  BY <1>4, <1>0, <1>a, <1>b, <1>c, <1>g, <1>i DEF TrySend, s, TypeOK
<1>5. CASE Evict(p)
  BY <1>5, <1>0, <1>a, <1>c, <1>h, <1>i DEF Evict, s, TypeOK
<1>6. CASE Retry(p)
  BY <1>6, <1>0, <1>a, <1>b, <1>g, <1>i DEF Retry, s, TypeOK
<1>7. CASE BlockedSends(p)
  <2>1. ch[s] # Buffer BY <1>7, ConstantsAssumption DEF BlockedSends, s, ConstantsAssumption
  <2> QED BY <1>7, <2>1, <1>0, <1>a, <1>b, <1>g DEF BlockedSends, s, TypeOK
<1>8. CASE BlockedIsReleased(p) BY <1>8, <1>0, <1>a, <1>b DEF BlockedIsReleased, TypeOK
<1>9. CASE BlockedIsCanceled(p)
  BY <1>9, <1>0, <1>a, <1>b, <1>i DEF BlockedIsCanceled, s, TypeOK
<1> QED BY <1>1, <1>2, <1>3, <1>4, <1>5, <1>6, <1>7, <1>8, <1>9 DEF PublisherStep

LEMMA SubscriptionType ==
  ASSUME TypeOK, AtWork, NEW s \in Subs,
         Subscribe(s) \/ Close(s) \/ ClosingStep(s) \/ Read(s) \/ WorkerStep(s) \/ CallReturns(s)
  PROVE  TypeOK' /\ AtWork'
<1>0. Registered(s) => Without(s) \in Seq(Subs) BY WithoutType
<1> USE ConstantsAssumption DEF TypeOK, AtWork, bus, running, publisher, Add, Pops, WorkerGoes, AfterDispatch
<1>1. CASE Subscribe(s) BY <1>1 DEF Subscribe
<1>2. CASE Close(s) BY <1>2, <1>0 DEF Close, Unsubscribe
<1>3. CASE SetClosed(s) BY <1>3 DEF SetClosed
<1>4. CASE Seal(s) BY <1>4 DEF Seal
<1>5. CASE Read(s)
  <2>1. ch[s] - 1 \in 0 .. Buffer BY <1>5 DEF Read, ConstantsAssumption
  <2>2. ch' \in [Subs -> 0 .. Buffer] /\ pending' \in [Subs -> Int]
    BY <1>5, <2>1 DEF Read
  <2>3. AtWork' BY <1>5 DEF Read
  <2> QED BY <1>5, <2>2, <2>3 DEF Read
<1>6. CASE Dispatch(s)
  <2>1. ch[s] - 1 \in 0 .. Buffer /\ pending[s] - 1 \in Int /\ calls[s] + 1 \in Nat
    BY <1>6 DEF Dispatch, ConstantsAssumption
  <2>2. ch' \in [Subs -> 0 .. Buffer] /\ pending' \in [Subs -> Int]
    BY <1>6, <2>1 DEF Dispatch
  <2>3. calls' \in [Subs -> Nat]
    BY <1>6, <2>1 DEF Dispatch
  <2>4. worker' \in [Subs -> {"take", "call", "close", "wait", "join", "end"}]
    <3>1. PICK place \in {"close", "take", "call"} : worker' = [worker EXCEPT ![s] = place]
      BY <1>6 DEF Dispatch
    <3> QED BY <3>1
  <2> QED BY <1>6, <2>2, <2>3, <2>4 DEF Dispatch
<1>7. CASE HandlerReturns(s) BY <1>7 DEF HandlerReturns
<1>8. CASE OnceCloses(s) BY <1>8, <1>0 DEF OnceCloses, Unsubscribe
<1>9. CASE OnceClosed(s) BY <1>9 DEF OnceClosed
<1>10. CASE EndOfInput(s) BY <1>10 DEF EndOfInput
<1>11. CASE Join(s) BY <1>11 DEF Join
<1>12. CASE CallReturns(s) BY <1>12 DEF CallReturns
<1> QED BY <1>1, <1>2, <1>3, <1>4, <1>5, <1>6, <1>7, <1>8, <1>9, <1>10, <1>11, <1>12
        DEF ClosingStep, WorkerStep

LEMMA TypeStep == TypeOK /\ AtWork /\ [Next]_vars => TypeOK' /\ AtWork'
<1> SUFFICES ASSUME TypeOK, AtWork, [Next]_vars PROVE TypeOK' /\ AtWork'
  OBVIOUS
<1>1. CASE \E p \in Publishers : Publish(p) \/ PublisherStep(p) \/ BlockedIsCanceled(p)
  BY <1>1, PublisherType
<1>2. CASE \E s \in Subs : \/ Subscribe(s) \/ Close(s) \/ ClosingStep(s)
                          \/ Read(s) \/ WorkerStep(s) \/ CallReturns(s)
  BY <1>2, SubscriptionType
<1> USE DEF TypeOK, AtWork, bus, running, publisher
<1>3. CASE BusClose BY <1>3 DEF BusClose
<1>4. CASE BusCloseNext BY <1>4 DEF BusCloseNext
<1>5. CASE BusCloseNextDone BY <1>5, HeadTailProperties DEF BusCloseNextDone
<1>6. CASE UNCHANGED vars BY <1>6 DEF vars
<1> QED BY <1>1, <1>2, <1>3, <1>4, <1>5, <1>6 DEF Next
-----------------------------------------------------------------------------
(* Who holds an event of a subscription, before and after a publisher's step. *)
LEMMA HeldLeave ==
  ASSUME TypeOK, NEW p \in Publishers, Leave(p), NEW s \in Subs,
         pc[p] \in {"try", "evict", "retry", "block"}
  PROVE  /\ InLock(s)' = InLock(s) \ {p} /\ Blocked(s)' = Blocked(s) \ {p}
         /\ p \in Held(s) <=> s = Head(todo[p])
BY DEF TypeOK, Leave, InLock, Blocked, Held

LEMMA HeldEnter ==
  ASSUME TypeOK, NEW p \in Publishers, NEW s \in Subs, pc[p] = "next", UNCHANGED todo,
         NEW place \in {"try", "block"}, pc' = [pc EXCEPT ![p] = place]
  PROVE  /\ p \notin Held(s)
         /\ InLock(s)' = IF s = Head(todo[p]) /\ place = "try" THEN InLock(s) \cup {p} ELSE InLock(s)
         /\ Blocked(s)' = IF s = Head(todo[p]) /\ place = "block" THEN Blocked(s) \cup {p} ELSE Blocked(s)
BY DEF TypeOK, InLock, Blocked, Held

LEMMA HeldStays ==
  ASSUME TypeOK, NEW p \in Publishers, NEW s \in Subs, UNCHANGED todo,
         \/ /\ pc[p] \in {"try", "evict", "retry"}
            /\ \E place \in {"evict", "retry"} : pc' = [pc EXCEPT ![p] = place]
         \/ UNCHANGED pc
  PROVE  InLock(s)' = InLock(s) /\ Blocked(s)' = Blocked(s)
BY DEF TypeOK, InLock, Blocked

LEMMA HeldElsewhere ==
  ASSUME TypeOK, NEW p \in Publishers, NEW s \in Subs, pc[p] \in {"idle", "next"},
         \/ UNCHANGED <<pc, todo>>
         \/ /\ \E place \in {"idle", "next"} : pc' = [pc EXCEPT ![p] = place]
            /\ \A q \in Publishers \ {p} : todo'[q] = todo[q]
         \/ Leave(p)
  PROVE  InLock(s)' = InLock(s) /\ Blocked(s)' = Blocked(s)
<1>1. pc'[p] \in {"idle", "next"} \/ UNCHANGED <<pc, todo>>
  <2>1. CASE Leave(p) BY <2>1 DEF TypeOK, Leave
  <2>2. CASE \E place \in {"idle", "next"} : pc' = [pc EXCEPT ![p] = place]
    BY <2>2 DEF TypeOK
  <2> QED BY <2>1, <2>2
<1>2. ASSUME NEW q \in Publishers \ {p} PROVE pc'[q] = pc[q] /\ todo'[q] = todo[q]
  <2>1. CASE UNCHANGED <<pc, todo>> BY <2>1
  <2>2. CASE \E place \in {"idle", "next"} : pc' = [pc EXCEPT ![p] = place]
    BY <1>2, <2>2 DEF TypeOK, Leave
  <2>3. CASE Leave(p) BY <1>2, <2>3 DEF TypeOK, Leave
  <2>4. todo'[q] = todo[q] BY <1>2 DEF TypeOK, Leave
  <2> QED BY <2>1, <2>2, <2>3, <2>4
<1>3. CASE UNCHANGED <<pc, todo>> BY <1>3 DEF InLock, Blocked
<1>4. CASE pc'[p] \in {"idle", "next"}
  <2>1. InLock(s)' = InLock(s) BY <1>2, <1>4 DEF InLock
  <2>2. Blocked(s)' = Blocked(s) BY <1>2, <1>4 DEF Blocked
  <2> QED BY <2>1, <2>2
<1> QED BY <1>1, <1>3, <1>4

LEMMA HeldCount ==
  ASSUME NEW s \in Subs, NEW p \in Publishers
  PROVE  /\ IsFiniteSet(Held(s)) /\ Cardinality(Held(s)) \in Nat
         /\ p \in Held(s) => Cardinality(Held(s) \ {p}) = Cardinality(Held(s)) - 1
         /\ p \notin Held(s) => /\ Cardinality(Held(s) \cup {p}) = Cardinality(Held(s)) + 1
                               /\ Held(s) \ {p} = Held(s)
<1>1. Held(s) \subseteq Publishers BY DEF Held, InLock, Blocked
<1>2. IsFiniteSet(Held(s)) BY <1>1, FS_Subset, ConstantsAssumption DEF ConstantsAssumption
<1> QED BY <1>2, FS_CardinalityType, FS_AddElement, FS_RemoveElement
(* Publishing keeps what publishers rely on, and the count.                  *)
LEMMA PublisherKeeps ==
  ASSUME TypeOK, AtWork, Reliance, Accounted, NEW p \in Publishers,
         Publish(p) \/ PublisherStep(p) \/ BlockedIsCanceled(p), NEW s \in Subs
  PROVE  /\ phase[s]' \in {"closed", "sealed"} => InLock(s)' = {}
         /\ phase[s]' = "sealed" => Blocked(s)' = {}
         /\ phase[s]' \in {"unborn", "open"} => pending[s]' = ch[s]' + Cardinality(Held(s)')
<1> DEFINE h == Head(todo[p])
           N == Cardinality(Held(s))
<1>0. /\ phase[s] \in {"closed", "sealed"} => InLock(s) = {}
      /\ phase[s] = "sealed" => Blocked(s) = {}
      /\ phase[s] \in {"unborn", "open"} => pending[s] = ch[s] + N
      /\ N \in Nat /\ ch[s] \in Int /\ pending[s] \in Int
  <2>1. N \in Nat BY HeldCount
  <2>2. ch[s] \in Int /\ pending[s] \in Int BY DEF TypeOK
  <2>3. phase[s] \in {"unborn", "open"} => pending[s] = ch[s] + N BY DEF Accounted
  <2> QED BY <2>1, <2>2, <2>3 DEF Reliance
<1>1. phase' = phase
  BY DEF Publish, PublisherStep, BlockedIsCanceled, PublishReturns, Enqueue, TrySend, Evict, Retry,
         BlockedSends, BlockedIsReleased, bus
<1>2. Held(s)' = InLock(s)' \cup Blocked(s)' BY DEF Held
<1>3. CASE InLock(s)' = InLock(s) /\ Blocked(s)' = Blocked(s) /\ pending[s]' - ch[s]' = pending[s] - ch[s]
                /\ ch[s]' \in Int /\ pending[s]' \in Int
  <2>1. Held(s)' = Held(s) BY <1>3, <1>2 DEF Held
  <2> QED BY <1>0, <1>1, <1>3, <2>1
<1>4. ASSUME Leave(p), pc[p] \in {"try", "evict", "retry", "block"},
             s = h => phase[s] \in {"closing", "closed", "sealed"} \/ pending[s]' - ch[s]' = pending[s] - ch[s] - 1,
             s # h => pending[s]' = pending[s] /\ ch[s]' = ch[s],
             ch[s]' \in Int, pending[s]' \in Int
      PROVE  /\ phase[s]' \in {"closed", "sealed"} => InLock(s)' = {}
             /\ phase[s]' = "sealed" => Blocked(s)' = {}
             /\ phase[s]' \in {"unborn", "open"} => pending[s]' = ch[s]' + Cardinality(Held(s)')
  <2>1. InLock(s)' = InLock(s) \ {p} /\ Blocked(s)' = Blocked(s) \ {p} /\ (p \in Held(s) <=> s = h)
    BY <1>4, HeldLeave
  <2>2. Held(s)' = Held(s) \ {p} BY <2>1, <1>2 DEF Held
  <2>3. CASE s = h BY <2>1, <2>2, <2>3, <1>0, <1>1, <1>4, HeldCount
  <2>4. CASE s # h BY <2>1, <2>2, <2>4, <1>0, <1>1, <1>4, HeldCount
  <2> QED BY <2>3, <2>4
<1>a. \A n \in Int : Add(ch, h, n) => ch[s]' = IF s = h THEN ch[s] + n ELSE ch[s]
  BY DEF Add, TypeOK
<1>b. \A n \in Int : Add(pending, h, n) => pending[s]' = IF s = h THEN pending[s] + n ELSE pending[s]
  BY DEF Add, TypeOK
<1> HIDE DEF N, h
<1>5. CASE Publish(p) \/ PublishReturns(p)
  <2>1. InLock(s)' = InLock(s) /\ Blocked(s)' = Blocked(s)
    BY <1>5, HeldElsewhere DEF Publish, PublishReturns, TypeOK
  <2> QED BY <1>5, <1>0, <1>3, <2>1 DEF Publish, PublishReturns
<1>6. CASE Enqueue(p)
  <2>1. CASE phase[h] \in {"closed", "sealed"}
    <3>1. InLock(s)' = InLock(s) /\ Blocked(s)' = Blocked(s)
      BY <1>6, <2>1, HeldElsewhere DEF Enqueue, h
    <3> QED BY <1>6, <2>1, <1>0, <1>3, <3>1 DEF Enqueue, h
  <2>2. CASE phase[h] \notin {"closed", "sealed"}
    <3>1. PICK place \in {"try", "block"} : pc' = [pc EXCEPT ![p] = place]
      BY <1>6, <2>2 DEF Enqueue, h
    <3>2. pc[p] = "next" /\ UNCHANGED <<todo, ch>> /\ Add(pending, h, 1)
      BY <1>6, <2>2 DEF Enqueue, h
    <3>3. /\ p \notin Held(s)
          /\ InLock(s)' = IF s = h /\ place = "try" THEN InLock(s) \cup {p} ELSE InLock(s)
          /\ Blocked(s)' = IF s = h /\ place = "block" THEN Blocked(s) \cup {p} ELSE Blocked(s)
      BY <3>1, <3>2, HeldEnter DEF h
    <3>4. CASE s = h
      <4>1. Held(s)' = Held(s) \cup {p} BY <3>3, <3>4, <1>2 DEF Held
      <4>2. Cardinality(Held(s)') = N + 1 BY <4>1, <3>3, HeldCount DEF N
      <4>3. pending[s]' = pending[s] + 1 /\ ch[s]' = ch[s] BY <3>2, <3>4 DEF Add, TypeOK
      <4> QED BY <4>2, <4>3, <2>2, <3>4, <1>0, <1>1
    <3>5. CASE s # h
      <4>1. pending[s]' = pending[s] /\ ch[s]' = ch[s] BY <3>2, <3>5 DEF Add, TypeOK
      <4> QED BY <4>1, <3>3, <3>5, <1>0, <1>3
    <3> QED BY <3>4, <3>5
  <2> QED BY <2>1, <2>2
<1>7. CASE TrySend(p)
  <2>1. CASE pc' = [pc EXCEPT ![p] = "evict"] /\ UNCHANGED <<ch, pending, todo>>
    <3>1. InLock(s)' = InLock(s) /\ Blocked(s)' = Blocked(s)
      BY <1>7, <2>1, HeldStays DEF TrySend
    <3> QED BY <2>1, <3>1, <1>0, <1>3
  <2>2. CASE Leave(p)
    <3>0. pc' # [pc EXCEPT ![p] = "evict"] BY <2>2 DEF Leave, TypeOK
    <3>1. s = h => phase[s] \in {"closing", "closed", "sealed"} \/ pending[s]' - ch[s]' = pending[s] - ch[s] - 1
      BY <1>7, <3>0, <1>0, <1>a, <1>b DEF TrySend, h, Enters, Drops
    <3>2. ch[s]' \in Int /\ pending[s]' \in Int /\ (s # h => pending[s]' = pending[s] /\ ch[s]' = ch[s])
      <4>1. UNCHANGED ch \/ Add(ch, h, 1) BY <1>7 DEF TrySend, h, Enters
      <4>2. UNCHANGED pending \/ Add(pending, h, -1) BY <1>7 DEF TrySend, h, Drops
      <4> QED BY <4>1, <4>2, <1>0, <1>a, <1>b
    <3> QED BY <1>7, <2>2, <3>1, <3>2, <1>4 DEF TrySend
  <2> QED BY <1>7, <2>1, <2>2 DEF TrySend
<1>8. CASE Evict(p)
  <2>1. InLock(s)' = InLock(s) /\ Blocked(s)' = Blocked(s)
    BY <1>8, HeldStays DEF Evict
  <2>2. ch[s]' \in Int /\ pending[s]' \in Int /\ pending[s]' - ch[s]' = pending[s] - ch[s]
    BY <1>8, <1>0, <1>a, <1>b DEF Evict, Drops, h
  <2> QED BY <2>1, <2>2, <1>3
<1>9. CASE Retry(p)
  <2>1. s = h => phase[s] \in {"closing", "closed", "sealed"} \/ pending[s]' - ch[s]' = pending[s] - ch[s] - 1
    BY <1>9, <1>0, <1>a, <1>b DEF Retry, h, Enters, Drops
  <2>2. ch[s]' \in Int /\ pending[s]' \in Int /\ (s # h => pending[s]' = pending[s] /\ ch[s]' = ch[s])
    BY <1>9, <1>0, <1>a, <1>b DEF Retry, h, Enters, Drops
  <2> QED BY <1>9, <2>1, <2>2, <1>4 DEF Retry
<1>10. CASE BlockedSends(p)
  <2>1. /\ s = h => pending[s]' - ch[s]' = pending[s] - ch[s] - 1
        /\ ch[s]' \in Int /\ pending[s]' \in Int /\ (s # h => pending[s]' = pending[s] /\ ch[s]' = ch[s])
    BY <1>10, <1>0, <1>a DEF BlockedSends, h, Enters
  <2> QED BY <1>10, <2>1, <1>4 DEF BlockedSends
<1>11. CASE BlockedIsReleased(p)
  <2>1. /\ s = h => phase[s] \in {"closing", "closed", "sealed"}
        /\ UNCHANGED <<ch, pending>>
    BY <1>11 DEF BlockedIsReleased, h
  <2> QED BY <1>11, <2>1, <1>0, <1>4 DEF BlockedIsReleased
<1>12. CASE BlockedIsCanceled(p)
  <2>1. /\ s = h => pending[s]' - ch[s]' = pending[s] - ch[s] - 1
        /\ ch[s]' \in Int /\ pending[s]' \in Int /\ (s # h => pending[s]' = pending[s] /\ ch[s]' = ch[s])
    BY <1>12, <1>0, <1>b DEF BlockedIsCanceled, h, Drops
  <2> QED BY <1>12, <2>1, <1>4 DEF BlockedIsCanceled
<1> QED BY <1>5, <1>6, <1>7, <1>8, <1>9, <1>10, <1>11, <1>12 DEF PublisherStep
(* So does what happens to a subscription: it changes neither pc nor todo,   *)
(* and only Read and Dispatch touch a counter.                               *)
LEMMA SubscriptionKeeps ==
  ASSUME TypeOK, Reliance, Accounted, Finished, NEW t \in Subs,
         Subscribe(t) \/ Close(t) \/ ClosingStep(t) \/ Read(t) \/ WorkerStep(t) \/ CallReturns(t)
  PROVE  Reliance' /\ Accounted' /\ Finished'
<1>1. UNCHANGED publisher
  BY DEF Subscribe, Close, ClosingStep, Read, WorkerStep, CallReturns, SetClosed, Seal, Dispatch,
         HandlerReturns, OnceCloses, OnceClosed, EndOfInput, Join
<1>2. \A s \in Subs : InLock(s)' = InLock(s) /\ Blocked(s)' = Blocked(s) /\ Held(s)' = Held(s)
  BY <1>1 DEF publisher, InLock, Blocked, Held
<1>3. \/ UNCHANGED phase
      \/ phase[t] = "unborn" /\ phase' = [phase EXCEPT ![t] = "open"]
      \/ phase' = [phase EXCEPT ![t] = "closing"]
      \/ phase' = [phase EXCEPT ![t] = "closed"] /\ InLock(t) = {}
      \/ phase[t] = "closed" /\ phase' = [phase EXCEPT ![t] = "sealed"] /\ Blocked(t) = {}
  BY DEF Subscribe, Close, ClosingStep, Read, WorkerStep, CallReturns, SetClosed, Seal, Dispatch,
         HandlerReturns, OnceCloses, OnceClosed, EndOfInput, Join, Unsubscribe
<1>4. UNCHANGED <<ch, pending>> \/ (Pops(t) /\ UNCHANGED phase)
  BY DEF Subscribe, Close, ClosingStep, Read, WorkerStep, CallReturns, SetClosed, Seal, Dispatch,
         HandlerReturns, OnceCloses, OnceClosed, EndOfInput, Join
<1>5. Reliance' BY <1>2, <1>3 DEF Reliance, TypeOK
<1>6. Accounted'
  <2>1. SUFFICES ASSUME NEW s \in Subs, phase[s]' \in {"unborn", "open"}
                 PROVE  pending[s]' = ch[s]' + Cardinality(Held(s))
    BY <1>2 DEF Accounted
  <2>2. phase[s] \in {"unborn", "open"} BY <2>1, <1>3 DEF TypeOK
  <2>3. pending[s] = ch[s] + Cardinality(Held(s)) BY <2>2 DEF Accounted
  <2>4. Cardinality(Held(s)) \in Int /\ ch[s] \in Int /\ pending[s] \in Int
    <3>1. IsFiniteSet(Held(s))
      BY FS_Subset, ConstantsAssumption DEF ConstantsAssumption, Held, InLock, Blocked
    <3> QED BY <3>1, FS_CardinalityType DEF TypeOK
  <2>5. CASE UNCHANGED <<ch, pending>> BY <2>5, <2>3
  <2>6. CASE Pops(t)
    <3>1. pending[s]' = (IF s = t THEN pending[s] + -1 ELSE pending[s])
          /\ ch[s]' = (IF s = t THEN ch[s] + -1 ELSE ch[s])
      BY <2>6 DEF Pops, Add, TypeOK
    <3> QED BY <3>1, <2>3, <2>4
  <2> QED BY <1>4, <2>5, <2>6
<1>7. Finished'
  <2> USE DEF Finished, TypeOK
  <2>1. CASE Subscribe(t) BY <2>1 DEF Subscribe, running
  <2>2. CASE Close(t) BY <2>2 DEF Close, running
  <2>3. CASE SetClosed(t) BY <2>3 DEF SetClosed, running
  <2>4. CASE Seal(t) BY <2>4 DEF Seal
  <2>5. CASE Read(t) BY <2>5 DEF Read
  <2>6. CASE Dispatch(t) BY <2>6 DEF Dispatch, AfterDispatch, WorkerGoes, Add
  <2>7. CASE HandlerReturns(t) BY <2>7 DEF HandlerReturns, AfterDispatch, WorkerGoes
  <2>8. CASE OnceCloses(t) BY <2>8 DEF OnceCloses, WorkerGoes
  <2>9. CASE OnceClosed(t) BY <2>9 DEF OnceClosed, WorkerGoes
  <2>10. CASE EndOfInput(t) BY <2>10 DEF EndOfInput, WorkerGoes
  <2>11. CASE Join(t) BY <2>11 DEF Join, WorkerGoes
  <2>12. CASE CallReturns(t) BY <2>12 DEF CallReturns
  <2> QED BY <2>1, <2>2, <2>3, <2>4, <2>5, <2>6, <2>7, <2>8, <2>9, <2>10, <2>11, <2>12
          DEF ClosingStep, WorkerStep
<1> QED BY <1>5, <1>6, <1>7

-----------------------------------------------------------------------------
LEMMA IInvInit == Init => IInv
<1> SUFFICES ASSUME Init PROVE IInv
  OBVIOUS
<1>1. TypeOK
  <2>1. <<>> \in Seq(Subs) /\ 0 \in 0 .. Buffer
    BY EmptySeq, ConstantsAssumption DEF ConstantsAssumption
  <2>2. todo \in [Publishers -> Seq(Subs)] /\ ch \in [Subs -> 0 .. Buffer]
    BY <2>1 DEF Init
  <2>3. worker \in [Subs -> {"take", "call", "close", "wait", "join", "end"}]
    BY DEF Init
  <2>4. /\ phase \in [Subs -> {"unborn", "open", "closing", "closed", "sealed"}]
        /\ calls \in [Subs -> Nat] /\ done \in [Subs -> BOOLEAN] /\ pending \in [Subs -> Int]
        /\ pc \in [Publishers -> {"idle", "next", "try", "evict", "retry", "block"}]
    BY DEF Init
  <2>5. busClosed \in BOOLEAN /\ order \in Seq(Subs) /\ toClose \in Seq(Subs)
    BY <2>1 DEF Init
  <2>6. concurrent \subseteq Subs \ Readers BY DEF Init
  <2> QED BY <2>2, <2>3, <2>4, <2>5, <2>6 DEF TypeOK
<1>2. \A s \in Subs : InLock(s) = {} /\ Blocked(s) = {} /\ Held(s) = {}
  BY DEF Init, InLock, Blocked, Held
<1>3. \A s \in Subs : pending[s] = 0 /\ ch[s] = 0 /\ Cardinality(Held(s)) = 0
  BY <1>2, FS_EmptySet DEF Init
<1>4. Accounted BY <1>3 DEF Accounted
<1> QED BY <1>1, <1>2, <1>4 DEF Init, IInv, AtWork, Reliance, Finished

LEMMA IInvStep == IInv /\ [Next]_vars => IInv'
<1> SUFFICES ASSUME IInv, [Next]_vars PROVE IInv'
  OBVIOUS
<1>1. TypeOK' /\ AtWork' BY TypeStep DEF IInv
<1>2. CASE \E p \in Publishers : Publish(p) \/ PublisherStep(p) \/ BlockedIsCanceled(p)
  <2>1. PICK p \in Publishers : Publish(p) \/ PublisherStep(p) \/ BlockedIsCanceled(p)
    BY <1>2
  <2>2. Reliance' /\ Accounted' BY <2>1, PublisherKeeps DEF IInv, Reliance, Accounted
  <2>3. UNCHANGED running
    BY <2>1 DEF Publish, PublisherStep, BlockedIsCanceled, PublishReturns, Enqueue, TrySend, Evict,
                Retry, BlockedSends, BlockedIsReleased
  <2>4. Finished' BY <2>3 DEF IInv, Finished, running
  <2> QED BY <1>1, <2>2, <2>4 DEF IInv
<1>3. CASE \E s \in Subs : \/ Subscribe(s) \/ Close(s) \/ ClosingStep(s)
                          \/ Read(s) \/ WorkerStep(s) \/ CallReturns(s)
  BY <1>1, <1>3, SubscriptionKeeps DEF IInv
<1>4. CASE BusClose \/ BusCloseNext \/ BusCloseNextDone \/ UNCHANGED vars
  <2>1. UNCHANGED <<ch, pending, pc, todo, worker, calls, done>>
    BY <1>4 DEF BusClose, BusCloseNext, BusCloseNextDone, vars, running, publisher
  <2>2. \A s \in Subs : phase'[s] = phase[s] \/ (phase[s] = "open" /\ phase'[s] = "closing")
    BY <1>4 DEF BusClose, BusCloseNext, BusCloseNextDone, vars, IInv, TypeOK
  <2>3. \A s \in Subs : InLock(s)' = InLock(s) /\ Blocked(s)' = Blocked(s) /\ Held(s)' = Held(s)
    BY <2>1 DEF InLock, Blocked, Held
  <2>4. Reliance' BY <2>2, <2>3 DEF IInv, Reliance
  <2>5. Accounted' BY <2>1, <2>2, <2>3 DEF IInv, Accounted
  <2>6. Finished' BY <2>1 DEF IInv, Finished
  <2> QED BY <1>1, <2>4, <2>5, <2>6 DEF IInv
<1> QED BY <1>2, <1>3, <1>4 DEF Next

(* The invariant holds in every reachable state.                             *)
THEOREM InvariantHolds == Spec => []IInv
BY IInvInit, IInvStep, PTL DEF Spec

\* Types: no subscriber's channel is over its buffer, and a publisher that
\* blocks on one is a known one (subscription.ch, bus.go).
THEOREM EventBusTypes == Spec => []TypeOK
<1>1. IInv => TypeOK BY DEF IInv
<1> QED BY <1>1, InvariantHolds, PTL

(* No publisher is ever about to send on a queue that closeInput has closed. *)
THEOREM NoSendOnClosedHolds == Spec => []NoSendOnClosed
<1>1. IInv => NoSendOnClosed BY DEF IInv, Reliance, NoSendOnClosed, TypeOK
<1> QED BY <1>1, InvariantHolds, PTL

(* The counters of an open subscription account for every event.             *)
THEOREM EveryEventAccountedHolds == Spec => []EveryEventAccounted
<1>1. IInv => EveryEventAccounted BY DEF IInv, Accounted, Held, EveryEventAccounted
<1> QED BY <1>1, InvariantHolds, PTL

(* Once Done is closed, no call that the worker waits for runs or starts.    *)
THEOREM DoneMeansDoneHolds == Spec => DoneMeansDone
<1>1. ASSUME IInv, [Next]_vars, IInv', NEW s \in Subs \ Readers, done[s]
      PROVE  calls[s] = 0 /\ worker[s] = "end" /\ worker'[s] = "end" /\ done'[s]
  <2>1. calls[s] = 0 /\ worker[s] = "end" BY <1>1 DEF IInv, Finished
  <2>2. done'[s]
    <3> USE <1>1 DEF IInv, TypeOK
    <3>1. CASE \E p \in Publishers : Publish(p) \/ PublisherStep(p) \/ BlockedIsCanceled(p)
      BY <3>1 DEF Publish, PublisherStep, BlockedIsCanceled, PublishReturns, Enqueue, TrySend, Evict,
                  Retry, BlockedSends, BlockedIsReleased, running
    <3>2. CASE \E t \in Subs : Subscribe(t) \/ Close(t) \/ Read(t) \/ CallReturns(t)
      BY <3>2 DEF Subscribe, Close, Read, CallReturns, running
    <3>3. CASE \E t \in Subs : SetClosed(t) \/ Seal(t) \/ Join(t)
      <4>1. ASSUME NEW t \in Subs, Seal(t) PROVE done'[s]
        BY <4>1 DEF Seal
      <4> QED BY <3>3, <4>1 DEF SetClosed, Join, running
    <3>4. CASE \E t \in Subs : \/ Dispatch(t) \/ HandlerReturns(t) \/ OnceCloses(t)
                             \/ OnceClosed(t) \/ EndOfInput(t)
      BY <3>4 DEF Dispatch, HandlerReturns, OnceCloses, OnceClosed, EndOfInput
    <3>5. CASE BusClose \/ BusCloseNext \/ BusCloseNextDone \/ UNCHANGED vars
      BY <3>5 DEF BusClose, BusCloseNext, BusCloseNextDone, vars, running
    <3> QED BY <3>1, <3>2, <3>3, <3>4, <3>5 DEF Next, ClosingStep, WorkerStep
  <2> QED BY <1>1, <2>1, <2>2 DEF IInv, Finished
<1>2. IInv /\ IInv' /\ [Next]_vars =>
        [\A s \in Subs \ Readers : done[s] => /\ calls[s] = 0 /\ worker[s] = "end"
                                              /\ worker'[s] = "end" /\ done'[s]]_vars
  BY <1>1
<1> QED BY <1>2, InvariantHolds, PTL DEF Spec, DoneMeansDone
=============================================================================
