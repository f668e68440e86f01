--------------------------- MODULE MessageBusProof ---------------------------
(***************************************************************************)
(* Proofs about the message bus, for every finite set of publishers, every *)
(* number of closers and all channel capacities.                           *)
(*                                                                         *)
(* The argument: publishMu makes "read closed, then wg.Add" exclusive with *)
(* "set closed, close done" (Mutex), so nobody is admitted once closed is  *)
(* raised (AdmittedMeansOpen); wg counts exactly the publishers inside     *)
(* (WaitGroupCountsPublishers), so the closer that gets past wg.Wait finds *)
(* nobody inside and nobody enters later (PastWait); channels are closed   *)
(* only past that point (CloseProgress).                                   *)
(*                                                                         *)
(* The bus keeps what BusPromise says: each step is one of the promise's   *)
(* or changes nothing that it speaks of (BusKeepsPromise).                 *)
(***************************************************************************)
EXTENDS MessageBus, FiniteSetTheorems, TLAPS

AfterFlag == {"flagged", "waiting", "closing", "draining", "returned"}
AfterWait == {"closing", "draining", "returned"}

\* publishMu is held by exactly the goroutine that is inside its critical section.
Mutex ==
  /\ \A m \in Messages : pc[m] \in {"locked", "admitted"} <=> publishMu = m
  /\ \A c \in Closers : closePc[c] \in {"locked", "flagged"} <=> publishMu = c

\* Only the winner of closeOnce runs the body of Close.
SingleCloser ==
  \A c \in Closers :
    \/ closePc[c] = "idle" /\ once # c
    \/ once = c /\ closePc[c] # "idle"
    \/ once # c /\ closePc[c] = "returned" /\ once \in Closers /\ closePc[once] = "returned"

FlagMatchesCloser ==
  /\ closed <=> (once \in Closers /\ closePc[once] \in AfterFlag)
  /\ done => closed

AdmittedMeansOpen == \A m \in Messages : pc[m] = "admitted" => ~closed

PastWait ==
  (once \in Closers /\ closePc[once] \in AfterWait) => \A m \in Messages : ~InsidePublish(m)

\* How far the winner of closeOnce has come with the five channels.
CloseProgress ==
  /\ chanClosed # {} => once \in Closers /\ closePc[once] \in AfterWait
  /\ once \in Closers /\ closePc[once] = "closing" =>
       /\ cursor \in 1..5
       /\ \A i \in 1..5 : i < cursor => CloseOrder[i] \in chanClosed
  /\ once \in Closers /\ closePc[once] \in {"draining", "returned"} =>
       /\ chanClosed = Streams
       /\ \A i \in 1..5 : i < cursor => chan[CloseOrder[i]] = <<>>
  /\ once \in Closers /\ closePc[once] = "returned" => cursor = 6
  /\ once = Free \/ (once \in Closers /\ closePc[once] \in {"once", "locked", "flagged", "waiting"})
       => cursor = 1

IInv ==
  /\ TypeOK
  /\ Mutex
  /\ SingleCloser
  /\ FlagMatchesCloser
  /\ AdmittedMeansOpen
  /\ WaitGroupCountsPublishers
  /\ PastWait
  /\ CloseProgress

-----------------------------------------------------------------------------
\* Close visits five channels, which are all the streams of the bus.
LEMMA CloseOrderFacts ==
  /\ Len(CloseOrder) = 5
  /\ \A i \in 1..5 : CloseOrder[i] \in Streams
  /\ \A s \in Streams : \E i \in 1..5 : CloseOrder[i] = s
<1>1. Len(CloseOrder) = 5 /\ \A i \in 1..5 : CloseOrder[i] \in Streams
  BY DEF CloseOrder, Streams
<1>2. /\ CloseOrder[1] = "inbound"
      /\ CloseOrder[2] = "outbound"
      /\ CloseOrder[3] = "outbound_media"
      /\ CloseOrder[4] = "audio_chunk"
      /\ CloseOrder[5] = "voice_control"
  BY DEF CloseOrder
<1>3. /\ 1 \in 1..5 /\ 2 \in 1..5 /\ 3 \in 1..5 /\ 4 \in 1..5 /\ 5 \in 1..5
  OBVIOUS
<1>4. \A s \in Streams : \E i \in 1..5 : CloseOrder[i] = s
  BY <1>2, <1>3 DEF Streams
<1> QED BY <1>1, <1>4

\* A non-empty buffer has a message in front and messages behind it.
LEMMA HeadTail ==
  ASSUME NEW S, NEW q \in Seq(S), q # <<>>
  PROVE  Head(q) \in S /\ Tail(q) \in Seq(S)
OBVIOUS

\* Types: every variable stays in its range.
LEMMA TypeStep == IInv /\ [Next]_vars => TypeOK'
<1> SUFFICES ASSUME IInv, [Next]_vars PROVE TypeOK'
  OBVIOUS
<1> USE BusAssumption DEF BusAssumption, IInv, TypeOK, PublishPc, Results, ClosePc
<1> USE DEF channelVars, closeVars, publishVars
<1>1. ASSUME NEW m \in Messages, Publisher(m) PROVE TypeOK'
  <2>1. CASE RejectContext(m) BY <2>1 DEF RejectContext
  <2>2. CASE EnterLock(m) BY <2>2 DEF EnterLock
  <2>3. CASE \E why \in {"closed", "canceled"} : EnterRefuse(m, why)
    BY <2>3 DEF EnterRefuse
  <2>4. CASE EnterAdmit(m) BY <2>4 DEF EnterAdmit
  <2>5. CASE EnterAdd(m) BY <2>5 DEF EnterAdd
  <2>6. CASE SelectSend(m) BY <2>6 DEF SelectSend, Leaving
  <2>7. CASE SelectCancel(m) BY <2>7 DEF SelectCancel, Leaving
  <2>8. CASE SelectDone(m) BY <2>8 DEF SelectDone, Leaving
  <2>9. CASE SelectTimer(m) BY <2>9 DEF SelectTimer, Leaving
  <2>10. CASE Leave(m)
    <3>1. wg # 0
      <4> DEFINE Inside == {n \in Messages : InsidePublish(n)}
      <4>1. m \in Inside BY <2>10 DEF Leave, InsidePublish
      <4>2. IsFiniteSet(Inside) BY FS_Subset
      <4>3. Cardinality(Inside) # 0 BY <4>1, <4>2, FS_EmptySet
      <4> QED BY <4>3 DEF WaitGroupCountsPublishers
    <3>2. wg' \in Nat BY <2>10, <3>1 DEF Leave
    <3> QED BY <2>10, <3>2 DEF Leave
  <2> QED BY <1>1, <2>1, <2>2, <2>3, <2>4, <2>5, <2>6, <2>7, <2>8, <2>9, <2>10 DEF Publisher
<1>2. ASSUME NEW m \in Messages, Cancel(m) PROVE TypeOK'
  BY <1>2 DEF Cancel
<1>3. ASSUME NEW s \in Streams, Receive(s) PROVE TypeOK'
  <2>1. Head(chan[s]) \in Messages /\ Tail(chan[s]) \in Seq(Messages)
    BY <1>3, HeadTail DEF Receive
  <2>2. chan' \in [Streams -> Seq(Messages)]
    BY <1>3, <2>1 DEF Receive
  <2>3. Append(delivered[s], Head(chan[s])) \in Seq(Messages)
    BY <2>1
  <2>4. delivered' \in [Streams -> Seq(Messages)]
    BY <1>3, <2>3 DEF Receive
  <2> QED BY <1>3, <2>2, <2>4 DEF Receive
<1>4. ASSUME NEW c \in Closers, Closer(c) PROVE TypeOK'
  <2> USE DEF CloseStep
  <2>0. Len(CloseOrder) = 5 /\ \A i \in 1..5 : CloseOrder[i] \in Streams
    BY CloseOrderFacts
  <2>1. CASE CloseOnce(c) BY <1>4, <2>1 DEF CloseOnce
  <2>2. CASE CloseAgain(c) BY <2>2 DEF CloseAgain
  <2>3. CASE CloseLock(c) BY <2>3 DEF CloseLock
  <2>4. CASE CloseFlag(c) BY <2>4 DEF CloseFlag
  <2>5. CASE CloseDone(c) BY <2>5 DEF CloseDone
  <2>6. CASE CloseWait(c) BY <2>6 DEF CloseWait
  <2>7. CASE CloseChannel(c)
    <3>1. cursor \in 1..5 BY <2>7 DEF CloseChannel, SingleCloser, CloseProgress
    <3>2. cursor' \in 1..6 BY <2>0, <2>7, <3>1 DEF CloseChannel
    <3>3. chanClosed' \subseteq Streams BY <2>0, <2>7, <3>1 DEF CloseChannel
    <3>4. closePc' \in [Closers -> ClosePc] BY <2>7 DEF CloseChannel
    <3>5. UNCHANGED <<pc, result, cancelled, dropped, wg, delivered, once, chan, discarded, publishMu, closed, done>>
      BY <2>7 DEF CloseChannel
    <3> QED BY <3>2, <3>3, <3>4, <3>5
  <2>8. CASE DrainOne(c)
    <3> DEFINE s == CloseOrder[cursor]
    <3>a. cursor \in 1..5 BY <2>0, <2>8 DEF DrainOne
    <3>1. s \in Streams BY <2>0, <3>a
    <3>2. Head(chan[s]) \in Messages /\ Tail(chan[s]) \in Seq(Messages)
      BY <2>8, <3>1, HeadTail DEF DrainOne
    <3>3. chan' \in [Streams -> Seq(Messages)] BY <2>8, <3>2 DEF DrainOne
    <3>4. discarded' \subseteq Messages BY <2>8, <3>2 DEF DrainOne
    <3> QED BY <2>8, <3>3, <3>4 DEF DrainOne
  <2>9. CASE DrainNext(c)
    <3>1. cursor' \in 1..6 BY <2>0, <2>9 DEF DrainNext
    <3> QED BY <2>9, <3>1 DEF DrainNext
  <2>10. CASE CloseReturn(c) BY <2>10 DEF CloseReturn
  <2> QED BY <1>4, <2>1, <2>2, <2>3, <2>4, <2>5, <2>6, <2>7, <2>8, <2>9, <2>10 DEF Closer
<1>5. CASE UNCHANGED vars BY <1>5 DEF vars
<1> QED BY <1>1, <1>2, <1>3, <1>4, <1>5 DEF Next

\* The WaitGroup: EnterAdd puts its publisher inside, Leave takes it out, and
\* every other step leaves the set of publishers inside as it was.
LEMMA CountStep == IInv /\ [Next]_vars => WaitGroupCountsPublishers'
<1> SUFFICES ASSUME IInv, [Next]_vars PROVE WaitGroupCountsPublishers'
  OBVIOUS
<1> DEFINE Inside == {n \in Messages : InsidePublish(n)}
<1>0. /\ pc \in [Messages -> PublishPc]
      /\ wg = Cardinality(Inside)
      /\ IsFiniteSet(Inside)
  BY BusAssumption, FS_Subset DEF BusAssumption, IInv, TypeOK, WaitGroupCountsPublishers
<1>1. SUFFICES wg' = Cardinality(Inside')
  BY DEF WaitGroupCountsPublishers
<1>2. ASSUME NEW m \in Messages, EnterAdd(m) PROVE wg' = Cardinality(Inside')
  <2>1. Inside' = Inside \cup {m} /\ m \notin Inside
    BY <1>0, <1>2 DEF EnterAdd, InsidePublish
  <2> QED BY <1>0, <1>2, <2>1, FS_AddElement DEF EnterAdd
<1>3. ASSUME NEW m \in Messages, Leave(m) PROVE wg' = Cardinality(Inside')
  <2>1. Inside' = Inside \ {m} /\ m \in Inside
    BY <1>0, <1>3 DEF Leave, InsidePublish
  <2> QED BY <1>0, <1>3, <2>1, FS_RemoveElement DEF Leave
<1>4. ASSUME NEW m \in Messages,
             \/ RejectContext(m) \/ EnterLock(m) \/ EnterAdmit(m)
             \/ \E why \in {"closed", "canceled"} : EnterRefuse(m, why)
      PROVE  wg' = wg /\ Inside' = Inside
  BY <1>0, <1>4 DEF InsidePublish, RejectContext, EnterLock, EnterAdmit, EnterRefuse
<1>5. ASSUME NEW m \in Messages,
             SelectSend(m) \/ SelectCancel(m) \/ SelectDone(m) \/ SelectTimer(m)
      PROVE  wg' = wg /\ Inside' = Inside
  BY <1>0, <1>5 DEF InsidePublish, Leaving, SelectSend, SelectCancel, SelectDone, SelectTimer
<1>6. ASSUME \/ \E m \in Messages : Cancel(m)
             \/ \E s \in Streams : Receive(s)
             \/ UNCHANGED vars
      PROVE  wg' = wg /\ Inside' = Inside
  BY <1>6 DEF InsidePublish, Cancel, Receive, vars
<1>7. ASSUME NEW c \in Closers, Closer(c)
      PROVE  wg' = wg /\ Inside' = Inside
  BY <1>7 DEF InsidePublish, Closer, CloseOnce, CloseAgain, CloseLock, CloseFlag, CloseDone,
              CloseWait, CloseChannel, DrainOne, DrainNext, CloseReturn, CloseStep, publishVars
<1> QED BY <1>0, <1>2, <1>3, <1>4, <1>5, <1>6, <1>7 DEF Next, Publisher

\* A closer whose pc has left "idle" for the body of Close holds closeOnce.
LEMMA OnceHolder ==
  ASSUME IInv, NEW c \in Closers, closePc[c] \notin {"idle", "returned"}
  PROVE  once = c
BY DEF IInv, SingleCloser

\* The locking facts, kept by the publishers and the environment.
LEMMA LockStepPublisher ==
  ASSUME IInv, TypeOK', NEW m \in Messages, Publisher(m)
  PROVE  Mutex' /\ SingleCloser' /\ FlagMatchesCloser' /\ AdmittedMeansOpen' /\ PastWait'
<1> USE BusAssumption DEF BusAssumption, IInv
<1> USE DEF closeVars, Mutex, SingleCloser, FlagMatchesCloser, AdmittedMeansOpen, PastWait,
            InsidePublish, AfterFlag, AfterWait
<1>0. pc \in [Messages -> PublishPc]
  BY DEF TypeOK
<1>1. CASE RejectContext(m) BY <1>0, <1>1 DEF RejectContext
<1>2. CASE EnterLock(m) BY <1>0, <1>2 DEF EnterLock
<1>3. CASE \E why \in {"closed", "canceled"} : EnterRefuse(m, why)
  BY <1>0, <1>3 DEF EnterRefuse
<1>4. CASE EnterAdmit(m) BY <1>0, <1>4 DEF EnterAdmit
<1>5. CASE EnterAdd(m) BY <1>0, <1>5 DEF EnterAdd
<1>6. CASE SelectSend(m) BY <1>0, <1>6 DEF SelectSend, Leaving
<1>7. CASE SelectCancel(m) BY <1>0, <1>7 DEF SelectCancel, Leaving
<1>8. CASE SelectDone(m) BY <1>0, <1>8 DEF SelectDone, Leaving
<1>9. CASE SelectTimer(m) BY <1>0, <1>9 DEF SelectTimer, Leaving
<1>10. CASE Leave(m) BY <1>0, <1>10 DEF Leave
<1> QED BY <1>1, <1>2, <1>3, <1>4, <1>5, <1>6, <1>7, <1>8, <1>9, <1>10 DEF Publisher

\* The locking facts, kept by the closers.
LEMMA LockStepCloser ==
  ASSUME IInv, TypeOK', NEW c \in Closers, Closer(c)
  PROVE  Mutex' /\ SingleCloser' /\ FlagMatchesCloser' /\ AdmittedMeansOpen' /\ PastWait'
<1> USE BusAssumption DEF BusAssumption, CloseStep, publishVars
<1> USE DEF Mutex, SingleCloser, FlagMatchesCloser, AdmittedMeansOpen, PastWait,
            InsidePublish, AfterFlag, AfterWait
<1>0. /\ Mutex /\ SingleCloser /\ FlagMatchesCloser /\ AdmittedMeansOpen /\ PastWait
      /\ closePc \in [Closers -> ClosePc]
      /\ closePc[c] \notin {"idle", "returned"} => once = c
      /\ once \in Closers \cup {Free}
  BY DEF IInv, TypeOK
<1>1. CASE CloseOnce(c) BY <1>0, <1>1 DEF CloseOnce
<1>2. CASE CloseAgain(c) BY <1>0, <1>2 DEF CloseAgain
<1>3. CASE CloseLock(c) BY <1>0, <1>3 DEF CloseLock
<1>4. CASE CloseFlag(c) BY <1>0, <1>4 DEF CloseFlag
<1>5. CASE CloseDone(c) BY <1>0, <1>5 DEF CloseDone
<1>6. CASE CloseWait(c)
  <2>1. \A m \in Messages : ~InsidePublish(m)
    <3> DEFINE Inside == {n \in Messages : InsidePublish(n)}
    <3>1. IsFiniteSet(Inside) BY FS_Subset
    <3>2. Cardinality(Inside) = 0
      BY <1>6 DEF CloseWait, IInv, WaitGroupCountsPublishers
    <3>3. Inside = {} BY <3>1, <3>2, FS_EmptySet
    <3> QED BY <3>3
  <2> QED BY <1>0, <1>6, <2>1 DEF CloseWait
<1>7. CASE CloseChannel(c) BY <1>0, <1>7 DEF CloseChannel
<1>8. CASE DrainOne(c) BY <1>0, <1>8 DEF DrainOne
<1>9. CASE DrainNext(c) BY <1>0, <1>9 DEF DrainNext
<1>10. CASE CloseReturn(c) BY <1>0, <1>10 DEF CloseReturn
<1> QED BY <1>1, <1>2, <1>3, <1>4, <1>5, <1>6, <1>7, <1>8, <1>9, <1>10 DEF Closer

\* A publisher that could still put a message into a channel shows that Close
\* has not got past wg.Wait.
LEMMA InsideMeansNotPastWait ==
  ASSUME IInv, NEW m \in Messages, InsidePublish(m)
  PROVE  ~(once \in Closers /\ closePc[once] \in AfterWait)
BY DEF IInv, PastWait

\* The progress of Close through the channels: nobody refills what it drained.
LEMMA ProgressStep == IInv /\ TypeOK' /\ [Next]_vars => CloseProgress'
<1> SUFFICES ASSUME IInv, TypeOK', [Next]_vars PROVE CloseProgress'
  OBVIOUS
<1>0. /\ CloseProgress
      /\ SingleCloser
      /\ \A i \in 1..5 : CloseOrder[i] \in Streams
      /\ Len(CloseOrder) = 5
      /\ chan \in [Streams -> Seq(Messages)]
      /\ closePc \in [Closers -> ClosePc]
      /\ once \in Closers \cup {Free}
      /\ Free \notin Closers
      /\ cursor \in 1..6
  BY CloseOrderFacts, BusAssumption DEF BusAssumption, IInv, TypeOK
<1>1. ASSUME UNCHANGED <<once, closePc, chanClosed, cursor, chan>> PROVE CloseProgress'
  BY <1>0, <1>1 DEF CloseProgress
<1>2. ASSUME NEW m \in Messages, SelectSend(m) PROVE CloseProgress'
  <2>1. ~(once \in Closers /\ closePc[once] \in AfterWait)
    BY <1>2, InsideMeansNotPastWait DEF SelectSend, Leaving, InsidePublish
  <2>2. UNCHANGED <<once, closePc, chanClosed, cursor>>
    BY <1>2 DEF SelectSend, Leaving, closeVars
  <2> QED BY <1>0, <2>1, <2>2 DEF CloseProgress, AfterWait
<1>3. ASSUME NEW s \in Streams, Receive(s) PROVE CloseProgress'
  <2>1. UNCHANGED <<once, closePc, chanClosed, cursor>>
    BY <1>3 DEF Receive, closeVars
  <2>2. \A t \in Streams : chan[t] = <<>> => chan'[t] = <<>>
    BY <1>0, <1>3 DEF Receive
  <2> QED BY <1>0, <2>1, <2>2 DEF CloseProgress
<1>4. ASSUME NEW c \in Closers, Closer(c) PROVE CloseProgress'
  <2> USE DEF CloseStep, SingleCloser, CloseProgress, AfterWait
  <2>1. CASE CloseOnce(c) BY <1>0, <2>1 DEF CloseOnce
  <2>2. CASE CloseAgain(c) BY <1>0, <2>2 DEF CloseAgain
  <2>3. CASE CloseLock(c) BY <1>0, <2>3 DEF CloseLock
  <2>4. CASE CloseFlag(c) BY <1>0, <2>4 DEF CloseFlag
  <2>5. CASE CloseDone(c) BY <1>0, <2>5 DEF CloseDone
  <2>6. CASE CloseWait(c) BY <1>0, <2>6 DEF CloseWait
  <2>7. CASE CloseChannel(c)
    <3>1. once = c /\ once' = c /\ closePc' = [closePc EXCEPT ![c] = IF cursor = 5 THEN "draining" ELSE "closing"]
      BY <1>0, <2>7 DEF CloseChannel
    <3>2. cursor \in 1..5 /\ chanClosed' = chanClosed \cup {CloseOrder[cursor]}
      BY <1>0, <2>7, <3>1 DEF CloseChannel
    <3>a. \A i \in 1..5 : i < cursor => CloseOrder[i] \in chanClosed
      BY <1>0, <2>7, <3>1 DEF CloseChannel
    <3>3. \A i \in 1..5 : i <= cursor => CloseOrder[i] \in chanClosed'
      <4>1. \A i \in 1..5 : i <= cursor => i < cursor \/ i = cursor BY <3>2
      <4> QED BY <3>2, <3>a, <4>1
    <3>4. CASE cursor = 5
      <4>a. \A i \in 1..5 : CloseOrder[i] \in chanClosed' BY <3>3, <3>4
      <4>b. chanClosed' \subseteq Streams BY DEF TypeOK
      <4>1. chanClosed' = Streams BY <4>a, <4>b, CloseOrderFacts
      <4> QED BY <1>0, <2>7, <3>1, <3>4, <4>1 DEF CloseChannel
    <3>5. CASE cursor # 5
      BY <1>0, <2>7, <3>1, <3>2, <3>3, <3>5 DEF CloseChannel
    <3> QED BY <3>4, <3>5
  <2>8. CASE DrainOne(c)
    <3>1. \A t \in Streams : chan[t] = <<>> => chan'[t] = <<>>
      BY <1>0, <2>8 DEF DrainOne
    <3> QED BY <1>0, <2>8, <3>1 DEF DrainOne
  <2>9. CASE DrainNext(c) BY <1>0, <2>9 DEF DrainNext
  <2>10. CASE CloseReturn(c) BY <1>0, <2>10 DEF CloseReturn
  <2> QED BY <1>4, <2>1, <2>2, <2>3, <2>4, <2>5, <2>6, <2>7, <2>8, <2>9, <2>10 DEF Closer
<1>5. ASSUME NEW m \in Messages, Publisher(m), ~SelectSend(m)
      PROVE  UNCHANGED <<once, closePc, chanClosed, cursor, chan>>
  BY <1>5 DEF Publisher, RejectContext, EnterLock, EnterRefuse, EnterAdmit, EnterAdd, Leave,
              SelectCancel, SelectDone, SelectTimer, Leaving, closeVars, channelVars
<1>6. ASSUME (\E m \in Messages : Cancel(m)) \/ UNCHANGED vars
      PROVE  UNCHANGED <<once, closePc, chanClosed, cursor, chan>>
  BY <1>6 DEF Cancel, vars, closeVars, channelVars
<1> QED BY <1>1, <1>2, <1>3, <1>4, <1>5, <1>6 DEF Next

-----------------------------------------------------------------------------
\* Every step of a publisher, a reader, a context or a closer keeps the
\* invariant.
LEMMA Inductive == IInv /\ [Next]_vars => IInv'
<1> SUFFICES ASSUME IInv, [Next]_vars PROVE IInv'
  OBVIOUS
<1>1. TypeOK' /\ WaitGroupCountsPublishers'
  BY TypeStep, CountStep
<1>2. CloseProgress'
  BY <1>1, ProgressStep
<1>3. Mutex' /\ SingleCloser' /\ FlagMatchesCloser' /\ AdmittedMeansOpen' /\ PastWait'
  <2>1. CASE \E m \in Messages : Publisher(m)
    BY <1>1, <2>1, LockStepPublisher
  <2>2. CASE \E c \in Closers : Closer(c)
    BY <1>1, <2>2, LockStepCloser
  <2>3. CASE \/ \E m \in Messages : Cancel(m)
             \/ \E s \in Streams : Receive(s)
             \/ UNCHANGED vars
    <3>1. UNCHANGED <<pc, publishMu, closeVars>>
      BY <2>3 DEF Cancel, Receive, vars, closeVars
    <3> QED BY <3>1 DEF IInv, Mutex, SingleCloser, FlagMatchesCloser, AdmittedMeansOpen,
                        PastWait, InsidePublish, closeVars
  <2> QED BY <2>1, <2>2, <2>3 DEF Next
<1> QED BY <1>1, <1>2, <1>3 DEF IInv

\* A new bus (NewMessageBus) satisfies the invariant.
LEMMA Initial == Init => IInv
<1> SUFFICES ASSUME Init PROVE IInv
  OBVIOUS
<1>1. TypeOK
  <2>1. /\ pc \in [Messages -> PublishPc]
        /\ result \in [Messages -> Results]
        /\ closePc \in [Closers -> ClosePc]
    BY DEF Init, PublishPc, Results, ClosePc
  <2>2. /\ chan \in [Streams -> Seq(Messages)]
        /\ delivered \in [Streams -> Seq(Messages)]
        /\ dropped \in [Streams -> Nat]
    BY DEF Init
  <2>3. cursor \in 1..6 /\ wg \in Nat
    BY DEF Init
  <2> QED BY <2>1, <2>2, <2>3 DEF Init, TypeOK
<1>2. WaitGroupCountsPublishers
  <2>1. {m \in Messages : InsidePublish(m)} = {} BY DEF Init, InsidePublish
  <2> QED BY <2>1, FS_EmptySet DEF Init, WaitGroupCountsPublishers
<1>3. Mutex /\ SingleCloser /\ FlagMatchesCloser /\ AdmittedMeansOpen /\ PastWait /\ CloseProgress
  BY BusAssumption DEF BusAssumption, Init, Mutex, SingleCloser, FlagMatchesCloser,
     AdmittedMeansOpen, PastWait, CloseProgress, InsidePublish
<1> QED BY <1>1, <1>2, <1>3 DEF IInv

\* The invariant holds throughout: the mutual exclusion of publishMu, the
\* count of the WaitGroup and the progress of Close, together.
THEOREM InductiveInvariant == Spec => []IInv
<1> QED BY Initial, Inductive, PTL DEF Spec

\* Every variable of the bus stays in its range; in particular the WaitGroup
\* never goes below zero.
THEOREM BusTypeOK == Spec => []TypeOK
<1>1. IInv => TypeOK BY DEF IInv
<1> QED BY <1>1, InductiveInvariant, PTL

\* No publisher ever stands at the select of publish with its channel closed:
\* a send on a closed channel cannot happen, whatever the number of
\* publishers and closers (bus.go, enterPublish against Close).
THEOREM BusNoSendOnClosedChannel == Spec => []NoSendOnClosedChannel
<1>1. IInv => NoSendOnClosedChannel
  BY DEF IInv, PastWait, CloseProgress, NoSendOnClosedChannel, InsidePublish
<1> QED BY <1>1, InductiveInvariant, PTL

\* The WaitGroup counts exactly the publishers between wg.Add and wg.Done.
THEOREM BusWaitGroup == Spec => []WaitGroupCountsPublishers
<1>1. IInv => WaitGroupCountsPublishers BY DEF IInv
<1> QED BY <1>1, InductiveInvariant, PTL

\* When Close returns to any caller, no publisher is inside, all channels are
\* closed and nothing is left buffered.
THEOREM BusCloseLeavesNothingBehind == Spec => []CloseLeavesNothingBehind
<1>1. IInv => CloseLeavesNothingBehind
  <2> SUFFICES ASSUME IInv, NEW c \in Closers, closePc[c] = "returned"
               PROVE  /\ \A m \in Messages : ~InsidePublish(m)
                      /\ chanClosed = Streams
                      /\ \A s \in Streams : chan[s] = <<>>
    BY DEF CloseLeavesNothingBehind
  <2>1. once \in Closers /\ closePc[once] = "returned"
    BY DEF IInv, SingleCloser
  <2>2. cursor = 6 /\ chanClosed = Streams /\ \A i \in 1..5 : i < cursor => chan[CloseOrder[i]] = <<>>
    BY <2>1 DEF IInv, CloseProgress
  <2>3. \A s \in Streams : chan[s] = <<>>
    BY <2>2, CloseOrderFacts
  <2> QED BY <2>1, <2>2, <2>3 DEF IInv, PastWait, AfterWait
<1> QED BY <1>1, InductiveInvariant, PTL

\* After Close has raised the flag the WaitGroup only goes down: no wg.Add
\* races with wg.Wait.
THEOREM BusNoEntryAfterClose == Spec => NoEntryAfterClose
<1>1. IInv /\ [Next]_vars => [closed => wg' <= wg]_vars
  <2> SUFFICES ASSUME IInv, [Next]_vars, closed PROVE wg' <= wg
    OBVIOUS
  <2>0. wg \in Nat /\ \A m \in Messages : ~EnterAdd(m)
    BY DEF IInv, TypeOK, AdmittedMeansOpen, EnterAdd
  <2>1. CASE \E m \in Messages : Publisher(m)
    BY <2>0, <2>1 DEF Publisher, RejectContext, EnterLock, EnterRefuse, EnterAdmit, Leave,
       SelectSend, SelectCancel, SelectDone, SelectTimer, Leaving
  <2>2. CASE \E c \in Closers : Closer(c)
    <3>1. wg' = wg
      BY <2>2 DEF Closer, CloseOnce, CloseAgain, CloseLock, CloseFlag, CloseDone, CloseWait,
                  CloseChannel, DrainOne, DrainNext, CloseReturn, CloseStep
    <3> QED BY <2>0, <3>1
  <2>3. CASE \/ \E m \in Messages : Cancel(m)
             \/ \E s \in Streams : Receive(s)
             \/ UNCHANGED vars
    <3>1. wg' = wg BY <2>3 DEF Cancel, Receive, vars
    <3> QED BY <2>0, <3>1
  <2> QED BY <2>1, <2>2, <2>3 DEF Next
<1> QED BY <1>1, InductiveInvariant, PTL DEF Spec, NoEntryAfterClose
-----------------------------------------------------------------------------
(***************************************************************************)
(* The bus implements its promise.  The mapping of MessageBus, by names:    *)
(***************************************************************************)
Status == [m \in Messages |->
             CASE result[m] = "none" -> "waiting"
               [] result[m] = "sent" -> "accepted"
               [] OTHER              -> "rejected"]

Phase == IF \E c \in Closers : closePc[c] = "returned" THEN "closed"
         ELSE IF chanClosed # {} THEN "shut" ELSE "open"

\* What the refinement needs on top of IInv: publish has a result exactly when
\* its goroutine has come past the select, so nothing is answered twice.
AnsweredOnce ==
  \A m \in Messages : result[m] = "none" <=> pc[m] \in {"idle", "locked", "admitted", "select"}

LEMMA AnsweredStep == IInv /\ AnsweredOnce /\ [Next]_vars => AnsweredOnce'
<1> SUFFICES ASSUME IInv, AnsweredOnce, [Next]_vars PROVE AnsweredOnce'
  OBVIOUS
<1>0. pc \in [Messages -> PublishPc] /\ result \in [Messages -> Results]
  BY DEF IInv, TypeOK
<1>1. ASSUME NEW m \in Messages, NEW to, pc' = [pc EXCEPT ![m] = to],
             \/ /\ result' = result
                /\ result[m] = "none" <=> to \in {"idle", "locked", "admitted", "select"}
             \/ \E r \in Results \ {"none"} : /\ result' = [result EXCEPT ![m] = r]
                                              /\ to \in {"leaving", "returned"}
      PROVE  AnsweredOnce'
  <2> SUFFICES ASSUME NEW n \in Messages
               PROVE  result'[n] = "none" <=> pc'[n] \in {"idle", "locked", "admitted", "select"}
    BY DEF AnsweredOnce
  <2>1. CASE n = m BY <1>0, <1>1, <2>1
  <2>2. CASE n # m
    <3>1. result'[n] = result[n] /\ pc'[n] = pc[n] BY <1>0, <1>1, <2>2
    <3> QED BY <3>1 DEF AnsweredOnce
  <2> QED BY <2>1, <2>2
<1>2. ASSUME NEW m \in Messages, Publisher(m) PROVE AnsweredOnce'
  <2> USE DEF AnsweredOnce, Results
  <2>1. CASE RejectContext(m) BY <1>1, <2>1 DEF RejectContext
  <2>2. CASE EnterLock(m) BY <1>1, <2>2 DEF EnterLock
  <2>3. CASE \E why \in {"closed", "canceled"} : EnterRefuse(m, why)
    <3>1. PICK why \in {"closed", "canceled"} : EnterRefuse(m, why) BY <2>3
    <3>2. /\ pc' = [pc EXCEPT ![m] = "returned"] /\ result' = [result EXCEPT ![m] = why]
          /\ why \in Results \ {"none"}
      BY <3>1 DEF EnterRefuse
    <3> QED BY <1>1, <3>2
  <2>4. CASE EnterAdmit(m) BY <1>1, <2>4 DEF EnterAdmit
  <2>5. CASE EnterAdd(m) BY <1>1, <2>5 DEF EnterAdd
  <2>6. CASE SelectSend(m) BY <1>1, <2>6 DEF SelectSend, Leaving
  <2>7. CASE SelectCancel(m) BY <1>1, <2>7 DEF SelectCancel, Leaving
  <2>8. CASE SelectDone(m) BY <1>1, <2>8 DEF SelectDone, Leaving
  <2>9. CASE SelectTimer(m) BY <1>1, <2>9 DEF SelectTimer, Leaving
  <2>10. CASE Leave(m) BY <1>1, <2>10 DEF Leave
  <2> QED BY <1>2, <2>1, <2>2, <2>3, <2>4, <2>5, <2>6, <2>7, <2>8, <2>9, <2>10 DEF Publisher
<1>3. ASSUME UNCHANGED <<pc, result>> PROVE AnsweredOnce'
  BY <1>3 DEF AnsweredOnce
<1>4. ASSUME NEW c \in Closers, Closer(c) PROVE UNCHANGED <<pc, result>>
  BY <1>4 DEF Closer, CloseOnce, CloseAgain, CloseLock, CloseFlag, CloseDone, CloseWait,
              CloseChannel, DrainOne, DrainNext, CloseReturn, CloseStep, publishVars
<1>5. ASSUME \/ \E m \in Messages : Cancel(m)
             \/ \E s \in Streams : Receive(s)
             \/ UNCHANGED vars
      PROVE  UNCHANGED <<pc, result>>
  BY <1>5 DEF Cancel, Receive, vars
<1> QED BY <1>2, <1>3, <1>4, <1>5 DEF Next

\* The phase of the promise, from the state of Close.
LEMMA PhaseFacts ==
  ASSUME IInv
  PROVE  /\ Phase = "open" <=> chanClosed = {}
         /\ \A c \in Closers : closePc[c] \in {"closing", "draining"} =>
              once = c /\ \A d \in Closers : closePc[d] # "returned"
         /\ \A c \in Closers : closePc[c] = "returned" => once \in Closers /\ closePc[once] = "returned"
<1>1. \A c \in Closers : closePc[c] = "returned" => once \in Closers /\ closePc[once] = "returned"
  BY DEF IInv, SingleCloser
<1>2. Streams # {} BY DEF Streams
<1>3. (\E c \in Closers : closePc[c] = "returned") => chanClosed # {}
  BY <1>1, <1>2 DEF IInv, CloseProgress
<1>4. \A c \in Closers : closePc[c] \in {"closing", "draining"} =>
        once = c /\ \A d \in Closers : closePc[d] # "returned"
  BY <1>1, OnceHolder
<1> QED BY <1>1, <1>3, <1>4 DEF Phase

\* What a step may do to the variables of the promise.
LEMMA PublisherPromise ==
  ASSUME IInv, AnsweredOnce, NEW m \in Messages, Publisher(m)
  PROVE  [Promise!Next]_(Promise!vars)
<1> USE DEF channelVars, closeVars
<1>0. /\ result \in [Messages -> Results] /\ chan \in [Streams -> Seq(Messages)]
      /\ StreamOf[m] \in Streams
      /\ Promise!vars = <<Status, chan, delivered, discarded, Phase>>
      /\ Promise!vars' = <<Status', chan', delivered', discarded', Phase'>>
  BY BusAssumption DEF BusAssumption, IInv, TypeOK, Promise!vars, Status, Phase
<1>1. /\ UNCHANGED <<delivered, discarded, chanClosed, closePc>>
      /\ \/ UNCHANGED <<result, chan>>
         \/ /\ result[m] = "none"
            /\ \E r \in Results \ {"none", "sent"} : result' = [result EXCEPT ![m] = r]
            /\ chan' = chan
         \/ SelectSend(m)
  <2> USE DEF AnsweredOnce, Results
  <2>1. CASE RejectContext(m) BY <2>1 DEF RejectContext
  <2>2. CASE EnterLock(m) BY <2>2 DEF EnterLock
  <2>3. CASE \E why \in {"closed", "canceled"} : EnterRefuse(m, why) BY <2>3 DEF EnterRefuse
  <2>4. CASE EnterAdmit(m) BY <2>4 DEF EnterAdmit
  <2>5. CASE EnterAdd(m) BY <2>5 DEF EnterAdd
  <2>6. CASE SelectSend(m) BY <2>6 DEF SelectSend, Leaving
  <2>7. CASE SelectCancel(m) BY <2>7 DEF SelectCancel, Leaving
  <2>8. CASE SelectDone(m) BY <2>8 DEF SelectDone, Leaving
  <2>9. CASE SelectTimer(m) BY <2>9 DEF SelectTimer, Leaving
  <2>10. CASE Leave(m) BY <2>10 DEF Leave
  <2> QED BY <2>1, <2>2, <2>3, <2>4, <2>5, <2>6, <2>7, <2>8, <2>9, <2>10 DEF Publisher
<1>2. Phase' = Phase BY <1>1 DEF Phase
<1>3. CASE UNCHANGED <<result, chan>>
  <2>1. Status' = Status BY <1>3 DEF Status
  <2> QED BY <1>0, <1>1, <1>2, <1>3, <2>1
<1>4. CASE /\ result[m] = "none"
           /\ \E r \in Results \ {"none", "sent"} : result' = [result EXCEPT ![m] = r]
           /\ chan' = chan
  <2>1. PICK r \in Results \ {"none", "sent"} : result' = [result EXCEPT ![m] = r] BY <1>4
  <2>2. Status[m] = "waiting" BY <1>4 DEF Status
  <2>3. Status' = [Status EXCEPT ![m] = "rejected"] BY <1>0, <2>1 DEF Status
  <2>4. Promise!Reject(m) BY <1>1, <1>2, <1>4, <2>2, <2>3 DEF Promise!Reject, Status, Phase
  <2> QED BY <2>4 DEF Promise!Next
<1>5. CASE SelectSend(m)
  <2>1. chanClosed = {}
    BY <1>5, InsideMeansNotPastWait DEF SelectSend, Leaving, InsidePublish, IInv, CloseProgress
  <2>2. Phase = "open" BY <2>1, PhaseFacts
  <2>3. result[m] = "none" /\ result' = [result EXCEPT ![m] = "sent"]
    BY <1>5 DEF SelectSend, Leaving, AnsweredOnce
  <2>4. Status[m] = "waiting" BY <2>3 DEF Status
  <2>5. Status' = [Status EXCEPT ![m] = "accepted"] BY <1>0, <2>3 DEF Status
  <2>6. /\ Len(chan[StreamOf[m]]) < Capacity[StreamOf[m]]
        /\ chan' = [chan EXCEPT ![StreamOf[m]] = Append(@, m)]
    BY <1>5 DEF SelectSend
  <2>7. Promise!Accept(m)
    BY <1>1, <1>2, <2>2, <2>4, <2>5, <2>6 DEF Promise!Accept, Status, Phase
  <2> QED BY <2>7 DEF Promise!Next
<1> QED BY <1>1, <1>3, <1>4, <1>5

LEMMA CloserPromise ==
  ASSUME IInv, NEW c \in Closers, Closer(c)
  PROVE  [Promise!Next]_(Promise!vars)
<1> USE DEF CloseStep, publishVars
<1>0. /\ closePc \in [Closers -> ClosePc]
      /\ Promise!vars = <<Status, chan, delivered, discarded, Phase>>
      /\ Promise!vars' = <<Status', chan', delivered', discarded', Phase'>>
  BY DEF IInv, TypeOK, Promise!vars, Status, Phase
<1>1. UNCHANGED <<Status, delivered>>
  <2>1. UNCHANGED <<result, delivered>>
    BY DEF Closer, CloseOnce, CloseAgain, CloseLock, CloseFlag, CloseDone, CloseWait,
           CloseChannel, DrainOne, DrainNext, CloseReturn
  <2> QED BY <2>1 DEF Status
<1>2. CASE \/ CloseOnce(c) \/ CloseLock(c) \/ CloseFlag(c) \/ CloseDone(c) \/ CloseWait(c)
           \/ DrainNext(c)
  <2>1. UNCHANGED <<chan, chanClosed, discarded>>
    BY <1>2 DEF CloseOnce, CloseLock, CloseFlag, CloseDone, CloseWait, DrainNext
  <2>2. \A d \in Closers : closePc'[d] = "returned" <=> closePc[d] = "returned"
    BY <1>0, <1>2 DEF CloseOnce, CloseLock, CloseFlag, CloseDone, CloseWait, DrainNext
  <2>3. Phase' = Phase BY <2>1, <2>2 DEF Phase
  <2> QED BY <1>0, <1>1, <2>1, <2>3
<1>3. CASE CloseAgain(c)
  <2>1. UNCHANGED <<chan, chanClosed, discarded>> BY <1>3 DEF CloseAgain
  <2>2. once \in Closers /\ closePc[once] = "returned" /\ closePc'[once] = "returned"
    BY <1>0, <1>3 DEF CloseAgain, IInv, TypeOK
  <2>3. Phase' = Phase BY <2>2 DEF Phase
  <2> QED BY <1>0, <1>1, <2>1, <2>3
<1>4. CASE CloseChannel(c)
  <2>1. /\ UNCHANGED <<chan, discarded>>
        /\ closePc[c] = "closing"
        /\ chanClosed' = chanClosed \cup {CloseOrder[cursor]}
        /\ \E to \in {"draining", "closing"} : closePc' = [closePc EXCEPT ![c] = to]
    BY <1>4 DEF CloseChannel
  <2>2. \A d \in Closers : closePc[d] # "returned"
    BY <2>1, PhaseFacts
  <2>3. \A d \in Closers : closePc'[d] # "returned"
    BY <1>0, <2>1, <2>2
  <2>4. Phase' = "shut" BY <2>1, <2>3 DEF Phase
  <2>5. CASE chanClosed = {}
    <3>1. Phase = "open" BY <2>5, PhaseFacts
    <3>2. Promise!Shut BY <1>1, <2>1, <2>4, <3>1 DEF Promise!Shut, Status, Phase
    <3> QED BY <3>2 DEF Promise!Next
  <2>6. CASE chanClosed # {}
    <3>1. Phase = "shut" BY <2>2, <2>6 DEF Phase
    <3> QED BY <1>0, <1>1, <2>1, <2>4, <3>1
  <2> QED BY <2>5, <2>6
<1>5. CASE DrainOne(c)
  <2> DEFINE s == CloseOrder[cursor]
  <2>1. /\ closePc[c] = "draining" /\ closePc' = [closePc EXCEPT ![c] = "draining"]
        /\ UNCHANGED chanClosed
        /\ cursor <= 5 /\ chan[s] # <<>>
        /\ discarded' = discarded \cup {Head(chan[s])}
        /\ chan' = [chan EXCEPT ![s] = Tail(@)]
    BY <1>5, CloseOrderFacts DEF DrainOne
  <2>2. s \in Streams
    <3>1. cursor \in 1..5 BY <2>1 DEF IInv, TypeOK
    <3> QED BY <3>1, CloseOrderFacts
  <2>3. \A d \in Closers : closePc[d] # "returned" BY <2>1, PhaseFacts
  <2>4. \A d \in Closers : closePc'[d] # "returned" BY <1>0, <2>1, <2>3
  <2>5. chanClosed # {}
    <3>1. once = c BY <2>1, PhaseFacts
    <3>2. chanClosed = Streams BY <2>1, <3>1 DEF IInv, CloseProgress
    <3> QED BY <3>2 DEF Streams
  <2>6. Phase = "shut" /\ Phase' = "shut" BY <2>1, <2>3, <2>4, <2>5 DEF Phase
  <2> HIDE DEF s
  <2>7. Promise!Discard(s) BY <1>1, <2>1, <2>6 DEF Promise!Discard, Status, Phase
  <2> QED BY <2>2, <2>7 DEF Promise!Next
<1>6. CASE CloseReturn(c)
  <2>1. /\ closePc[c] = "draining" /\ closePc' = [closePc EXCEPT ![c] = "returned"]
        /\ UNCHANGED <<chan, chanClosed, discarded>> /\ cursor > 5
    BY <1>6, CloseOrderFacts DEF CloseReturn
  <2>2. once = c /\ \A d \in Closers : closePc[d] # "returned" BY <2>1, PhaseFacts
  <2>3. /\ chanClosed = Streams /\ cursor = 6
        /\ \A i \in 1..5 : i < cursor => chan[CloseOrder[i]] = <<>>
    BY <2>1, <2>2 DEF IInv, CloseProgress, TypeOK
  <2>4. \A s \in Streams : chan[s] = <<>> BY <2>3, CloseOrderFacts
  <2>5. Phase = "shut" BY <2>2, <2>3 DEF Phase, Streams
  <2>6. Phase' = "closed" BY <1>0, <2>1 DEF Phase
  <2>7. Promise!Finish BY <1>1, <2>1, <2>4, <2>5, <2>6 DEF Promise!Finish, Status, Phase
  <2> QED BY <2>7 DEF Promise!Next
<1> QED BY <1>2, <1>3, <1>4, <1>5, <1>6 DEF Closer

LEMMA OtherPromise ==
  ASSUME \/ \E m \in Messages : Cancel(m)
         \/ \E s \in Streams : Receive(s)
         \/ UNCHANGED vars
  PROVE  [Promise!Next]_(Promise!vars)
<1> USE DEF channelVars, closeVars
<1>1. UNCHANGED <<result, discarded, chanClosed, closePc>>
  BY DEF Cancel, Receive, vars
<1>2. UNCHANGED <<Status, Phase>> BY <1>1 DEF Status, Phase
<1>3. CASE \E s \in Streams : Receive(s)
  <2>1. PICK s \in Streams : Receive(s) BY <1>3
  <2>2. Promise!Deliver(s) BY <1>1, <1>2, <2>1 DEF Receive, Promise!Deliver, Status, Phase
  <2> QED BY <2>2 DEF Promise!Next
<1>4. CASE (\E m \in Messages : Cancel(m)) \/ UNCHANGED vars
  <2>1. UNCHANGED <<chan, delivered>> BY <1>4 DEF Cancel, vars
  <2> QED BY <1>1, <1>2, <2>1 DEF Promise!vars, Status, Phase
<1> QED BY <1>3, <1>4

LEMMA PromiseInit == Init => Promise!Init /\ AnsweredOnce
<1> SUFFICES ASSUME Init PROVE Promise!Init /\ AnsweredOnce
  OBVIOUS
<1>1. AnsweredOnce BY DEF Init, AnsweredOnce
<1>2. Status = [m \in Messages |-> "waiting"] BY DEF Init, Status
<1>3. Phase = "open" BY DEF Init, Phase
<1> QED BY <1>1, <1>2, <1>3 DEF Init, Promise!Init, Status, Phase

\* The five channels, the mutex, the WaitGroup and the goroutines of Close
\* implement the bounded queues of BusPromise: with any number of publishers
\* and closers no message is accepted twice, reordered, lost while the bus is
\* open, accepted once a channel has been closed, or left behind when Close
\* returns.
THEOREM BusKeepsPromise == Spec => KeepsPromise
<1>1. IInv /\ AnsweredOnce /\ [Next]_vars => [Promise!Next]_(Promise!vars)
  <2> SUFFICES ASSUME IInv, AnsweredOnce, [Next]_vars PROVE [Promise!Next]_(Promise!vars)
    OBVIOUS
  <2> QED BY PublisherPromise, CloserPromise, OtherPromise DEF Next
<1>2. Init => IInv /\ AnsweredOnce /\ Promise!Init BY Initial, PromiseInit
<1>3. IInv /\ AnsweredOnce /\ [Next]_vars => (IInv /\ AnsweredOnce)'
  BY Inductive, AnsweredStep
<1> QED BY <1>1, <1>2, <1>3, PTL DEF Spec, KeepsPromise, Promise!Spec
=============================================================================
