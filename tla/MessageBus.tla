----------------------------- MODULE MessageBus -----------------------------
(***************************************************************************)
(* The in-process message bus of pkg/bus/bus.go: five buffered Go channels *)
(* that every channel adapter, the agent loop and the voice pipeline       *)
(* publish to, and one Close that must not race with the publishers.       *)
(*                                                                         *)
(* A message stands for the goroutine that publishes it: pc[m] is where    *)
(* that goroutine is inside publish, result[m] what the call returned.     *)
(* A closer is a goroutine that calls Close.  The mutex publishMu, the     *)
(* atomic flag closed, the channel done and the WaitGroup wg are modelled  *)
(* one by one, because the property that matters (nobody ever sends on a   *)
(* closed channel) is owed to the order in which they are touched.         *)
(***************************************************************************)
EXTENDS Integers, Sequences, FiniteSets

CONSTANTS
  Messages,     \* one element per call of a Publish* method
  Closers,      \* goroutines that call Close
  StreamOf,     \* the stream each message is published to
  NoContext,    \* messages whose Context is zero
  Capacity,     \* make(chan T, n): 64 per stream, 256 for audio
  Free          \* publishMu is held by nobody

Streams == {"inbound", "outbound", "outbound_media", "audio_chunk", "voice_control"}

\* The order in which Close closes, then drains, the five channels.
CloseOrder == <<"inbound", "outbound", "outbound_media", "audio_chunk", "voice_control">>

\* Streams whose publishPolicy has a positive timeout.
TimedStreams == {"audio_chunk"}

\* Streams whose Publish* method rejects a message without a context.
ContextStreams == {"inbound", "outbound", "outbound_media"}

ASSUME BusAssumption ==
  /\ IsFiniteSet(Messages)
  /\ StreamOf \in [Messages -> Streams]
  /\ NoContext \subseteq Messages
  /\ Capacity \in [Streams -> Nat \ {0}]
  /\ Messages \cap Closers = {}
  /\ Free \notin Messages \cup Closers

VARIABLES
  pc,          \* [Messages -> PublishPc]
  result,      \* [Messages -> Results], what publish returned
  cancelled,   \* messages whose ctx is done
  chan,        \* [Streams -> Seq(Messages)], the buffered channels
  chanClosed,  \* streams whose channel has been closed
  delivered,   \* [Streams -> Seq(Messages)], received by the stream's readers
  discarded,   \* messages the drain loop of Close threw away
  dropped,     \* [Streams -> Nat], streamStats.dropped
  publishMu,   \* holder of publishMu
  wg,          \* counter of the WaitGroup
  closed,      \* the atomic flag
  done,        \* close(mb.done) has happened
  once,        \* holder of closeOnce, Free before the first Close
  closePc,     \* [Closers -> ClosePc]
  cursor       \* next index of CloseOrder to close or drain

vars == <<pc, result, cancelled, chan, chanClosed, delivered, discarded, dropped,
          publishMu, wg, closed, done, once, closePc, cursor>>

channelVars == <<chan, chanClosed, delivered, discarded>>
closeVars   == <<closed, done, once, closePc, cursor>>

PublishPc == {"idle", "locked", "admitted", "select", "leaving", "returned"}
Results   == {"none", "sent", "closed", "canceled", "dropped", "no_context"}
ClosePc   == {"idle", "once", "locked", "flagged", "waiting", "closing", "draining", "returned"}

TypeOK ==
  /\ pc \in [Messages -> PublishPc]
  /\ result \in [Messages -> Results]
  /\ cancelled \subseteq Messages
  /\ chan \in [Streams -> Seq(Messages)]
  /\ chanClosed \subseteq Streams
  /\ delivered \in [Streams -> Seq(Messages)]
  /\ discarded \subseteq Messages
  /\ dropped \in [Streams -> Nat]
  /\ publishMu \in Messages \cup Closers \cup {Free}
  /\ wg \in Nat
  /\ closed \in BOOLEAN
  /\ done \in BOOLEAN
  /\ once \in Closers \cup {Free}
  /\ closePc \in [Closers -> ClosePc]
  /\ cursor \in 1..6

Init ==
  /\ pc = [m \in Messages |-> "idle"]
  /\ result = [m \in Messages |-> "none"]
  /\ cancelled = {}
  /\ chan = [s \in Streams |-> <<>>]
  /\ chanClosed = {}
  /\ delivered = [s \in Streams |-> <<>>]
  /\ discarded = {}
  /\ dropped = [s \in Streams |-> 0]
  /\ publishMu = Free
  /\ wg = 0
  /\ closed = FALSE
  /\ done = FALSE
  /\ once = Free
  /\ closePc = [c \in Closers |-> "idle"]
  /\ cursor = 1

-----------------------------------------------------------------------------
(***************************************************************************)
(* enterPublish: a critical section of publishMu that ends in wg.Add(1) or *)
(* in an error.                                                            *)
(***************************************************************************)

MissingContext(m) == m \in NoContext /\ StreamOf[m] \in ContextStreams

\* PublishInbound, PublishOutbound, PublishOutboundMedia: Context.isZero().
RejectContext(m) ==
  /\ pc[m] = "idle"
  /\ MissingContext(m)
  /\ pc' = [pc EXCEPT ![m] = "returned"]
  /\ result' = [result EXCEPT ![m] = "no_context"]
  /\ UNCHANGED <<cancelled, channelVars, dropped, publishMu, wg, closeVars>>

EnterLock(m) ==
  /\ pc[m] = "idle"
  /\ ~MissingContext(m)
  /\ publishMu = Free
  /\ publishMu' = m
  /\ pc' = [pc EXCEPT ![m] = "locked"]
  /\ UNCHANGED <<result, cancelled, channelVars, dropped, wg, closeVars>>

EnterRefuse(m, why) ==
  /\ pc[m] = "locked"
  /\ \/ why = "closed" /\ (closed \/ done)
     \/ why = "canceled" /\ ~closed /\ m \in cancelled
  /\ publishMu' = Free
  /\ pc' = [pc EXCEPT ![m] = "returned"]
  /\ result' = [result EXCEPT ![m] = why]
  /\ UNCHANGED <<cancelled, channelVars, dropped, wg, closeVars>>

EnterAdmit(m) ==
  /\ pc[m] = "locked"
  /\ ~closed
  /\ ~done
  /\ m \notin cancelled
  /\ pc' = [pc EXCEPT ![m] = "admitted"]
  /\ UNCHANGED <<result, cancelled, channelVars, dropped, publishMu, wg, closeVars>>

EnterAdd(m) ==
  /\ pc[m] = "admitted"
  /\ wg' = wg + 1
  /\ publishMu' = Free
  /\ pc' = [pc EXCEPT ![m] = "select"]
  /\ UNCHANGED <<result, cancelled, channelVars, dropped, closeVars>>

-----------------------------------------------------------------------------
(***************************************************************************)
(* The select of publish.  Go takes any ready case.  The timer case exists *)
(* only under a positive timeout; it may be taken with room in the channel *)
(* too, when the goroutine reaches the select after the timer has fired.   *)
(***************************************************************************)

Leaving(m, r) ==
  /\ pc[m] = "select"
  /\ pc' = [pc EXCEPT ![m] = "leaving"]
  /\ result' = [result EXCEPT ![m] = r]
  /\ UNCHANGED <<cancelled, chanClosed, delivered, discarded, publishMu, wg, closeVars>>

SelectSend(m) ==
  /\ Len(chan[StreamOf[m]]) < Capacity[StreamOf[m]]
  /\ Leaving(m, "sent")
  /\ chan' = [chan EXCEPT ![StreamOf[m]] = Append(@, m)]
  /\ UNCHANGED dropped

SelectCancel(m) ==
  /\ m \in cancelled
  /\ Leaving(m, "canceled")
  /\ UNCHANGED <<chan, dropped>>

\* Mutant: no case for done in the select.
SelectDoneMissing(m) ==
  /\ FALSE
  /\ Leaving(m, "closed")
  /\ UNCHANGED <<chan, dropped>>

SelectDone(m) ==
  /\ done
  /\ Leaving(m, "closed")
  /\ UNCHANGED <<chan, dropped>>

\* Mutant: reported as dropped, although it went into the channel.
SelectTimerSends(m) ==
  /\ StreamOf[m] \in TimedStreams
  /\ Len(chan[StreamOf[m]]) < Capacity[StreamOf[m]]
  /\ Leaving(m, "dropped")
  /\ chan' = [chan EXCEPT ![StreamOf[m]] = Append(@, m)]
  /\ dropped' = [dropped EXCEPT ![StreamOf[m]] = @ + 1]

SelectTimer(m) ==
  /\ StreamOf[m] \in TimedStreams
  /\ Leaving(m, "dropped")
  /\ dropped' = [dropped EXCEPT ![StreamOf[m]] = @ + 1]
  /\ UNCHANGED chan

\* defer mb.wg.Done()
Leave(m) ==
  /\ pc[m] = "leaving"
  /\ wg' = wg - 1
  /\ pc' = [pc EXCEPT ![m] = "returned"]
  /\ UNCHANGED <<result, cancelled, channelVars, dropped, publishMu, closeVars>>

\* The caller's context ends before or while Publish looks at it.
Cancel(m) ==
  /\ pc[m] \in {"idle", "locked", "admitted", "select"}
  /\ ~MissingContext(m)
  /\ m \notin cancelled
  /\ cancelled' = cancelled \cup {m}
  /\ UNCHANGED <<pc, result, channelVars, dropped, publishMu, wg, closeVars>>

\* A reader of InboundChan(), OutboundChan(), ... takes the head; it goes on
\* doing so after the channel is closed, next to the drain loop of Close.
Receive(s) ==
  /\ chan[s] # <<>>
  /\ delivered' = [delivered EXCEPT ![s] = Append(@, Head(chan[s]))]
  /\ chan' = [chan EXCEPT ![s] = Tail(@)]
  /\ UNCHANGED <<pc, result, cancelled, chanClosed, discarded, dropped, publishMu, wg, closeVars>>

-----------------------------------------------------------------------------
(***************************************************************************)
(* Close, run by the first caller of closeOnce.Do; a later caller blocks   *)
(* until the first has finished and then returns.                          *)
(***************************************************************************)

publishVars == <<pc, result, cancelled, dropped>>

CloseStep(c, from, to) ==
  /\ closePc[c] = from
  /\ closePc' = [closePc EXCEPT ![c] = to]
  /\ UNCHANGED <<publishVars, wg, delivered>>

CloseOnce(c) ==
  /\ once = Free
  /\ CloseStep(c, "idle", "once")
  /\ once' = c
  /\ UNCHANGED <<chan, chanClosed, discarded, publishMu, closed, done, cursor>>

CloseAgain(c) ==
  /\ once # Free
  /\ closePc[once] = "returned"
  /\ CloseStep(c, "idle", "returned")
  /\ UNCHANGED <<once, chan, chanClosed, discarded, publishMu, closed, done, cursor>>

CloseLock(c) ==
  /\ publishMu = Free
  /\ CloseStep(c, "once", "locked")
  /\ publishMu' = c
  /\ UNCHANGED <<once, chan, chanClosed, discarded, closed, done, cursor>>

CloseFlag(c) ==
  /\ CloseStep(c, "locked", "flagged")
  /\ closed' = TRUE
  /\ UNCHANGED <<once, chan, chanClosed, discarded, publishMu, done, cursor>>

CloseDone(c) ==
  /\ CloseStep(c, "flagged", "waiting")
  /\ done' = TRUE
  /\ publishMu' = Free
  /\ UNCHANGED <<once, chan, chanClosed, discarded, closed, cursor>>

\* Mutant: the channels are closed without waiting for the publishers.
CloseWaitSkipped(c) ==
  /\ CloseStep(c, "waiting", "closing")
  /\ UNCHANGED <<once, chan, chanClosed, discarded, publishMu, closed, done, cursor>>

CloseWait(c) ==
  /\ wg = 0
  /\ CloseStep(c, "waiting", "closing")
  /\ UNCHANGED <<once, chan, chanClosed, discarded, publishMu, closed, done, cursor>>

\* Mutant: the buffers are not drained after the last close.
CloseChannelNoDrain(c) ==
  /\ CloseStep(c, "closing", IF cursor = Len(CloseOrder) THEN "draining" ELSE "closing")
  /\ chanClosed' = chanClosed \cup {CloseOrder[cursor]}
  /\ cursor' = cursor + 1
  /\ UNCHANGED <<once, chan, discarded, publishMu, closed, done>>

\* close(mb.inbound) ... close(mb.voiceControls)
CloseChannel(c) ==
  /\ CloseStep(c, "closing", IF cursor = Len(CloseOrder) THEN "draining" ELSE "closing")
  /\ chanClosed' = chanClosed \cup {CloseOrder[cursor]}
  /\ cursor' = IF cursor = Len(CloseOrder) THEN 1 ELSE cursor + 1
  /\ UNCHANGED <<once, chan, discarded, publishMu, closed, done>>

\* One iteration of `for range ch`: a message is thrown away.
DrainOne(c) ==
  /\ cursor <= Len(CloseOrder)
  /\ chan[CloseOrder[cursor]] # <<>>
  /\ CloseStep(c, "draining", "draining")
  /\ discarded' = discarded \cup {Head(chan[CloseOrder[cursor]])}
  /\ chan' = [chan EXCEPT ![CloseOrder[cursor]] = Tail(@)]
  /\ UNCHANGED <<once, chanClosed, publishMu, closed, done, cursor>>

\* The range loop ends on an empty closed channel.
DrainNext(c) ==
  /\ cursor <= Len(CloseOrder)
  /\ chan[CloseOrder[cursor]] = <<>>
  /\ CloseStep(c, "draining", "draining")
  /\ cursor' = cursor + 1
  /\ UNCHANGED <<once, chan, chanClosed, discarded, publishMu, closed, done>>

CloseReturn(c) ==
  /\ cursor > Len(CloseOrder)
  /\ CloseStep(c, "draining", "returned")
  /\ UNCHANGED <<once, chan, chanClosed, discarded, publishMu, closed, done, cursor>>

-----------------------------------------------------------------------------
Publisher(m) ==
  \/ RejectContext(m)
  \/ EnterLock(m)
  \/ \E why \in {"closed", "canceled"} : EnterRefuse(m, why)
  \/ EnterAdmit(m)
  \/ EnterAdd(m)
  \/ SelectSend(m)
  \/ SelectCancel(m)
  \/ SelectDone(m)
  \/ SelectTimer(m)
  \/ Leave(m)

Closer(c) ==
  \/ CloseOnce(c)
  \/ CloseAgain(c)
  \/ CloseLock(c)
  \/ CloseFlag(c)
  \/ CloseDone(c)
  \/ CloseWait(c)
  \/ CloseChannel(c)
  \/ DrainOne(c)
  \/ DrainNext(c)
  \/ CloseReturn(c)

Next ==
  \/ \E m \in Messages : Publisher(m) \/ Cancel(m)
  \/ \E s \in Streams : Receive(s)
  \/ \E c \in Closers : Closer(c)

Spec == Init /\ [][Next]_vars

\* Fairness of the Go scheduler: a goroutine that can run does run, and the
\* timer of a timed select fires.  Nothing is assumed of the readers, of the
\* callers' contexts, or that anybody ever calls Close.
CloseCalled(c) == closePc[c] # "idle"

Fairness ==
  /\ \A m \in Messages : WF_vars(pc[m] # "idle" /\ Publisher(m))
  /\ \A c \in Closers : WF_vars(CloseCalled(c) /\ Closer(c))

LiveSpec == Spec /\ Fairness

-----------------------------------------------------------------------------
(***************************************************************************)
(* Properties                                                              *)
(***************************************************************************)

InsidePublish(m) == pc[m] \in {"select", "leaving"}

\* A goroutine that stands at the select of publish never finds its channel
\* closed: Close closes the channels only after every publisher has left, so
\* `ch <- msg` cannot panic (bus.go: enterPublish, wg.Wait, close).
NoSendOnClosedChannel ==
  \A m \in Messages : pc[m] = "select" => StreamOf[m] \notin chanClosed

\* The counter of the WaitGroup is the number of publishers between wg.Add
\* and wg.Done; it never goes below zero (which panics) and zero means that
\* nobody is inside.
WaitGroupCountsPublishers ==
  wg = Cardinality({m \in Messages : InsidePublish(m)})

\* Close returns, to every caller of it, only when no publisher is inside,
\* every channel is closed and nothing is left buffered.
CloseLeavesNothingBehind ==
  (\E c \in Closers : closePc[c] = "returned") =>
    /\ \A m \in Messages : ~InsidePublish(m)
    /\ chanClosed = Streams
    /\ \A s \in Streams : chan[s] = <<>>

\* Once Close has raised the flag no publisher enters: the WaitGroup only
\* goes down, so wg.Wait is never raced by a late wg.Add.
NoEntryAfterClose == [][closed => wg' <= wg]_vars

\* Close cannot be held up by a publisher blocked on a full channel that
\* nobody reads: the close of done wakes it.  A call of Close is made once by
\* each closer, so all that were made have returned in the end.
CloseTerminates == []<>(\A c \in Closers : closePc[c] \in {"idle", "returned"})

\* A publisher of a timed stream, and any publisher of a closed bus, returns
\* even if nobody ever reads.
PublishReturns ==
  []<>(\A m \in Messages :
         done \/ StreamOf[m] \in TimedStreams => pc[m] \notin {"select", "leaving"})

-----------------------------------------------------------------------------
(***************************************************************************)
(* The bus implements its promise.                                         *)
(***************************************************************************)
Promise ==
  INSTANCE BusPromise WITH
    status <- [m \in Messages |->
                 CASE result[m] = "none" -> "waiting"
                   [] result[m] = "sent" -> "accepted"
                   [] OTHER              -> "rejected"],
    queue  <- chan,
    phase  <- IF \E c \in Closers : closePc[c] = "returned" THEN "closed"
              ELSE IF chanClosed # {} THEN "shut" ELSE "open"

\* Every behaviour of the goroutines is one of the plain bounded queues of
\* BusPromise: no message is accepted twice, reordered, lost while the bus is
\* open, or accepted once a channel has been closed.
KeepsPromise == Promise!Spec
=============================================================================
