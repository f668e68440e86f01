----------------------------- MODULE BusPromise -----------------------------
(***************************************************************************)
(* What the message bus promises its users, with no goroutine, lock or     *)
(* WaitGroup in sight.  Each stream is a bounded FIFO queue.  A published  *)
(* message is accepted or rejected, once.  While the bus is open nothing   *)
(* accepted is lost; once it is shut nothing more is accepted, and what is *)
(* still queued is either delivered or discarded before it counts as       *)
(* closed.                                                                 *)
(***************************************************************************)
EXTENDS Naturals, Sequences

CONSTANTS Messages, Streams, StreamOf, Capacity

VARIABLES status, queue, delivered, discarded, phase

vars == <<status, queue, delivered, discarded, phase>>

Init ==
  /\ status = [m \in Messages |-> "waiting"]
  /\ queue = [s \in Streams |-> <<>>]
  /\ delivered = [s \in Streams |-> <<>>]
  /\ discarded = {}
  /\ phase = "open"

Accept(m) ==
  /\ phase = "open"
  /\ status[m] = "waiting"
  /\ Len(queue[StreamOf[m]]) < Capacity[StreamOf[m]]
  /\ status' = [status EXCEPT ![m] = "accepted"]
  /\ queue' = [queue EXCEPT ![StreamOf[m]] = Append(@, m)]
  /\ UNCHANGED <<delivered, discarded, phase>>

Reject(m) ==
  /\ status[m] = "waiting"
  /\ status' = [status EXCEPT ![m] = "rejected"]
  /\ UNCHANGED <<queue, delivered, discarded, phase>>

Deliver(s) ==
  /\ queue[s] # <<>>
  /\ delivered' = [delivered EXCEPT ![s] = Append(@, Head(queue[s]))]
  /\ queue' = [queue EXCEPT ![s] = Tail(@)]
  /\ UNCHANGED <<status, discarded, phase>>

Shut ==
  /\ phase = "open"
  /\ phase' = "shut"
  /\ UNCHANGED <<status, queue, delivered, discarded>>

Discard(s) ==
  /\ phase = "shut"
  /\ queue[s] # <<>>
  /\ discarded' = discarded \cup {Head(queue[s])}
  /\ queue' = [queue EXCEPT ![s] = Tail(@)]
  /\ UNCHANGED <<status, delivered, phase>>

Finish ==
  /\ phase = "shut"
  /\ \A s \in Streams : queue[s] = <<>>
  /\ phase' = "closed"
  /\ UNCHANGED <<status, queue, delivered, discarded>>

Next ==
  \/ \E m \in Messages : Accept(m) \/ Reject(m)
  \/ \E s \in Streams : Deliver(s) \/ Discard(s)
  \/ Shut
  \/ Finish

Spec == Init /\ [][Next]_vars
=============================================================================
