------------------------------ MODULE AgentLoop ------------------------------
(***************************************************************************)
(* How the agent loop (pkg/agent) admits messages: which inbound message   *)
(* becomes a worker goroutine with a turn of its own, which one becomes a  *)
(* steering message of a turn under way, and what /stop, a panic or the    *)
(* end of the context does to either.                                      *)
(*                                                                         *)
(* A session is claimed by an entry of activeTurnStates: the placeholder   *)
(* of a worker, the placeholder of a Continue, or the turnState of a turn. *)
(* An entry is written [kind, by], where `by` is the message whose worker  *)
(* made it; a worker has at most one entry of each kind at a time.  Every  *)
(* operation on the sync.Maps and on the steering queue is atomic, and     *)
(* what lies between two of them is where other goroutines interleave.     *)
(*                                                                         *)
(* What happens inside a turn is TurnLoop; here a turn polls its steering  *)
(* queue any number of times and ends with some outcome.                   *)
(***************************************************************************)
EXTENDS Integers, Sequences, FiniteSets

CONSTANTS
  Messages,          \* inbound messages, in any order of arrival
  Sessions,          \* session keys
  SessionOf,         \* [Messages -> Sessions], resolveSteeringTarget
  KindOf,            \* [Messages -> MessageKinds]
  MaxParallelTurns,  \* capacity of workerSem
  MaxQueueSize,      \* capacity of a steering queue (10)
  Panics,            \* messages whose worker may panic
  SteeringAll,       \* SteeringMode: TRUE is "all", FALSE "one-at-a-time"
  MayShutdown,       \* whether the context of Run may end
  None

\* "chat" runs a turn, "command" is answered without one, "stop" is /stop,
\* "system" is not routable and runs in the goroutine of the receive loop.
MessageKinds == {"chat", "command", "stop", "system"}

\* An entry of activeTurnStates.
Entry == [kind : {"pending", "continue", "turn"}, by : Messages]

ASSUME AgentLoopAssumption ==
  /\ IsFiniteSet(Messages)
  /\ SessionOf \in [Messages -> Sessions]
  /\ KindOf \in [Messages -> MessageKinds]
  /\ MaxParallelTurns \in Nat \ {0}
  /\ MaxQueueSize \in Nat \ {0}
  /\ Panics \subseteq Messages
  /\ SteeringAll \in BOOLEAN
  /\ MayShutdown \in BOOLEAN
  /\ None \notin Messages \cup Entry
  \* no routed message carries the main session's key as its explicit key
  /\ \A m, n \in Messages :
       KindOf[m] = "system" /\ KindOf[n] # "system" => SessionOf[m] # SessionOf[n]

VARIABLES
  active,        \* activeTurnStates: [Sessions -> Entry or None]
  queue,         \* steeringQueue.queues
  pendingStops,  \* sessions with an armed pending stop
  sem,           \* workers holding a slot of workerSem
  pc,            \* where each message, or its worker, is
  main,          \* the receive loop of Run: [at, msg, cleared]
  aborted,       \* workers whose current turn has hardAbort set
  outcome,       \* what the turn of a worker, while it ends, will return
  panicked,      \* workers that are unwinding a panic
  ctxDone,       \* the context of Run has ended
  robbed         \* history: sessions that lost an entry to a stranger's Delete

vars == <<active, queue, pendingStops, sem, pc, main, aborted, outcome, panicked,
          ctxDone, robbed>>

IsPlaceholder(e) == e # None /\ e.kind \in {"pending", "continue"}

Idle == [at |-> "select", msg |-> None, cleared |-> FALSE]

MainAt == {"select", "system", "loaded", "stopLookup", "stopAbort", "stopArm",
           "stopMark", "exited"}

\* inbound: not received.  steered: enqueued or dropped, no worker.
\* spawned .. netDelete: the worker goroutine.  done: it has returned.
WorkerPc == {"spawned", "started", "bail", "process", "turn", "clear", "clearDelete",
             "stopLookup", "stopAbort", "drain", "claim", "dequeue", "resume",
             "turn2", "clear2", "clearDelete2", "return", "net", "netDelete"}

Outcomes == {"none", "answer", "empty", "error", "canceled"}

TypeOK ==
  /\ active \in [Sessions -> Entry \cup {None}]
  /\ queue \in [Sessions -> Seq(Messages)]
  /\ \A s \in Sessions : Len(queue[s]) <= MaxQueueSize
  /\ pendingStops \subseteq Sessions
  /\ sem \subseteq Messages
  /\ pc \in [Messages -> WorkerPc \cup {"inbound", "steered", "done"}]
  /\ main \in [at : MainAt, msg : Messages \cup {None}, cleared : BOOLEAN]
  /\ aborted \subseteq Messages
  /\ outcome \in [Messages -> Outcomes]
  /\ panicked \subseteq Messages
  /\ ctxDone \in BOOLEAN
  /\ robbed \subseteq Sessions

Init ==
  /\ active = [s \in Sessions |-> None]
  /\ queue = [s \in Sessions |-> <<>>]
  /\ pendingStops = {}
  /\ sem = {}
  /\ pc = [m \in Messages |-> "inbound"]
  /\ main = Idle
  /\ aborted = {}
  /\ outcome = [m \in Messages |-> "none"]
  /\ panicked = {}
  /\ ctxDone = FALSE
  /\ robbed = {}

-----------------------------------------------------------------------------
\* Shorthands for the maps.

Store(s, e) == active' = [active EXCEPT ![s] = e]

\* Delete(sessionKey), whoever's entry it is, by worker m.
Delete(s, m) ==
  /\ Store(s, None)
  /\ robbed' = IF active[s] # None /\ active[s].by # m THEN robbed \cup {s} ELSE robbed

GoTo(m, to) == pc' = [pc EXCEPT ![m] = to]
Step(m, from, to) == pc[m] = from /\ GoTo(m, to)

\* dequeueLocked: the head, or everything in mode "all".
Dequeued(q) == IF SteeringAll THEN <<>> ELSE Tail(q)

mapVars == <<active, queue, pendingStops>>
turnVars == <<aborted, outcome, panicked>>

-----------------------------------------------------------------------------
(***************************************************************************)
(* The receive loop: Run.                                                  *)
(***************************************************************************)

\* Mutant: a plain Store instead of LoadOrStore.
ReceiveClaimOverwrites(m) ==
  /\ main.at = "select"
  /\ KindOf[m] # "system"
  /\ Step(m, "inbound", "spawned")
  /\ Store(SessionOf[m], [kind |-> "pending", by |-> m])
  /\ UNCHANGED <<queue, pendingStops, sem, main, turnVars, ctxDone, robbed>>

\* A routable message finds its session free: LoadOrStore puts in the
\* placeholder and a worker goroutine is started.
ReceiveClaim(m) ==
  /\ main.at = "select"
  /\ KindOf[m] # "system"
  /\ active[SessionOf[m]] = None
  /\ Step(m, "inbound", "spawned")
  /\ Store(SessionOf[m], [kind |-> "pending", by |-> m])
  /\ UNCHANGED <<queue, pendingStops, sem, main, turnVars, ctxDone, robbed>>

\* LoadOrStore finds the session claimed: the message is in the loop's hands.
ReceiveLoaded(m) ==
  /\ main.at = "select"
  /\ KindOf[m] # "system"
  /\ active[SessionOf[m]] # None
  /\ Step(m, "inbound", "steered")
  /\ main' = [at |-> "loaded", msg |-> m, cleared |-> FALSE]
  /\ UNCHANGED <<mapVars, sem, turnVars, ctxDone, robbed>>

\* A system message is processed by the loop itself, without a claim.
ReceiveSystem(m) ==
  /\ main.at = "select"
  /\ KindOf[m] = "system"
  /\ Step(m, "inbound", "process")
  /\ main' = [at |-> "system", msg |-> m, cleared |-> FALSE]
  /\ UNCHANGED <<mapVars, sem, turnVars, ctxDone, robbed>>

\* prepareInboundMessageForAgent (which may transcribe for seconds), then
\* enqueueSteeringMessage; a full queue drops the message with a warning.
Enqueue ==
  /\ main.at = "loaded"
  /\ KindOf[main.msg] # "stop"
  /\ LET s == SessionOf[main.msg] IN
       queue' = IF Len(queue[s]) < MaxQueueSize
                THEN [queue EXCEPT ![s] = Append(@, main.msg)] ELSE queue
  /\ main' = Idle
  /\ UNCHANGED <<active, pendingStops, sem, pc, turnVars, ctxDone, robbed>>

\* tryHandleStopCommand -> stopActiveTurnForSession: the queue goes first.
StopClear ==
  /\ main.at = "loaded"
  /\ KindOf[main.msg] = "stop"
  /\ queue' = [queue EXCEPT ![SessionOf[main.msg]] = <<>>]
  /\ main' = [main EXCEPT !.at = "stopLookup", !.cleared = queue[SessionOf[main.msg]] # <<>>]
  /\ UNCHANGED <<active, pendingStops, sem, pc, turnVars, ctxDone, robbed>>

\* Nothing active: stopped iff something was cleared.  A placeholder: not
\* stopped here.  A turn: HardAbort.
StopLookup ==
  /\ main.at = "stopLookup"
  /\ LET e == active[SessionOf[main.msg]] IN
       main' = IF e = None /\ main.cleared THEN Idle
               ELSE [main EXCEPT !.at = IF e = None \/ IsPlaceholder(e)
                                        THEN "stopArm" ELSE "stopAbort"]
  /\ UNCHANGED <<mapVars, sem, pc, turnVars, ctxDone, robbed>>

\* HardAbort loads the entry again: gone (as if nothing were active), a
\* placeholder (an error, nothing more), or a turn, which is asked to abort.
StopAbort ==
  /\ main.at = "stopAbort"
  /\ LET e == active[SessionOf[main.msg]] IN
       /\ main' = IF e = None /\ ~main.cleared THEN [main EXCEPT !.at = "stopArm"] ELSE Idle
       /\ aborted' = IF e # None /\ ~IsPlaceholder(e) THEN aborted \cup {e.by} ELSE aborted
  /\ UNCHANGED <<mapVars, sem, pc, outcome, panicked, ctxDone, robbed>>

\* Mutant: /stop waits in the receive loop until the placeholder is gone.
StopArmWaits ==
  /\ main.at = "stopArm"
  /\ ~IsPlaceholder(active[SessionOf[main.msg]])
  /\ main' = Idle
  /\ UNCHANGED <<mapVars, sem, pc, turnVars, ctxDone, robbed>>

\* Not stopped yet: is it a placeholder by now?
StopArm ==
  /\ main.at = "stopArm"
  /\ main' = IF IsPlaceholder(active[SessionOf[main.msg]])
             THEN [main EXCEPT !.at = "stopMark"] ELSE Idle
  /\ UNCHANGED <<mapVars, sem, pc, turnVars, ctxDone, robbed>>

\* markPendingStop, whatever the entry has become since.
StopMark ==
  /\ main.at = "stopMark"
  /\ pendingStops' = pendingStops \cup {SessionOf[main.msg]}
  /\ main' = Idle
  /\ UNCHANGED <<active, queue, sem, pc, turnVars, ctxDone, robbed>>

MainExit ==
  /\ main.at = "select"
  /\ ctxDone
  /\ main' = [main EXCEPT !.at = "exited"]
  /\ UNCHANGED <<mapVars, sem, pc, turnVars, ctxDone, robbed>>

Shutdown ==
  /\ MayShutdown /\ ~ctxDone
  /\ ctxDone' = TRUE
  /\ UNCHANGED <<mapVars, sem, pc, main, turnVars, robbed>>

-----------------------------------------------------------------------------
(***************************************************************************)
(* A worker up to the end of its own turn.                                 *)
(***************************************************************************)

AcquireSlot(m) ==
  /\ Cardinality(sem) < MaxParallelTurns
  /\ Step(m, "spawned", "started")
  /\ sem' = sem \cup {m}
  /\ UNCHANGED <<mapVars, main, turnVars, ctxDone, robbed>>

\* Mutant: the placeholder is left behind.
GiveUpWaitingKeeps(m) ==
  /\ ctxDone
  /\ Step(m, "spawned", "done")
  /\ UNCHANGED <<mapVars, sem, main, turnVars, ctxDone, robbed>>

\* The context ends while the worker waits: releaseSessionTurnState(key, nil).
GiveUpWaiting(m) ==
  /\ ctxDone
  /\ Step(m, "spawned", "done")
  /\ Delete(SessionOf[m], m)
  /\ UNCHANGED <<queue, pendingStops, sem, main, turnVars, ctxDone>>

\* takePendingStop before the turn: the message itself is not processed ...
BailOut(m) ==
  /\ SessionOf[m] \in pendingStops
  /\ Step(m, "started", "bail")
  /\ pendingStops' = pendingStops \ {SessionOf[m]}
  /\ UNCHANGED <<active, queue, sem, main, turnVars, ctxDone, robbed>>

\* ... the entry is deleted whoever's it is, and the queue is drained.
BailRelease(m) ==
  /\ Step(m, "bail", "drain")
  /\ Delete(SessionOf[m], m)
  /\ UNCHANGED <<queue, pendingStops, sem, main, turnVars, ctxDone>>

StartProcessing(m) ==
  /\ SessionOf[m] \notin pendingStops
  /\ Step(m, "started", "process")
  /\ UNCHANGED <<mapVars, sem, main, turnVars, ctxDone, robbed>>

\* What the goroutine does once processMessage has returned without having
\* been canceled: a worker goes on to drain, the receive loop to its select.
Processed(m) ==
  IF KindOf[m] = "system"
  THEN GoTo(m, "done") /\ main' = Idle
  ELSE GoTo(m, "drain") /\ UNCHANGED main

\* processMessage returns before runTurn: a command was answered, or routing,
\* the turn profile or the model selection failed.
ProcessWithoutTurn(m) ==
  /\ pc[m] = "process"
  /\ KindOf[m] # "stop"
  /\ Processed(m)
  /\ UNCHANGED <<mapVars, sem, turnVars, ctxDone, robbed>>

\* /stop as the message that claimed the session: handleCommand runs
\* stopActiveTurnForSession, which clears whatever was queued behind it.
OwnStopClear(m) ==
  /\ KindOf[m] = "stop"
  /\ Step(m, "process", "stopLookup")
  /\ queue' = [queue EXCEPT ![SessionOf[m]] = <<>>]
  /\ UNCHANGED <<active, pendingStops, sem, main, turnVars, ctxDone, robbed>>

OwnStopLookup(m) ==
  /\ LET e == active[SessionOf[m]] IN
       Step(m, "stopLookup", IF e = None \/ IsPlaceholder(e) THEN "drain" ELSE "stopAbort")
  /\ UNCHANGED <<mapVars, sem, main, turnVars, ctxDone, robbed>>

OwnStopAbort(m) ==
  /\ Step(m, "stopAbort", "drain")
  /\ LET e == active[SessionOf[m]] IN
       aborted' = IF e # None /\ ~IsPlaceholder(e) THEN aborted \cup {e.by} ELSE aborted
  /\ UNCHANGED <<mapVars, sem, main, outcome, panicked, ctxDone, robbed>>

\* runTurn: registerActiveTurn (an unconditional Store), then takePendingStop,
\* which makes the turn abort before its first iteration.
RegisterTurn(m, from, to, stopped) ==
  /\ pc[m] = from
  /\ Store(SessionOf[m], [kind |-> "turn", by |-> m])
  /\ GoTo(m, IF SessionOf[m] \in pendingStops THEN stopped ELSE to)
  /\ pendingStops' = pendingStops \ {SessionOf[m]}
  /\ aborted' = IF SessionOf[m] \in pendingStops THEN aborted \cup {m} ELSE aborted \ {m}
  /\ outcome' = [outcome EXCEPT ![m] = IF SessionOf[m] \in pendingStops THEN "empty" ELSE "none"]
  /\ UNCHANGED <<queue, sem, main, panicked, ctxDone, robbed>>

BeginTurn(m) ==
  /\ KindOf[m] \in {"chat", "system"}
  /\ RegisterTurn(m, "process", "turn", "clear")

\* dequeueSteeringMessagesForScopeWithFallback, anywhere in the turn.
PollSteering(m) ==
  /\ pc[m] \in {"turn", "turn2"}
  /\ queue[SessionOf[m]] # <<>>
  /\ queue' = [queue EXCEPT ![SessionOf[m]] = Dequeued(@)]
  /\ UNCHANGED <<active, pendingStops, sem, pc, main, turnVars, ctxDone, robbed>>

\* runTurn returns: with an answer, without one (aborted, or the response
\* was already delivered by a tool), with an error, or canceled.
EndTurn(m, from, to, out) ==
  /\ Step(m, from, to)
  /\ \/ out \in {"answer", "empty", "error"}
     \/ out = "canceled" /\ (ctxDone \/ m \in aborted)
  /\ outcome' = [outcome EXCEPT ![m] = out]
  /\ UNCHANGED <<mapVars, sem, main, aborted, panicked, ctxDone, robbed>>

EndFirstTurn(m) == \E out \in Outcomes : EndTurn(m, "turn", "clear", out)

\* clearActiveTurn: load and compare ...
ClearCheck(m, from, to) ==
  /\ active[SessionOf[m]] = [kind |-> "turn", by |-> m]
  /\ Step(m, from, to)
  /\ UNCHANGED <<mapVars, sem, main, turnVars, ctxDone, robbed>>

\* Where a worker goes when its own turn is over.
AfterTurn(m) ==
  IF KindOf[m] = "system"
  THEN GoTo(m, "done") /\ main' = Idle
  ELSE /\ GoTo(m, IF m \in panicked \/ outcome[m] = "canceled" THEN "return" ELSE "drain")
       /\ UNCHANGED main

\* ... and either the entry is another's, or it is deleted.
ClearSkip(m) ==
  /\ pc[m] = "clear"
  /\ active[SessionOf[m]] # [kind |-> "turn", by |-> m]
  /\ AfterTurn(m)
  /\ UNCHANGED <<mapVars, sem, turnVars, ctxDone, robbed>>

ClearDelete(m) ==
  /\ pc[m] = "clearDelete"
  /\ Delete(SessionOf[m], m)
  /\ AfterTurn(m)
  /\ UNCHANGED <<queue, pendingStops, sem, turnVars, ctxDone>>

-----------------------------------------------------------------------------
(***************************************************************************)
(* drainQueuedSteeringContinuations and Continue.                          *)
(***************************************************************************)

DrainCheck(m) ==
  /\ Step(m, "drain", IF queue[SessionOf[m]] = <<>> \/ ctxDone THEN "return" ELSE "claim")
  /\ UNCHANGED <<mapVars, sem, main, turnVars, ctxDone, robbed>>

\* Mutant: Continue stores its placeholder without looking.
ContinueClaimUnchecked(m) ==
  /\ Step(m, "claim", "dequeue")
  /\ Store(SessionOf[m], [kind |-> "continue", by |-> m])
  /\ UNCHANGED <<queue, pendingStops, sem, main, turnVars, ctxDone, robbed>>

\* Continue's LoadOrStore; losing it ends the drain (an error or "").
ContinueClaim(m) ==
  /\ active[SessionOf[m]] = None
  /\ Step(m, "claim", "dequeue")
  /\ Store(SessionOf[m], [kind |-> "continue", by |-> m])
  /\ UNCHANGED <<queue, pendingStops, sem, main, turnVars, ctxDone, robbed>>

ContinueLost(m) ==
  /\ active[SessionOf[m]] # None
  /\ Step(m, "claim", "return")
  /\ UNCHANGED <<mapVars, sem, main, turnVars, ctxDone, robbed>>

ContinueDequeue(m) ==
  /\ queue[SessionOf[m]] # <<>>
  /\ Step(m, "dequeue", "resume")
  /\ queue' = [queue EXCEPT ![SessionOf[m]] = Dequeued(@)]
  /\ UNCHANGED <<active, pendingStops, sem, main, turnVars, ctxDone, robbed>>

\* Nothing left to dequeue, the hooks or MCP failed to initialise before, or
\* no agent is there for what was dequeued: activeTurnStates.Delete(sessionKey),
\* and the drain ends.
ContinueAbandons(m) ==
  /\ pc[m] \in {"dequeue", "resume"}
  /\ GoTo(m, "return")
  /\ Delete(SessionOf[m], m)
  /\ UNCHANGED <<queue, pendingStops, sem, main, turnVars, ctxDone>>

\* runAgentLoop fails before runTurn; the placeholder stays for the safety net.
ResumeFails(m) ==
  /\ Step(m, "resume", "return")
  /\ UNCHANGED <<mapVars, sem, main, turnVars, ctxDone, robbed>>

BeginContinuation(m) == RegisterTurn(m, "resume", "turn2", "clear2")

EndContinuation(m) == \E out \in Outcomes : EndTurn(m, "turn2", "clear2", out)

\* Only a continuation with an answer lets the drain loop go round again.
AfterContinuation(m) ==
  GoTo(m, IF outcome[m] = "answer" /\ m \notin panicked THEN "drain" ELSE "return")

ClearSkip2(m) ==
  /\ pc[m] = "clear2"
  /\ active[SessionOf[m]] # [kind |-> "turn", by |-> m]
  /\ AfterContinuation(m)
  /\ UNCHANGED <<mapVars, sem, main, turnVars, ctxDone, robbed>>

ClearDelete2(m) ==
  /\ pc[m] = "clearDelete2"
  /\ Delete(SessionOf[m], m)
  /\ AfterContinuation(m)
  /\ UNCHANGED <<queue, pendingStops, sem, main, turnVars, ctxDone>>

-----------------------------------------------------------------------------
(***************************************************************************)
(* The deferred calls of a worker: release the slot, recover, safety net.  *)
(***************************************************************************)

\* A panic unwinds: out of a turn through clearActiveTurn, else directly.
Panic(m) ==
  /\ m \in Panics \ panicked
  /\ KindOf[m] # "system"
  /\ pc[m] \in {"process", "turn", "stopLookup", "drain", "dequeue", "resume", "turn2"}
  /\ panicked' = panicked \cup {m}
  /\ GoTo(m, CASE pc[m] = "turn" -> "clear" [] pc[m] = "turn2" -> "clear2" [] OTHER -> "return")
  /\ UNCHANGED <<mapVars, sem, main, aborted, outcome, ctxDone, robbed>>

\* Mutant: the slot is released on the normal path only.
ReleaseSlotLeaks(m) ==
  /\ Step(m, "return", "net")
  /\ sem' = IF m \in panicked THEN sem ELSE sem \ {m}
  /\ UNCHANGED <<mapVars, main, turnVars, ctxDone, robbed>>

ReleaseSlot(m) ==
  /\ Step(m, "return", "net")
  /\ sem' = sem \ {m}
  /\ UNCHANGED <<mapVars, main, turnVars, ctxDone, robbed>>

\* Mutant: the unconditional delete after a panic as well.
NetFindsAny(m) == IsPlaceholder(active[SessionOf[m]])

\* After a panic only the worker's own placeholder is deleted; otherwise any
\* placeholder that is found in the map.
NetFinds(m) ==
  LET e == active[SessionOf[m]] IN
  IF m \in panicked THEN e = [kind |-> "pending", by |-> m] ELSE IsPlaceholder(e)

NetCheck(m) ==
  /\ Step(m, "net", IF NetFinds(m) THEN "netDelete" ELSE "done")
  /\ UNCHANGED <<mapVars, sem, main, turnVars, ctxDone, robbed>>

NetDelete(m) ==
  /\ Step(m, "netDelete", "done")
  /\ Delete(SessionOf[m], m)
  /\ UNCHANGED <<queue, pendingStops, sem, main, turnVars, ctxDone>>

-----------------------------------------------------------------------------
Receive == \E m \in Messages : ReceiveClaim(m) \/ ReceiveLoaded(m) \/ ReceiveSystem(m)

Main == Enqueue \/ StopClear \/ StopLookup \/ StopAbort \/ StopArm \/ StopMark \/ MainExit

Admission(m) ==
  AcquireSlot(m) \/ GiveUpWaiting(m) \/ BailOut(m) \/ BailRelease(m) \/ StartProcessing(m)

Processing(m) ==
  \/ ProcessWithoutTurn(m)
  \/ OwnStopClear(m)
  \/ OwnStopLookup(m)
  \/ OwnStopAbort(m)
  \/ BeginTurn(m)
  \/ EndFirstTurn(m)
  \/ ClearCheck(m, "clear", "clearDelete")
  \/ ClearSkip(m)
  \/ ClearDelete(m)

Draining(m) ==
  \/ DrainCheck(m)
  \/ ContinueClaim(m)
  \/ ContinueLost(m)
  \/ ContinueDequeue(m)
  \/ ContinueAbandons(m)
  \/ ResumeFails(m)
  \/ BeginContinuation(m)
  \/ EndContinuation(m)
  \/ ClearCheck(m, "clear2", "clearDelete2")
  \/ ClearSkip2(m)
  \/ ClearDelete2(m)

Leaving(m) == ReleaseSlot(m) \/ NetCheck(m) \/ NetDelete(m)

Worker(m) == Admission(m) \/ Processing(m) \/ Draining(m) \/ Leaving(m)

Next ==
  \/ Receive
  \/ Main
  \/ Shutdown
  \/ \E m \in Messages : Worker(m) \/ PollSteering(m) \/ Panic(m)

Spec == Init /\ [][Next]_vars

\* A goroutine that can run runs, and a turn ends (its provider and tool
\* calls have timeouts).  Nothing is assumed of arrivals, of steering polls,
\* of panics or of the end of the context.
Fairness ==
  /\ WF_vars(Main)
  /\ \A m \in Messages : WF_vars(Worker(m))

LiveSpec == Spec /\ Fairness

-----------------------------------------------------------------------------
(***************************************************************************)
(* Properties                                                              *)
(***************************************************************************)

InTurn(m) == pc[m] \in {"turn", "turn2"}
Finished(m) == pc[m] \in {"inbound", "steered", "done"}

\* The claim protocol itself (LoadOrStore, register, clear) never lets two
\* turns of a session run in parallel: it takes a Delete of an entry by a
\* goroutine that did not make it (the safety net, or a nil release).
OneTurnUnlessRobbed ==
  \A m, n \in Messages :
    /\ SessionOf[m] = SessionOf[n] /\ InTurn(m) /\ InTurn(n)
    /\ SessionOf[m] \notin robbed
    => m = n

\* A session is never left claimed by a worker that has returned: every later
\* message of that session would be queued for nobody.
ClaimHasLiveOwner ==
  \A s \in Sessions : active[s] # None => ~Finished(active[s].by)

\* A placeholder or turn that is replaced is replaced by the turn of the
\* worker that held the claim, unless the session had been robbed before.
ClaimsAreHandedOnByTheirOwner ==
  [][\A s \in Sessions :
       (active[s] # None /\ active'[s] # None /\ active'[s] # active[s] /\ s \notin robbed)
         => active'[s].by = active[s].by]_vars

\* After a panic "only remove the entry if it still points to our placeholder":
\* a worker that unwinds takes no claim of another one with it, unless the
\* session had been robbed before.
PanicTakesOnlyItsOwn ==
  [][\A s \in Sessions, m \in panicked :
       (active[s] # None /\ active'[s] = None /\ pc'[m] # pc[m] /\ s = SessionOf[m] /\ s \notin robbed)
         => active[s].by = m]_vars

\* Every worker returns and gives its slot and its claim back: a message is
\* spawned once, so there is a time after which none of them runs.
WorkersReturn == []<>(\A m \in Messages : Finished(m))

\* The receive loop always comes back to its select: handling /stop, a full
\* steering queue or a system message cannot wedge it.
MainReturns == []<>(main.at \in {"select", "exited"})
=============================================================================
