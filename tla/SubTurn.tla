------------------------------- MODULE SubTurn -------------------------------
(***************************************************************************)
(* SubTurns (pkg/agent/subturn.go): a turn whose tools spawn turns of      *)
(* their own, what limits them, how their results come back, and what a    *)
(* hard abort of the root and a change of the agent's model do meanwhile.  *)
(*                                                                         *)
(* A root turn is made by newTurnState, which sets neither pendingResults, *)
(* nor concurrencySem, nor the reference to the agent loop that the        *)
(* cascade of Finish needs; spawnSubTurn sets all three for its child.     *)
(* Only HardAbort calls Finish, and only for roots: nobody finishes a      *)
(* SubTurn, so its pendingResults is never closed and the Finished() of a  *)
(* parent that has returned never fires.                                   *)
(*                                                                         *)
(* The model state of an agent is under an RWMutex of Go: runTurn holds it *)
(* for reading from its first line to its last, and a writer that waits    *)
(* keeps new readers out.                                                  *)
(***************************************************************************)
EXTENDS Integers, Sequences, FiniteSets

CONSTANTS
  Turns,          \* root turns and the SubTurns that may be spawned
  Parent,         \* [Turns -> Turns \cup {None}], None for a root
  Async,          \* SubTurns of the spawn tool; the others are waited for
  AgentOf,        \* [Turns -> Agents], TargetAgentID
  Agents,
  MaxDepth,       \* SubTurn.MaxDepth
  MaxConcurrent,  \* SubTurn.MaxConcurrent, capacity of concurrencySem
  Capacity,       \* capacity of pendingResults (16)
  Switches,       \* bound: changes of a model, or reloads of an agent
  Panics,         \* SubTurns whose runTurn may panic
  None

Roots == {t \in Turns : Parent[t] = None}
SubTurns == Turns \ Roots
Children(p) == {t \in SubTurns : Parent[t] = p}

\* turnState.depth: the number of ancestors.
Depth[t \in Turns] == IF Parent[t] = None THEN 0 ELSE Depth[Parent[t]] + 1

ASSUME SubTurnAssumption ==
  /\ IsFiniteSet(Turns) /\ None \notin Turns
  /\ Parent \in [Turns -> Turns \cup {None}]
  /\ Async \subseteq SubTurns /\ Panics \subseteq SubTurns
  /\ AgentOf \in [Turns -> Agents]
  /\ MaxDepth \in Nat \ {0} /\ MaxConcurrent \in Nat \ {0} /\ Capacity \in Nat \ {0}
  /\ Switches \in Nat

VARIABLES
  pc,         \* where each turn, or the call of spawnSubTurn for it, is
  slot,       \* SubTurns with semAcquired set
  sem,        \* tokens in the concurrencySem of each SubTurn
  linked,     \* childTurnIDs of each turn
  results,    \* pendingResults of each SubTurn
  fate,       \* what became of the result of each SubTurn
  aborted,    \* roots on which HardAbort was called
  readers,    \* turns that hold the model mutex of each agent
  writer,     \* the goroutine that changes the model of each agent
  switched    \* bound: changes of a model so far

vars == <<pc, slot, sem, linked, results, fate, aborted, readers, writer, switched>>

PCs == {"none", "acquire", "check", "lock", "running", "calling", "release", "deliver",
        "send", "return", "done"}

TypeOK ==
  /\ pc \in [Turns -> PCs]
  /\ slot \subseteq SubTurns
  /\ sem \in [SubTurns -> 0..MaxConcurrent]
  /\ linked \in [Turns -> SUBSET SubTurns]
  /\ results \in [SubTurns -> Seq(SubTurns)] /\ \A t \in SubTurns : Len(results[t]) <= Capacity
  /\ fate \in [SubTurns -> {"none", "result", "nil", "queued", "read", "orphan", "returned"}]
  /\ aborted \subseteq Roots
  /\ readers \in [Agents -> SUBSET Turns]
  /\ writer \in [Agents -> {"idle", "waiting", "holding"}]
  /\ switched \in 0..Switches

Init ==
  /\ pc = [t \in Turns |-> "none"]
  /\ slot = {} /\ aborted = {}
  /\ sem = [t \in SubTurns |-> 0]
  /\ linked = [t \in Turns |-> {}]
  /\ results = [t \in SubTurns |-> <<>>]
  /\ fate = [t \in SubTurns |-> "none"]
  /\ readers = [a \in Agents |-> {}]
  /\ writer = [a \in Agents |-> "idle"]
  /\ switched = 0

Go(t, place) == pc' = [pc EXCEPT ![t] = place]

-----------------------------------------------------------------------------
\* spawnSubTurn, in the goroutine of the parent's tool call, or in one of its
\* own for the spawn tool (execute of spawn.go).

\* The worker of a session reaches runTurn.
StartRoot(r) ==
  /\ r \in Roots /\ pc[r] = "none"
  /\ Go(r, "lock")
  /\ UNCHANGED <<slot, sem, linked, results, fate, aborted, readers, writer, switched>>

\* A turn that executes tools calls subagent or delegate, and waits, or spawn.
Spawn(t) ==
  LET p == Parent[t] IN
  /\ t \in SubTurns /\ pc[t] = "none" /\ pc[p] = "running"
  /\ pc' = [pc EXCEPT ![t] = IF p \in Roots THEN "check" ELSE "acquire",
                      ![p] = IF t \in Async THEN @ ELSE "calling"]
  /\ UNCHANGED <<slot, sem, linked, results, fate, aborted, readers, writer, switched>>

AcquireSlot(t) ==
  LET p == Parent[t] IN
  /\ pc[t] = "acquire" /\ sem[p] < MaxConcurrent
  /\ sem' = [sem EXCEPT ![p] = @ + 1]
  /\ slot' = slot \cup {t}
  /\ Go(t, "check")
  /\ UNCHANGED <<linked, results, fate, aborted, readers, writer, switched>>

\* The early returns: ConcurrencyTimeout or the end of the tool's context, the
\* depth limit, a configuration without model, an unknown target agent.  The
\* deferred function gives the slot back; no result is delivered.
Refuse(t) ==
  /\ pc[t] \in {"acquire", "check"}
  /\ Go(t, "return")
  /\ UNCHANGED <<slot, sem, linked, results, fate, aborted, readers, writer, switched>>

\* A version that gives the slot back once the child is registered.
RegisterGivesBack(t) ==
  LET p == Parent[t] IN
  /\ pc[t] = "check" /\ Depth[p] < MaxDepth
  /\ linked' = [linked EXCEPT ![p] = @ \cup {t}]
  /\ sem' = IF t \in slot THEN [sem EXCEPT ![p] = @ - 1] ELSE sem
  /\ slot' = slot \ {t}
  /\ Go(t, "lock")
  /\ UNCHANGED <<results, fate, aborted, readers, writer, switched>>

\* The child is made, stored in activeTurnStates and linked to its parent.
Register(t) ==
  LET p == Parent[t] IN
  /\ pc[t] = "check" /\ Depth[p] < MaxDepth
  /\ linked' = [linked EXCEPT ![p] = @ \cup {t}]
  /\ Go(t, "lock")
  /\ UNCHANGED <<slot, sem, results, fate, aborted, readers, writer, switched>>

\* A version that forgets that the slot was already given back.
ReleaseSlotForgets(t) ==
  LET p == Parent[t] IN
  /\ pc[t] = "release"
  /\ IF t \in slot THEN /\ sem[p] > 0
                        /\ sem' = [sem EXCEPT ![p] = @ - 1]
                   ELSE UNCHANGED sem
  /\ Go(t, IF t \in Async THEN "deliver" ELSE "return")
  /\ UNCHANGED <<slot, linked, results, fate, aborted, readers, writer, switched>>

\* The explicit release, before the result is delivered.  A panic skips it.
ReleaseSlot(t) ==
  LET p == Parent[t] IN
  /\ pc[t] = "release"
  /\ IF t \in slot
     THEN /\ sem[p] > 0
          /\ sem' = [sem EXCEPT ![p] = @ - 1]
          /\ slot' = slot \ {t}
     ELSE UNCHANGED <<sem, slot>>
  /\ Go(t, IF t \in Async THEN "deliver" ELSE "return")
  /\ UNCHANGED <<linked, results, fate, aborted, readers, writer, switched>>

\* The deferred functions at the end: the slot, if it is still held; the caller
\* gets the result and goes on.
Return(t) ==
  LET p == Parent[t] IN
  /\ pc[t] = "return"
  /\ IF t \in slot
     THEN /\ sem[p] > 0
          /\ sem' = [sem EXCEPT ![p] = @ - 1]
          /\ slot' = slot \ {t}
     ELSE UNCHANGED <<sem, slot>>
  /\ fate' = [fate EXCEPT ![t] = IF t \notin Async /\ @ = "result" THEN "returned" ELSE @]
  /\ pc' = [pc EXCEPT ![t] = "done",
                      ![p] = IF t \in Async THEN @ ELSE "running"]
  /\ UNCHANGED <<linked, results, aborted, readers, writer, switched>>

-----------------------------------------------------------------------------
\* runTurn, as far as SubTurns and the model mutex are concerned.

RLock(t) ==
  LET a == AgentOf[t] IN
  /\ pc[t] = "lock" /\ writer[a] = "idle"
  /\ readers' = [readers EXCEPT ![a] = @ \cup {t}]
  /\ Go(t, "running")
  /\ UNCHANGED <<slot, sem, linked, results, fate, aborted, writer, switched>>

\* One result is taken in each iteration and after each tool.
Poll(t) ==
  /\ t \in SubTurns /\ pc[t] = "running" /\ results[t] # <<>>
  /\ results' = [results EXCEPT ![t] = Tail(@)]
  /\ fate' = [fate EXCEPT ![Head(results[t])] = IF @ = "queued" THEN "read" ELSE @]
  /\ UNCHANGED <<pc, slot, sem, linked, aborted, readers, writer, switched>>

Unlocked(t) == readers' = [readers EXCEPT ![AgentOf[t]] = @ \ {t}]

EndRoot(r) ==
  /\ r \in Roots /\ pc[r] = "running"
  /\ Unlocked(r)
  /\ Go(r, "done")
  /\ UNCHANGED <<slot, sem, linked, results, fate, aborted, writer, switched>>

\* A SubTurn answers, fails or runs into its own timeout; either way there is
\* a result.
EndSubTurn(t) ==
  /\ t \in SubTurns /\ pc[t] = "running"
  /\ Unlocked(t)
  /\ fate' = [fate EXCEPT ![t] = "result"]
  /\ Go(t, "release")
  /\ UNCHANGED <<slot, sem, linked, results, aborted, writer, switched>>

\* A version that unlocks at the end of runTurn only, which a panic skips.
PanicKeepsLock(t) ==
  /\ t \in Panics /\ pc[t] = "running"
  /\ fate' = [fate EXCEPT ![t] = "nil"]
  /\ Go(t, IF t \in Async THEN "deliver" ELSE "return")
  /\ UNCHANGED <<slot, sem, linked, results, aborted, readers, writer, switched>>

\* A panic in runTurn is recovered in the deferred clean-up: the result is nil
\* and the slot is kept until that clean-up is over.
PanicSubTurn(t) ==
  /\ t \in Panics /\ pc[t] = "running"
  /\ Unlocked(t)
  /\ fate' = [fate EXCEPT ![t] = "nil"]
  /\ Go(t, IF t \in Async THEN "deliver" ELSE "return")
  /\ UNCHANGED <<slot, sem, linked, results, aborted, writer, switched>>

-----------------------------------------------------------------------------
\* deliverSubTurnResult

Orphaned(t) == fate' = [fate EXCEPT ![t] = IF @ = "result" THEN "orphan" ELSE @]

\* A root has no channel.  Whether the parent has returned is not asked: its
\* isFinished is set by Finish alone.
DeliverToRoot(t) ==
  /\ pc[t] = "deliver" /\ Parent[t] \in Roots
  /\ Orphaned(t)
  /\ Go(t, "return")
  /\ UNCHANGED <<slot, sem, linked, results, aborted, readers, writer, switched>>

DeliverToSubTurn(t) ==
  /\ pc[t] = "deliver" /\ Parent[t] \notin Roots
  /\ Go(t, "send")
  /\ UNCHANGED <<slot, sem, linked, results, fate, aborted, readers, writer, switched>>

\* A nil result is sent as well; the panic on its length is recovered.
Send(t) ==
  LET p == Parent[t] IN
  /\ pc[t] = "send" /\ Len(results[p]) < Capacity
  /\ results' = [results EXCEPT ![p] = Append(@, t)]
  /\ fate' = [fate EXCEPT ![t] = IF @ = "result" THEN "queued" ELSE @]
  /\ Go(t, "return")
  /\ UNCHANGED <<slot, sem, linked, aborted, readers, writer, switched>>

-----------------------------------------------------------------------------
\* Other goroutines

\* HardAbort of a root: requestHardAbort cancels the context of the turn, and
\* Finish(true) finds no agent loop in the root and visits no child.
HardAbort(r) ==
  /\ r \in Roots \ aborted /\ pc[r] \in {"running", "calling"}
  /\ aborted' = aborted \cup {r}
  /\ UNCHANGED <<pc, slot, sem, linked, results, fate, readers, writer, switched>>

\* SwitchModel or Close of an agent asks for the mutex ...
WriterAsks(a) ==
  /\ writer[a] = "idle" /\ switched < Switches
  /\ switched' = switched + 1
  /\ writer' = [writer EXCEPT ![a] = "waiting"]
  /\ UNCHANGED <<pc, slot, sem, linked, results, fate, aborted, readers>>

\* ... gets it when the readers have left ...
WriterLocks(a) ==
  /\ writer[a] = "waiting" /\ readers[a] = {}
  /\ writer' = [writer EXCEPT ![a] = "holding"]
  /\ UNCHANGED <<pc, slot, sem, linked, results, fate, aborted, readers, switched>>

\* ... and gives it back.
WriterUnlocks(a) ==
  /\ writer[a] = "holding"
  /\ writer' = [writer EXCEPT ![a] = "idle"]
  /\ UNCHANGED <<pc, slot, sem, linked, results, fate, aborted, readers, switched>>

-----------------------------------------------------------------------------
SpawnSteps(t) ==
  \/ AcquireSlot(t) \/ Refuse(t) \/ Register(t) \/ ReleaseSlot(t) \/ Return(t)
  \/ DeliverToRoot(t) \/ DeliverToSubTurn(t) \/ Send(t)

TurnEnds(t) == EndRoot(t) \/ EndSubTurn(t) \/ PanicSubTurn(t)

WriterSteps(a) == WriterLocks(a) \/ WriterUnlocks(a)

Next ==
  \/ \E t \in Turns : StartRoot(t) \/ RLock(t) \/ TurnEnds(t) \/ HardAbort(t)
  \/ \E t \in SubTurns : Spawn(t) \/ Poll(t) \/ SpawnSteps(t)
  \/ \E a \in Agents : WriterAsks(a) \/ WriterSteps(a)

Spec == Init /\ [][Next]_vars

\* A goroutine inside spawnSubTurn goes on; a turn ends, since its calls and the
\* SubTurn itself have timeouts; a writer goes on; the mutex is given to a
\* reader once no writer is left.
Fairness ==
  /\ \A t \in Turns : WF_vars(RLock(t)) /\ WF_vars(TurnEnds(t))
  /\ \A t \in SubTurns : WF_vars(SpawnSteps(t))
  /\ \A a \in Agents : WF_vars(WriterSteps(a))

LiveSpec == Spec /\ Fairness
-----------------------------------------------------------------------------
\* No SubTurn has more SubTurns of its own under way than its semaphore has
\* slots, however the early release, the deferred one and a panic follow each
\* other: a slot given back twice lets one more in (semAcquired of spawnSubTurn).
RunningBounded ==
  \A p \in SubTurns :
    Cardinality({t \in Children(p) : pc[t] \in {"lock", "running", "calling"}}) <= MaxConcurrent

\* The parents that wait for a child of S.
WaitFor(S) == {Parent[t] : t \in {x \in S : Parent[x] # None /\ x \notin Async}}

\* The turns that wait for t, directly or through others: the least set with
\* the parent that waits for t and those that wait for its members.
WaitingFor(t) == {u \in Turns : \A S \in SUBSET Turns : WaitFor(S \cup {t}) \subseteq S => u \in S}

\* t asks for the model mutex behind a writer, which waits for a reader that
\* waits for t.
Embraced(t) ==
  LET a == AgentOf[t] IN
  pc[t] = "lock" /\ writer[a] = "waiting" /\ WaitingFor(t) \cap readers[a] # {}

\* t wants to send to a parent that has returned, on a channel that is full.
Stranded(t) ==
  pc[t] = "send" /\ pc[Parent[t]] = "done" /\ Len(results[Parent[t]]) = Capacity

\* A SubTurn that was asked for comes to its end, unless it is stranded, or an
\* agent is caught between a SubTurn and a writer: no semaphore, timeout or
\* delivery keeps it (spawnSubTurn and deliverSubTurnResult).
SpawnEnds ==
  \A t \in SubTurns :
    pc[t] # "none" ~> (pc[t] = "done" \/ Stranded(t) \/ \E u \in SubTurns : Embraced(u))

\* Whoever changes the model of an agent, or closes the agent, gets the mutex,
\* unless there is such an embrace.  Every turn that holds it for reading has to
\* leave, however deep its SubTurns are, whichever of them compete for a slot,
\* are refused, time out or panic (turn_coord.go:20).
ModelChangeEnds ==
  \A a \in Agents :
    writer[a] = "waiting" ~> (writer[a] # "waiting" \/ \E u \in SubTurns : Embraced(u))
=============================================================================
