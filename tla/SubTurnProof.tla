---------------------------- MODULE SubTurnProof -----------------------------
(***************************************************************************)
(* The limit on concurrent SubTurns, for every tree of turns, every set of *)
(* asynchronous SubTurns and every capacity: the tokens in a semaphore are *)
(* the SubTurns that hold one, none is given back twice, and a SubTurn     *)
(* under way holds one.                                                    *)
(*                                                                         *)
(* A turn that waits for a child is the difficulty: when the child returns *)
(* it sets its parent running again, so the invariant says that it was     *)
(* waiting, and for that child alone (Waits).                              *)
(*                                                                         *)
(* And that nothing leads out of the embrace of a SubTurn and a writer,    *)
(* which rests on the same: whoever waits for the SubTurn is in a call.    *)
(*                                                                         *)
(* Besides: the result of a SubTurn is handed over once, to whom it        *)
(* belongs (Handed, Addressed), and the readers of a model mutex are the   *)
(* turns inside runTurn (Mutexes, ModelMutex).                             *)
(***************************************************************************)
EXTENDS SubTurn, FiniteSetTheorems, SequenceTheorems, TLAPS

Holders(p) == slot \cap Children(p)

Typed ==
  /\ pc \in [Turns -> PCs]
  /\ slot \subseteq SubTurns
  /\ sem \in [SubTurns -> Int]

\* The tokens of a semaphore are counted by those who hold one.
Counted ==
  \A p \in SubTurns : sem[p] = Cardinality(Holders(p)) /\ sem[p] <= MaxConcurrent

\* Who may hold a token, and who must.
Slotted ==
  \A t \in SubTurns :
    /\ t \in slot => /\ Parent[t] \in SubTurns
                     /\ pc[t] \notin {"none", "acquire", "done"}
    /\ pc[t] = "acquire" => Parent[t] \in SubTurns
    /\ /\ pc[t] \in {"check", "lock", "running", "calling", "release"}
       /\ Parent[t] \in SubTurns
       => t \in slot

Pending(t) == t \in SubTurns \ Async /\ pc[t] \notin {"none", "done"}

\* A parent waits for at most one child at a time.
Waits ==
  /\ \A t \in Turns : Pending(t) => pc[Parent[t]] = "calling"
  /\ \A t, u \in Turns : Pending(t) /\ Pending(u) /\ Parent[t] = Parent[u] => t = u

IInv == Typed /\ Counted /\ Slotted /\ Waits

-----------------------------------------------------------------------------
\* The parent of a SubTurn is a turn.
LEMMA ParentType == \A t \in SubTurns : t \in Turns /\ Parent[t] \in Turns
BY SubTurnAssumption DEF SubTurns, Roots

\* Those who hold a token of one semaphore are finitely many.
LEMMA HoldersFinite == ASSUME NEW p \in SubTurns, Typed
                       PROVE IsFiniteSet(Holders(p))
<1>1. Holders(p) \subseteq Turns
  BY DEF Holders, Children, SubTurns
<1> QED BY <1>1, SubTurnAssumption, FS_Subset

\* Nobody holds a token at the start.
LEMMA IInvInit == Init => IInv
<1> SUFFICES ASSUME Init PROVE IInv OBVIOUS
<1>1. Typed
  BY DEF Init, Typed, PCs
<1>2. Counted
  <2>1. \A p \in SubTurns : Holders(p) = {} BY DEF Init, Holders
  <2>2. Cardinality({}) = 0 BY FS_EmptySet
  <2>3. \A p \in SubTurns : sem[p] = 0 BY DEF Init
  <2>4. 0 <= MaxConcurrent BY SubTurnAssumption
  <2>5. ASSUME NEW p \in SubTurns PROVE sem[p] = Cardinality(Holders(p)) /\ sem[p] <= MaxConcurrent
    <3>1. Holders(p) = {} /\ sem[p] = 0 BY <2>1, <2>3
    <3> QED BY <3>1, <2>2, <2>4
  <2> QED BY <2>5 DEF Counted
<1>3. Slotted /\ Waits
  BY ParentType DEF Init, Slotted, Waits, Pending, SubTurns
<1> QED BY <1>1, <1>2, <1>3 DEF IInv

\* A SubTurn that takes a token is counted once.
LEMMA Taken ==
  ASSUME Typed, Counted, NEW t \in SubTurns, Parent[t] \in SubTurns, t \notin slot,
         sem[Parent[t]] < MaxConcurrent,
         sem' = [sem EXCEPT ![Parent[t]] = @ + 1], slot' = slot \cup {t}
  PROVE Counted'
<1> SUFFICES ASSUME NEW p \in SubTurns
             PROVE sem'[p] = Cardinality(Holders(p)') /\ sem'[p] <= MaxConcurrent
  BY DEF Counted
<1>1. IsFiniteSet(Holders(p)) BY HoldersFinite
<1>2. CASE p = Parent[t]
  <2>1. Holders(p)' = Holders(p) \cup {t} /\ t \notin Holders(p)
    BY <1>2 DEF Holders, Children
  <2>2. Cardinality(Holders(p)') = Cardinality(Holders(p)) + 1
    BY <2>1, <1>1, FS_AddElement
  <2> QED BY <2>2, <1>2, SubTurnAssumption DEF Counted, Typed
<1>3. CASE p # Parent[t]
  <2>1. Holders(p)' = Holders(p) BY <1>3 DEF Holders, Children
  <2> QED BY <2>1, <1>3 DEF Counted, Typed
<1> QED BY <1>2, <1>3

\* A SubTurn that gives its token back is no longer counted.
LEMMA GivenBack ==
  ASSUME Typed, Counted, NEW t \in slot, Parent[t] \in SubTurns,
         sem' = [sem EXCEPT ![Parent[t]] = @ - 1], slot' = slot \ {t}
  PROVE Counted'
<1> SUFFICES ASSUME NEW p \in SubTurns
             PROVE sem'[p] = Cardinality(Holders(p)') /\ sem'[p] <= MaxConcurrent
  BY DEF Counted
<1>0. t \in SubTurns BY DEF Typed
<1>1. IsFiniteSet(Holders(p)) BY HoldersFinite
<1>2. CASE p = Parent[t]
  <2>1. Holders(p)' = Holders(p) \ {t} /\ t \in Holders(p)
    BY <1>0, <1>2 DEF Holders, Children
  <2>2. Cardinality(Holders(p)') = Cardinality(Holders(p)) - 1
    BY <2>1, <1>1, FS_RemoveElement
  <2> QED BY <2>2, <1>2, SubTurnAssumption DEF Counted, Typed
<1>3. CASE p # Parent[t]
  <2>1. Holders(p)' = Holders(p) BY <1>3 DEF Holders, Children
  <2> QED BY <2>1, <1>3 DEF Counted, Typed
<1> QED BY <1>2, <1>3

\* Without a change of tokens the count stays.
LEMMA Untouched == ASSUME Counted, UNCHANGED <<slot, sem>> PROVE Counted'
BY DEF Counted, Holders, Children

-----------------------------------------------------------------------------
\* A step of one turn that holds its place in the tree: it neither starts,
\* waits, nor returns, and goes on only where its token allows it.
LEMMA MovesAlone ==
  ASSUME IInv, NEW t \in Turns, NEW place \in PCs \ {"none", "done", "calling"}, Go(t, place),
         pc[t] \notin {"none", "done", "calling", "acquire"}, place # "acquire",
         slot' \subseteq slot, slot \ {t} \subseteq slot',
         place \in {"check", "lock", "running", "release"} =>
           /\ pc[t] \in {"check", "lock", "running", "release"}
           /\ slot' = slot
  PROVE Slotted' /\ Waits'
<1>1. pc' = [pc EXCEPT ![t] = place] /\ pc' \in [Turns -> PCs]
  BY DEF Go, IInv, Typed
<1>2. Slotted'
  BY <1>1, ParentType DEF Slotted, IInv, Typed
<1>3. \A u \in Turns : Pending(u)' <=> Pending(u)
  BY <1>1 DEF Pending, IInv, Typed
<1>4. \A u \in SubTurns : pc[Parent[u]] = "calling" => pc'[Parent[u]] = "calling"
  BY <1>1, ParentType DEF IInv, Typed
<1>5. Waits'
  BY <1>3, <1>4 DEF Waits, IInv, Pending
<1> QED BY <1>2, <1>5

\* Where a step may lead.
LEMMA NextType == ASSUME IInv, Next PROVE Typed'
<1>1. CASE \E t \in Turns : StartRoot(t) \/ RLock(t) \/ TurnEnds(t) \/ HardAbort(t)
  BY <1>1 DEF IInv, Typed, PCs, StartRoot, RLock, TurnEnds, EndRoot, EndSubTurn, PanicSubTurn,
              HardAbort, Go
<1>2. CASE \E t \in SubTurns : Spawn(t) \/ Poll(t)
  BY <1>2, ParentType DEF IInv, Typed, PCs, Spawn, Poll, Go
<1>3. CASE \E t \in SubTurns : SpawnSteps(t)
  <2> PICK t \in SubTurns : SpawnSteps(t) BY <1>3
  <2>1. CASE AcquireSlot(t) \/ Refuse(t) \/ Register(t) \/ DeliverToRoot(t) \/ DeliverToSubTurn(t)
             \/ Send(t)
    BY <2>1 DEF IInv, Typed, PCs, AcquireSlot, Refuse, Register, DeliverToRoot,
                DeliverToSubTurn, Send, Go
  <2>2. CASE ReleaseSlot(t)
    <3>1. slot' \subseteq SubTurns /\ pc' \in [Turns -> PCs]
      BY <2>2 DEF IInv, Typed, PCs, ReleaseSlot, Go
    <3>2. sem' \in [SubTurns -> Int]
      BY <2>2 DEF IInv, Typed, ReleaseSlot
    <3> QED BY <3>1, <3>2 DEF Typed
  <2>3. CASE Return(t)
    BY <2>3, ParentType DEF IInv, Typed, PCs, Return
  <2> QED BY <2>1, <2>2, <2>3 DEF SpawnSteps
<1>4. CASE \E a \in Agents : WriterAsks(a) \/ WriterSteps(a)
  BY <1>4 DEF IInv, Typed, WriterAsks, WriterSteps, WriterLocks, WriterUnlocks
<1> QED BY <1>1, <1>2, <1>3, <1>4 DEF Next

\* A spawn makes its parent wait, if it is one that is waited for.
LEMMA SpawnKeeps == ASSUME IInv, NEW t \in SubTurns, Spawn(t) PROVE Slotted' /\ Waits'
<1> DEFINE p == Parent[t]
<1>1. p \in Turns /\ t \in Turns /\ p # t /\ pc[t] = "none" /\ pc[p] = "running"
  BY ParentType DEF Spawn
<1>2. /\ pc'[t] = IF p \in Roots THEN "check" ELSE "acquire"
      /\ pc'[p] = IF t \in Async THEN "running" ELSE "calling"
      /\ \A u \in Turns \ {t, p} : pc'[u] = pc[u]
      /\ slot' = slot
  BY <1>1 DEF Spawn, IInv, Typed
<1>3. Slotted'
  BY <1>1, <1>2, ParentType DEF Slotted, IInv, SubTurns
<1>4. \A u \in Turns : Pending(u) => Parent[u] # p /\ Parent[u] # t
  BY <1>1 DEF IInv, Waits
<1>5. \A u \in Turns : Pending(u)' => Pending(u) \/ u = t
  BY <1>1, <1>2 DEF Pending
<1>6. t \notin Async => pc'[p] = "calling"
  BY <1>2
<1>7. \A u \in Turns : Pending(u) => pc'[Parent[u]] = "calling"
  BY <1>2, <1>4, ParentType DEF IInv, Waits, Pending
<1>8. Waits'
  BY <1>1, <1>4, <1>5, <1>6, <1>7 DEF Waits, IInv, Pending
<1> QED BY <1>3, <1>8

\* A return sets a parent running that was waiting for this child alone.
LEMMA ReturnKeeps ==
  ASSUME IInv, NEW t \in SubTurns, Return(t) PROVE Counted' /\ Slotted' /\ Waits'
<1> DEFINE p == Parent[t]
<1>1. p \in Turns /\ t \in Turns /\ pc[t] = "return"
  BY ParentType DEF Return
<1>2. t \notin Async => pc[p] = "calling" /\ p # t
  BY <1>1 DEF IInv, Waits, Pending
<1>3. /\ pc'[t] = "done"
      /\ t \notin Async => pc'[p] = "running"
      /\ \A u \in Turns : u # t /\ (u = p => t \in Async) => pc'[u] = pc[u]
  BY <1>1, <1>2 DEF Return, IInv, Typed
<1>4. slot' = slot \ {t}
  BY DEF Return
<1>5. Counted'
  <2>1. CASE t \in slot
    BY <2>1, GivenBack DEF Return, IInv, Slotted
  <2>2. CASE t \notin slot
    BY <2>2, Untouched DEF Return, IInv
  <2> QED BY <2>1, <2>2
<1>6. Slotted'
  BY <1>1, <1>2, <1>3, <1>4, ParentType DEF Slotted, IInv, SubTurns
<1>7. \A u \in Turns : Pending(u)' => Pending(u) /\ u # t
  BY <1>2, <1>3 DEF Pending
<1>8. \A u \in Turns : Pending(u) /\ u # t => pc'[Parent[u]] = "calling"
  <2> SUFFICES ASSUME NEW u \in Turns, Pending(u), u # t PROVE pc'[Parent[u]] = "calling"
    OBVIOUS
  <2>1. pc[Parent[u]] = "calling" /\ Parent[u] \in Turns
    BY ParentType DEF IInv, Waits, Pending
  <2>2. t \notin Async => Parent[u] # p
    BY <1>1 DEF IInv, Waits, Pending
  <2> QED BY <2>1, <2>2, <1>1, <1>3
<1>9. Waits'
  BY <1>7, <1>8 DEF Waits, IInv
<1> QED BY <1>5, <1>6, <1>9

\* The other steps of spawnSubTurn and of the delivery.
LEMMA SpawnStepKeeps ==
  ASSUME IInv, NEW t \in SubTurns, SpawnSteps(t) PROVE Counted' /\ Slotted' /\ Waits'
<1> USE ParentType DEF PCs
<1>1. CASE AcquireSlot(t)
  <2>1. /\ t \notin slot /\ Parent[t] \in SubTurns /\ pc[t] = "acquire" /\ t \in Turns
        /\ slot' = slot \cup {t} /\ pc' = [pc EXCEPT ![t] = "check"]
    BY <1>1 DEF AcquireSlot, IInv, Slotted, Go
  <2>2. Counted'
    BY <1>1, <2>1, Taken DEF AcquireSlot, IInv
  <2>3. Slotted'
    BY <2>1 DEF Slotted, IInv, Typed
  <2>4. \A u \in Turns : /\ Pending(u)' <=> Pending(u)
                         /\ pc[u] = "calling" => pc'[u] = "calling"
    BY <2>1 DEF Pending, IInv, Typed
  <2>5. Waits'
    BY <2>4 DEF Waits, IInv, Pending
  <2> QED BY <2>2, <2>3, <2>5
<1>2. CASE Refuse(t)
  <2>1. /\ pc[t] \in {"acquire", "check"} /\ t \in Turns
        /\ slot' = slot /\ pc' = [pc EXCEPT ![t] = "return"]
    BY <1>2 DEF Refuse, Go
  <2>2. Counted'
    BY <1>2, Untouched DEF Refuse, IInv
  <2>3. Slotted'
    BY <2>1 DEF Slotted, IInv, Typed
  <2>4. \A u \in Turns : /\ Pending(u)' <=> Pending(u)
                         /\ pc[u] = "calling" => pc'[u] = "calling"
    BY <2>1 DEF Pending, IInv, Typed
  <2>5. Waits'
    BY <2>4 DEF Waits, IInv, Pending
  <2> QED BY <2>2, <2>3, <2>5
<1>3. CASE Register(t)
  BY <1>3, MovesAlone, Untouched DEF Register, IInv, Go
<1>4. CASE ReleaseSlot(t)
  <2>1. slot' = slot \ {t} /\ pc[t] = "release"
    BY <1>4 DEF ReleaseSlot
  <2>2. Counted'
    <3>1. CASE t \in slot
      BY <1>4, <3>1, GivenBack DEF ReleaseSlot, IInv, Slotted
    <3>2. CASE t \notin slot
      BY <1>4, <3>2, Untouched DEF ReleaseSlot, IInv
    <3> QED BY <3>1, <3>2
  <2>3. PICK place \in {"deliver", "return"} : Go(t, place)
    BY <1>4 DEF ReleaseSlot
  <2>4. Slotted' /\ Waits'
    BY <2>1, <2>3, MovesAlone
  <2> QED BY <2>2, <2>4
<1>5. CASE DeliverToRoot(t)
  <2>1. pc[t] = "deliver" /\ Go(t, "return") /\ UNCHANGED <<slot, sem>>
    BY <1>5 DEF DeliverToRoot
  <2> QED BY <2>1, MovesAlone, Untouched DEF IInv
<1>6. CASE DeliverToSubTurn(t)
  <2>1. pc[t] = "deliver" /\ Go(t, "send") /\ UNCHANGED <<slot, sem>>
    BY <1>6 DEF DeliverToSubTurn
  <2> QED BY <2>1, MovesAlone, Untouched DEF IInv
<1>7. CASE Send(t)
  <2>1. pc[t] = "send" /\ Go(t, "return") /\ UNCHANGED <<slot, sem>>
    BY <1>7 DEF Send
  <2> QED BY <2>1, MovesAlone, Untouched DEF IInv
<1>8. CASE Return(t)
  BY <1>8, ReturnKeeps
<1> QED BY <1>1, <1>2, <1>3, <1>4, <1>5, <1>6, <1>7, <1>8 DEF SpawnSteps

\* The steps of runTurn: a root starts or ends, a turn gets the model mutex, a
\* SubTurn ends or panics.
LEMMA TurnStepKeeps ==
  ASSUME IInv, NEW t \in Turns, StartRoot(t) \/ RLock(t) \/ TurnEnds(t)
  PROVE Counted' /\ Slotted' /\ Waits'
<1> USE DEF PCs
<1>1. Counted'
  BY Untouched DEF IInv, StartRoot, RLock, TurnEnds, EndRoot, EndSubTurn, PanicSubTurn
<1>2. CASE StartRoot(t) \/ EndRoot(t)
  <2>1. PICK place \in {"lock", "done"} :
          /\ t \in Roots /\ slot' = slot /\ pc' = [pc EXCEPT ![t] = place]
          /\ pc[t] # "calling"
    BY <1>2 DEF StartRoot, EndRoot, Go
  <2>2. Slotted'
    BY <2>1, ParentType DEF Slotted, IInv, Typed, SubTurns
  <2>3. \A u \in Turns : /\ Pending(u)' <=> Pending(u)
                         /\ pc[u] = "calling" => pc'[u] = "calling"
    BY <2>1 DEF Pending, IInv, Typed, SubTurns
  <2>4. Waits'
    BY <2>3, ParentType DEF Waits, IInv, Pending
  <2> QED BY <1>1, <2>2, <2>4
<1>3. CASE RLock(t)
  <2>1. pc[t] = "lock" /\ Go(t, "running") /\ slot' = slot
    BY <1>3 DEF RLock
  <2> QED BY <2>1, <1>1, MovesAlone
<1>4. CASE EndSubTurn(t)
  <2>1. pc[t] = "running" /\ Go(t, "release") /\ slot' = slot
    BY <1>4 DEF EndSubTurn
  <2> QED BY <2>1, <1>1, MovesAlone
<1>5. CASE PanicSubTurn(t)
  <2>1. PICK place \in {"deliver", "return"} :
          pc[t] = "running" /\ Go(t, place) /\ slot' = slot
    BY <1>5 DEF PanicSubTurn
  <2> QED BY <2>1, <1>1, MovesAlone
<1> QED BY <1>2, <1>3, <1>4, <1>5 DEF TurnEnds

\* The other goroutines touch neither turns nor tokens.
LEMMA OthersKeep ==
  ASSUME IInv, UNCHANGED <<pc, slot, sem>> PROVE Counted' /\ Slotted' /\ Waits'
<1>1. Counted' BY Untouched DEF IInv
<1>2. Slotted' BY DEF Slotted, IInv
<1>3. Waits' BY DEF Waits, Pending, IInv
<1> QED BY <1>1, <1>2, <1>3

\* The invariant is inductive.
LEMMA IInvStep == IInv /\ [Next]_vars => IInv'
<1> SUFFICES ASSUME IInv, [Next]_vars PROVE IInv' OBVIOUS
<1>1. CASE UNCHANGED vars
  <2>1. UNCHANGED <<pc, slot, sem>> BY <1>1 DEF vars
  <2>2. Typed' BY <2>1 DEF Typed, IInv
  <2> QED BY <2>1, <2>2, OthersKeep DEF IInv
<1>2. CASE Next
  <2>1. Typed' BY <1>2, NextType
  <2>2. CASE \E t \in Turns : StartRoot(t) \/ RLock(t) \/ TurnEnds(t)
    BY <2>1, <2>2, TurnStepKeeps DEF IInv
  <2>3. CASE \E t \in SubTurns : Spawn(t)
    <3> PICK t \in SubTurns : Spawn(t) BY <2>3
    <3>1. Counted' BY Untouched DEF Spawn, IInv
    <3> QED BY <2>1, <3>1, SpawnKeeps DEF IInv
  <2>4. CASE \E t \in SubTurns : SpawnSteps(t)
    BY <2>1, <2>4, SpawnStepKeeps DEF IInv
  <2>5. CASE \/ \E t \in Turns : HardAbort(t)
             \/ \E t \in SubTurns : Poll(t)
             \/ \E a \in Agents : WriterAsks(a) \/ WriterSteps(a)
    <3>1. UNCHANGED <<pc, slot, sem>>
      BY <2>5 DEF HardAbort, Poll, WriterAsks, WriterSteps, WriterLocks, WriterUnlocks
    <3> QED BY <2>1, <3>1, OthersKeep DEF IInv
  <2> QED BY <1>2, <2>2, <2>3, <2>4, <2>5 DEF Next
<1> QED BY <1>1, <1>2

\* The ledger of the semaphores holds in every reachable state: spawnSubTurn
\* gives back every token it takes, and gives none back twice.
THEOREM InvariantHolds == Spec => []IInv
<1> QED BY IInvInit, IInvStep, PTL DEF Spec

\* The SubTurns that run at a time under one SubTurn are at most as many as its
\* semaphore has slots, for any tree and any limit (concurrencySem).
THEOREM RunningBoundedHolds == Spec => []RunningBounded
<1>1. IInv => RunningBounded
  <2> SUFFICES ASSUME IInv, NEW p \in SubTurns
               PROVE Cardinality({t \in Children(p) : pc[t] \in {"lock", "running", "calling"}})
                       <= MaxConcurrent
    BY DEF RunningBounded
  <2> DEFINE Under == {t \in Children(p) : pc[t] \in {"lock", "running", "calling"}}
  <2>1. Under \subseteq Holders(p)
    BY DEF IInv, Slotted, Holders, Children
  <2>2. IsFiniteSet(Holders(p))
    BY HoldersFinite DEF IInv
  <2>3. /\ Cardinality(Under) <= Cardinality(Holders(p))
        /\ Cardinality(Under) \in Nat /\ Cardinality(Holders(p)) \in Nat
    BY <2>1, <2>2, FS_Subset, FS_CardinalityType
  <2> HIDE DEF Under
  <2>4. Cardinality(Under) <= MaxConcurrent
    BY <2>3, SubTurnAssumption DEF IInv, Counted
  <2> QED BY <2>4 DEF Under
<1> QED BY <1>1, InvariantHolds, PTL

-----------------------------------------------------------------------------
\* The model mutexes.
Mutexes ==
  /\ readers \in [Agents -> SUBSET Turns]
  /\ writer \in [Agents -> {"idle", "waiting", "holding"}]

LEMMA MutexesInit == Init => Mutexes
BY DEF Init, Mutexes

LEMMA MutexesStep == Mutexes /\ [Next]_vars => Mutexes'
<1> SUFFICES ASSUME Mutexes, [Next]_vars PROVE Mutexes' OBVIOUS
<1>1. ASSUME NEW t \in Turns, StartRoot(t) \/ RLock(t) \/ TurnEnds(t) \/ HardAbort(t)
      PROVE  Mutexes'
  BY <1>1 DEF Mutexes, StartRoot, RLock, TurnEnds, EndRoot, EndSubTurn, PanicSubTurn, Unlocked,
              HardAbort
<1>2. ASSUME NEW t \in SubTurns, Spawn(t) \/ Poll(t) \/ SpawnSteps(t)
      PROVE  UNCHANGED <<readers, writer>>
  BY <1>2 DEF Spawn, Poll, SpawnSteps, AcquireSlot, Refuse, Register, ReleaseSlot, Return,
              DeliverToRoot, DeliverToSubTurn, Send
<1>3. ASSUME NEW a \in Agents, WriterAsks(a) \/ WriterSteps(a)
      PROVE  Mutexes'
  BY <1>3 DEF Mutexes, WriterAsks, WriterSteps, WriterLocks, WriterUnlocks
<1> QED BY <1>1, <1>2, <1>3 DEF Next, vars, Mutexes

\* Whoever waits for a turn that asks for its mutex is inside the call of a
\* SubTurn: the turns that call are closed under waiting.
LEMMA WaitersCall ==
  ASSUME IInv, NEW t \in SubTurns, pc[t] = "lock", NEW u \in WaitingFor(t)
  PROVE  pc[u] = "calling"
<1> DEFINE S == {v \in Turns : pc[v] = "calling"}
<1>1. ASSUME NEW x \in S \cup {t}, Parent[x] # None, x \notin Async
      PROVE  Parent[x] \in S
  <2>1. x \in SubTurns /\ pc[x] \in {"calling", "lock"}
    BY <1>1 DEF SubTurns, Roots
  <2>2. Pending(x) BY <1>1, <2>1 DEF Pending
  <2> QED BY <2>1, <2>2, ParentType DEF IInv, Waits
<1>2. WaitFor(S \cup {t}) \subseteq S BY <1>1 DEF WaitFor
<1>3. S \in SUBSET Turns OBVIOUS
<1> HIDE DEF S
<1>4. u \in S BY <1>2, <1>3 DEF WaitingFor
<1> QED BY <1>4 DEF S

\* A turn that asks for its mutex behind a writer stays where it is, and a turn
\* inside a call keeps its mutex.
LEMMA AskerStays ==
  ASSUME IInv, Mutexes, [Next]_vars, NEW t \in Turns, pc[t] = "lock",
         writer[AgentOf[t]] = "waiting"
  PROVE  pc'[t] = "lock"
<1> USE DEF IInv, Typed, Go
<1>1. ASSUME NEW x \in Turns, StartRoot(x) \/ RLock(x) \/ TurnEnds(x) \/ HardAbort(x)
      PROVE  pc'[t] = "lock"
  BY <1>1 DEF StartRoot, RLock, TurnEnds, EndRoot, EndSubTurn, PanicSubTurn, HardAbort
<1>2. ASSUME NEW x \in SubTurns, Spawn(x) \/ Poll(x)
      PROVE  pc'[t] = "lock"
  BY <1>2 DEF Spawn, Poll
<1>3. ASSUME NEW x \in SubTurns, Return(x)
      PROVE  pc'[t] = "lock"
  <2>1. x \notin Async => pc[Parent[x]] = "calling"
    BY <1>3, ParentType DEF Return, Waits, Pending
  <2> QED BY <1>3, <2>1, ParentType DEF Return
<1>4. ASSUME NEW x \in SubTurns, SpawnSteps(x)
      PROVE  pc'[t] = "lock"
  BY <1>3, <1>4 DEF SpawnSteps, AcquireSlot, Refuse, Register, ReleaseSlot, DeliverToRoot,
                    DeliverToSubTurn, Send
<1>5. ASSUME NEW a \in Agents, WriterAsks(a) \/ WriterSteps(a)
      PROVE  pc'[t] = "lock"
  BY <1>5 DEF WriterAsks, WriterSteps, WriterLocks, WriterUnlocks
<1> QED BY <1>1, <1>2, <1>4, <1>5 DEF Next, vars

LEMMA CallerKeepsMutex ==
  ASSUME Mutexes, [Next]_vars, NEW u, pc[u] = "calling", NEW a \in Agents, u \in readers[a]
  PROVE  /\ u \in readers'[a]
         /\ writer[a] = "waiting" => writer'[a] = "waiting"
<1> USE DEF Mutexes
<1>1. ASSUME NEW x \in Turns, StartRoot(x) \/ RLock(x) \/ HardAbort(x)
      PROVE  u \in readers'[a] /\ writer' = writer
  BY <1>1 DEF StartRoot, RLock, HardAbort
<1>2. ASSUME NEW x \in Turns, TurnEnds(x)
      PROVE  u \in readers'[a] /\ writer' = writer
  <2>1. pc[x] = "running" /\ Unlocked(x) /\ writer' = writer
    BY <1>2 DEF TurnEnds, EndRoot, EndSubTurn, PanicSubTurn
  <2> QED BY <2>1 DEF Unlocked
<1>3. ASSUME NEW x \in SubTurns, Spawn(x) \/ Poll(x) \/ SpawnSteps(x)
      PROVE  UNCHANGED <<readers, writer>>
  BY <1>3 DEF Spawn, Poll, SpawnSteps, AcquireSlot, Refuse, Register, ReleaseSlot, Return,
              DeliverToRoot, DeliverToSubTurn, Send
<1>4. ASSUME NEW b \in Agents, WriterAsks(b) \/ WriterSteps(b)
      PROVE  readers' = readers /\ (writer[a] = "waiting" => writer'[a] = "waiting")
  BY <1>4 DEF WriterAsks, WriterSteps, WriterLocks, WriterUnlocks
<1> QED BY <1>1, <1>2, <1>3, <1>4 DEF Next, vars

\* An embrace, once there, stays.
EmbraceIsForever == [][\A t \in SubTurns : Embraced(t) => Embraced(t)']_vars

\* Nothing leads out of the embrace of a SubTurn, the writer of its agent and a
\* turn that waits for the SubTurn, for any tree of turns and any agents: the
\* reader cannot leave before the SubTurn returns, the writer not lock before
\* the reader leaves, the SubTurn not lock before the writer (runTurn).
THEOREM EmbraceIsForeverHolds == Spec => EmbraceIsForever
<1>1. ASSUME IInv, Mutexes, [Next]_vars, NEW t \in SubTurns, Embraced(t)
      PROVE  Embraced(t)'
  <2> DEFINE a == AgentOf[t]
  <2>1. t \in Turns /\ a \in Agents BY ParentType, SubTurnAssumption
  <2>2. pc[t] = "lock" /\ writer[a] = "waiting" BY <1>1 DEF Embraced
  <2>3. PICK u \in WaitingFor(t) : u \in readers[a] BY <1>1 DEF Embraced
  <2>4. pc[u] = "calling" BY <1>1, <2>2, <2>3, WaitersCall
  <2>5. pc'[t] = "lock" BY <1>1, <2>1, <2>2, AskerStays
  <2>6. u \in readers'[a] /\ writer'[a] = "waiting"
    BY <1>1, <2>1, <2>2, <2>3, <2>4, CallerKeepsMutex
  <2> QED BY <2>3, <2>5, <2>6 DEF Embraced, WaitingFor
<1>2. IInv /\ Mutexes /\ [Next]_vars => (\A t \in SubTurns : Embraced(t) => Embraced(t)')
  BY <1>1
<1> QED BY <1>2, IInvInit, IInvStep, MutexesInit, MutexesStep, PTL DEF Spec, EmbraceIsForever
-----------------------------------------------------------------------------
\* What is made of the result of a SubTurn.

Fates == {"none", "result", "nil", "queued", "read", "orphan", "returned"}
Settled(t) == IF t \in Async THEN {"none", "nil", "orphan", "queued", "read"}
                             ELSE {"none", "nil", "returned"}

\* The result of t, by where its call of spawnSubTurn is.
Progress(t) ==
  /\ pc[t] \in {"none", "acquire", "check", "lock", "running", "calling"} => fate[t] = "none"
  /\ pc[t] = "release" => fate[t] = "result"
  /\ pc[t] \in {"deliver", "send"} => t \in Async /\ fate[t] \in {"result", "nil"}
  /\ pc[t] = "send" => Parent[t] \in SubTurns
  /\ pc[t] = "return" =>
       fate[t] \in IF t \in Async THEN Settled(t) ELSE {"none", "nil", "result"}
  /\ pc[t] = "done" => fate[t] \in Settled(t)

\* What is in the channel of p, and that what was queued for p and not read is.
Channel(p) ==
  LET q == results[p] IN
  /\ q \in Seq(SubTurns) /\ Len(q) <= Capacity
  /\ \A i \in 1..Len(q) :
       /\ Parent[q[i]] = p /\ pc[q[i]] \in {"return", "done"} /\ fate[q[i]] \in {"queued", "nil"}
       /\ \A j \in 1..Len(q) : q[i] = q[j] => i = j
  /\ \A t \in Children(p) : fate[t] = "queued" => \E i \in 1..Len(q) : q[i] = t

Handed ==
  /\ fate \in [SubTurns -> Fates]
  /\ results = [p \in SubTurns |-> results[p]]
  /\ \A t \in SubTurns : Progress(t) /\ Channel(t)

LEMMA HandedInit == Init => Handed
<1> SUFFICES ASSUME Init PROVE Handed OBVIOUS
<1>1. \A t \in SubTurns : pc[t] = "none" /\ fate[t] = "none" /\ results[t] = <<>>
  BY ParentType DEF Init
<1>2. \A t \in SubTurns : Progress(t) BY <1>1 DEF Progress
<1>3. ASSUME NEW p \in SubTurns PROVE Channel(p)
  <2>1. results[p] \in Seq(SubTurns) /\ Len(results[p]) = 0 BY <1>1, EmptySeq
  <2>2. \A t \in Children(p) : fate[t] # "queued" BY <1>1 DEF Children
  <2> QED BY <2>1, <2>2, SubTurnAssumption DEF Channel
<1> QED BY <1>2, <1>3 DEF Init, Handed, Fates

\* A step that leaves the channels alone, and gives a fate only to a SubTurn
\* that is in none.
LEMMA ChannelsKept ==
  ASSUME IInv, Handed, results' = results, fate' \in [SubTurns -> Fates],
         \A u \in SubTurns :
           \/ fate'[u] = fate[u]
           \/ fate[u] \notin {"queued", "nil"} /\ fate'[u] # "queued",
         \A u \in SubTurns : pc[u] \in {"return", "done"} => pc'[u] \in {"return", "done"},
         \A u \in SubTurns : Progress(u)'
  PROVE  Handed'
<1>1. ASSUME NEW p \in SubTurns PROVE Channel(p)'
  <2>1. Channel(p) BY DEF Handed
  <2>2. \A i \in 1..Len(results[p]) : results[p][i] \in SubTurns BY <2>1 DEF Channel
  <2>3. \A i \in 1..Len(results[p]) : fate'[results[p][i]] = fate[results[p][i]]
    BY <2>1, <2>2 DEF Channel
  <2>4. \A t \in Children(p) : fate'[t] = "queued" => fate[t] = "queued"
    BY DEF Children
  <2> QED BY <2>1, <2>2, <2>3, <2>4 DEF Channel, Children
<1> QED BY <1>1 DEF Handed

\* A step of t, which its parent may be waiting for.
LEMMA OthersProgress ==
  ASSUME Handed, NEW t, Progress(t)',
         \A u \in SubTurns : u # t =>
           /\ fate'[u] = fate[u]
           /\ pc'[u] = pc[u] \/ (pc[u] \in {"running", "calling"} /\ pc'[u] \in {"running", "calling"})
  PROVE  \A u \in SubTurns : Progress(u)'
<1> SUFFICES ASSUME NEW u \in SubTurns, u # t PROVE Progress(u)' OBVIOUS
<1>1. Progress(u) BY DEF Handed
<1> QED BY <1>1 DEF Progress, Settled

\* A step of t alone that leaves its result as it is ...
LEMMA MoveOfOne ==
  ASSUME IInv, Handed, NEW t \in Turns, NEW place, Go(t, place),
         results' = results, fate' = fate,
         t \in SubTurns => Progress(t)', t \in SubTurns => pc[t] \notin {"return", "done"}
  PROVE  Handed'
<1>1. \A u \in Turns : u # t => pc'[u] = pc[u] BY DEF Go, IInv, Typed
<1>2. \A u \in SubTurns : u # t => fate'[u] = fate[u] /\ pc'[u] = pc[u] BY <1>1, ParentType
<1>3. \A u \in SubTurns : Progress(u)'
  <2>1. CASE t \in SubTurns BY <1>2, <2>1, OthersProgress
  <2>2. CASE t \notin SubTurns
    <3>1. \A u \in SubTurns : fate'[u] = fate[u] /\ pc'[u] = pc[u] BY <1>2, <2>2
    <3> QED BY <3>1 DEF Handed, Progress, Settled
  <2> QED BY <2>1, <2>2
<1>4. \A u \in SubTurns : pc[u] \in {"return", "done"} => pc'[u] \in {"return", "done"}
  BY <1>2
<1>5. \A u \in SubTurns : fate'[u] = fate[u] OBVIOUS
<1>6. fate' \in [SubTurns -> Fates] BY DEF Handed
<1> QED BY <1>3, <1>4, <1>5, <1>6, ChannelsKept

\* ... and one that gives it a fate other than the channel.
LEMMA FateOfOne ==
  ASSUME IInv, Handed, NEW t \in SubTurns, NEW place, Go(t, place), results' = results,
         NEW f \in Fates, f # "queued", fate' = [fate EXCEPT ![t] = f],
         fate[t] \notin {"queued", "nil"}, pc[t] \notin {"return", "done"}, Progress(t)'
  PROVE  Handed'
<1>1. \A u \in Turns : u # t => pc'[u] = pc[u] BY DEF Go, IInv, Typed
<1>2. fate \in [SubTurns -> Fates] BY DEF Handed
<1>3. fate' \in [SubTurns -> Fates] /\ fate'[t] = f /\ \A u \in SubTurns : u # t => fate'[u] = fate[u]
  BY <1>2
<1>4. \A u \in SubTurns : u # t => fate'[u] = fate[u] /\ pc'[u] = pc[u]
  BY <1>1, <1>3, ParentType
<1>5. \A u \in SubTurns : Progress(u)' BY <1>4, OthersProgress
<1>6. \A u \in SubTurns : pc[u] \in {"return", "done"} => pc'[u] \in {"return", "done"}
  BY <1>4
<1>7. \A u \in SubTurns :
        \/ fate'[u] = fate[u]
        \/ fate[u] \notin {"queued", "nil"} /\ fate'[u] # "queued"
  BY <1>3
<1> QED BY <1>3, <1>5, <1>6, <1>7, ChannelsKept

\* The parent takes the next result.
LEMMA PollHands == ASSUME IInv, Handed, NEW t \in SubTurns, Poll(t) PROVE Handed'
<1>a. PICK q, h : q = results[t] /\ h = Head(q) OBVIOUS
<1>1. /\ q \in Seq(SubTurns) /\ q # <<>> /\ Len(q) <= Capacity
      /\ \A i \in 1..Len(q) :
           /\ Parent[q[i]] = t /\ pc[q[i]] \in {"return", "done"} /\ fate[q[i]] \in {"queued", "nil"}
           /\ \A j \in 1..Len(q) : q[i] = q[j] => i = j
  BY <1>a DEF Poll, Handed, Channel
<1>2. /\ Len(q) \in Nat /\ Len(q) > 0 /\ h = q[1] /\ h \in SubTurns
      /\ Tail(q) \in Seq(SubTurns) /\ Len(Tail(q)) = Len(q) - 1
      /\ \A i \in 1..Len(Tail(q)) : Tail(q)[i] = q[i + 1]
  BY <1>a, <1>1, HeadTailProperties, EmptySeq
<1>3. /\ Parent[h] = t /\ pc[h] \in {"return", "done"} /\ fate[h] \in {"queued", "nil"}
      /\ \A i \in 1..Len(q) : q[i] = h => i = 1
  BY <1>1, <1>2
<1>4. /\ results' = [results EXCEPT ![t] = Tail(q)] /\ pc' = pc
      /\ fate' = [fate EXCEPT ![h] = IF fate[h] = "queued" THEN "read" ELSE fate[h]]
  BY <1>a DEF Poll
<1>5. /\ \A p \in SubTurns : results'[p] = IF p = t THEN Tail(q) ELSE results[p]
      /\ results' = [p \in SubTurns |-> results'[p]]
  BY <1>4 DEF Handed
<1>6. /\ \A u \in SubTurns : u # h => fate'[u] = fate[u]
      /\ fate'[h] = IF fate[h] = "queued" THEN "read" ELSE fate[h]
      /\ fate' \in [SubTurns -> Fates]
  BY <1>2, <1>4 DEF Handed, Fates
<1>7. Progress(h)'
  <2>1. Progress(h) BY <1>2 DEF Handed
  <2> QED BY <1>3, <1>4, <1>6, <2>1 DEF Progress, Settled
<1>8. \A u \in SubTurns : Progress(u)'
  BY <1>4, <1>6, <1>7, OthersProgress
<1>9. Channel(t)'
  <2> DEFINE s == Tail(q)
  <2>1. Len(s) <= Capacity BY <1>1, <1>2, SubTurnAssumption
  <2>2. ASSUME NEW i \in 1..Len(s)
        PROVE  /\ i + 1 \in 1..Len(q) /\ i + 1 # 1 /\ s[i] = q[i + 1]
               /\ q[i + 1] \in SubTurns /\ q[i + 1] # h
    <3>1. i + 1 \in 1..Len(q) /\ i + 1 # 1 BY <1>2
    <3> QED BY <1>1, <1>2, <1>3, <3>1
  <2>3. ASSUME NEW i \in 1..Len(s)
        PROVE  /\ Parent[s[i]] = t /\ pc'[s[i]] \in {"return", "done"}
               /\ fate'[s[i]] \in {"queued", "nil"}
    BY <1>1, <1>4, <1>6, <2>2
  <2>4. ASSUME NEW i \in 1..Len(s), NEW j \in 1..Len(s), s[i] = s[j]
        PROVE  i = j
    <3>1. q[i + 1] = q[j + 1] /\ i + 1 \in 1..Len(q) /\ j + 1 \in 1..Len(q) BY <2>2, <2>4
    <3>2. i + 1 = j + 1 BY <1>1, <3>1
    <3> QED BY <3>2
  <2>5. ASSUME NEW u \in Children(t), fate'[u] = "queued"
        PROVE  \E i \in 1..Len(s) : s[i] = u
    <3>1. u \in SubTurns /\ u # h BY <1>3, <1>6, <2>5 DEF Children
    <3>2. fate[u] = "queued" BY <1>6, <2>5, <3>1
    <3>3. Channel(t) BY DEF Handed
    <3>4. PICK i \in 1..Len(q) : q[i] = u BY <1>a, <2>5, <3>2, <3>3 DEF Channel
    <3>5. i # 1 BY <1>2, <3>1, <3>4
    <3>6. i - 1 \in 1..Len(s) /\ i = (i - 1) + 1 BY <1>2, <3>5
    <3>7. s[i - 1] = u BY <1>2, <3>4, <3>6
    <3> QED BY <3>6, <3>7
  <2>6. results'[t] = s BY <1>5
  <2>7. s \in Seq(SubTurns) BY <1>2
  <2> HIDE DEF s
  <2> QED BY <2>7, <2>1, <2>3, <2>4, <2>5, <2>6 DEF Channel, Children
<1>10. ASSUME NEW p \in SubTurns, p # t PROVE Channel(p)'
  <2>1. Channel(p) /\ results'[p] = results[p] BY <1>5, <1>10 DEF Handed
  <2>2. \A i \in 1..Len(results[p]) : results[p][i] \in SubTurns /\ results[p][i] # h
    BY <1>3, <1>10, <2>1 DEF Channel
  <2>3. \A i \in 1..Len(results[p]) :
          fate'[results[p][i]] = fate[results[p][i]] /\ pc'[results[p][i]] = pc[results[p][i]]
    BY <1>4, <1>6, <2>2
  <2>4. \A u \in Children(p) : fate'[u] = fate[u] BY <1>3, <1>6, <1>10 DEF Children
  <2> QED BY <2>1, <2>3, <2>4 DEF Channel, Children
<1> QED BY <1>5, <1>6, <1>8, <1>9, <1>10 DEF Handed

\* A child puts its result into the channel of its parent.
LEMMA SendHands == ASSUME IInv, Handed, NEW t \in SubTurns, Send(t) PROVE Handed'
<1>1. Progress(t) BY DEF Handed
<1>2. pc[t] = "send" /\ t \in Async /\ Parent[t] \in SubTurns /\ fate[t] \in {"result", "nil"}
  BY <1>1 DEF Send, Progress
<1> DEFINE p == Parent[t]
           q == results[p]
<1>3. /\ results' = [results EXCEPT ![p] = Append(q, t)] /\ Go(t, "return") /\ Len(q) < Capacity
      /\ fate' = [fate EXCEPT ![t] = IF fate[t] = "result" THEN "queued" ELSE fate[t]]
  BY DEF Send
<1>4. /\ Channel(p) /\ q \in Seq(SubTurns) /\ Len(q) \in Nat BY <1>2, LenProperties DEF Handed, Channel
<1>5. /\ Append(q, t) \in Seq(SubTurns) /\ Len(Append(q, t)) = Len(q) + 1
      /\ Append(q, t)[Len(q) + 1] = t
      /\ \A i \in 1..Len(q) : Append(q, t)[i] = q[i]
  <2> HIDE DEF q
  <2> QED BY <1>4, AppendProperties
<1>6. /\ \A u \in SubTurns : results'[u] = IF u = p THEN Append(q, t) ELSE results[u]
      /\ results' = [u \in SubTurns |-> results'[u]]
  BY <1>2, <1>3 DEF Handed
<1>7. /\ \A u \in SubTurns : u # t => fate'[u] = fate[u]
      /\ fate'[t] = IF fate[t] = "result" THEN "queued" ELSE fate[t]
      /\ fate' \in [SubTurns -> Fates]
  BY <1>3 DEF Handed, Fates
<1>8. pc'[t] = "return" /\ \A u \in SubTurns : u # t => pc'[u] = pc[u]
  BY <1>3, ParentType DEF Go, IInv, Typed
<1>9. Progress(t)' BY <1>2, <1>7, <1>8 DEF Progress, Settled
<1>10. \A u \in SubTurns : Progress(u)'
  BY <1>7, <1>8, <1>9, OthersProgress
<1>11. ASSUME NEW u \in SubTurns
       PROVE  \A i \in 1..Len(results[u]) : results[u][i] \in SubTurns /\ results[u][i] # t
  <2>1. Channel(u) BY DEF Handed
  <2> QED BY <1>2, <2>1 DEF Channel
<1> HIDE DEF p
<1>12. Channel(p)'
  <2> DEFINE s == Append(q, t)
  <2>1. p \in SubTurns /\ results'[p] = s BY <1>2, <1>6 DEF p
  <2>2. Len(s) <= Capacity BY <1>3, <1>4, <1>5, SubTurnAssumption
  <2>3. \A i \in 1..Len(s) : i \in 1..Len(q) \/ i = Len(q) + 1 BY <1>4, <1>5
  <2>4. \A i \in 1..Len(q) : q[i] \in SubTurns /\ q[i] # t BY <1>11, <2>1
  <2>5. \A i \in 1..Len(q) :
          /\ Parent[q[i]] = p /\ pc'[q[i]] \in {"return", "done"} /\ fate'[q[i]] \in {"queued", "nil"}
          /\ \A j \in 1..Len(q) : q[i] = q[j] => i = j
    BY <1>4, <1>7, <1>8, <2>4 DEF Channel
  <2>6. Parent[t] = p /\ pc'[t] \in {"return", "done"} /\ fate'[t] \in {"queued", "nil"}
    BY <1>2, <1>7, <1>8 DEF p
  <2>7. ASSUME NEW i \in 1..Len(s)
        PROVE  /\ Parent[s[i]] = p /\ pc'[s[i]] \in {"return", "done"}
               /\ fate'[s[i]] \in {"queued", "nil"}
    BY <1>5, <2>3, <2>5, <2>6
  <2>8. ASSUME NEW i \in 1..Len(s), NEW j \in 1..Len(s), s[i] = s[j] PROVE i = j
    BY <1>5, <2>3, <2>4, <2>5, <2>8
  <2>9. ASSUME NEW u \in Children(p), fate'[u] = "queued" PROVE \E i \in 1..Len(s) : s[i] = u
    <3>1. CASE u = t
      <4>1. Len(q) + 1 \in 1..Len(s) BY <1>4, <1>5
      <4> QED BY <1>5, <3>1, <4>1
    <3>2. CASE u # t
      <4>1. u \in SubTurns /\ fate[u] = "queued" BY <1>7, <2>9, <3>2 DEF Children
      <4>2. PICK i \in 1..Len(q) : q[i] = u BY <1>4, <4>1 DEF Channel
      <4>3. i \in 1..Len(s) BY <1>4, <1>5
      <4> QED BY <1>5, <4>2, <4>3
    <3> QED BY <3>1, <3>2
  <2> HIDE DEF s
  <2>10. s \in Seq(SubTurns) BY <1>5 DEF s
  <2> QED BY <2>1, <2>2, <2>7, <2>8, <2>9, <2>10 DEF Channel, Children
<1>13. ASSUME NEW v \in SubTurns, v # p PROVE Channel(v)'
  <2>1. Channel(v) /\ results'[v] = results[v] BY <1>6, <1>13 DEF Handed, p
  <2>2. \A u \in Children(v) : u \in SubTurns /\ u # t BY <1>13 DEF Children, p
  <2> QED BY <1>7, <1>8, <1>11, <2>1, <2>2 DEF Channel, Children
<1> QED BY <1>6, <1>7, <1>10, <1>12, <1>13 DEF Handed

\* The caller gets the result of a child it waited for, and goes on.
LEMMA ReturnHands == ASSUME IInv, Handed, NEW t \in SubTurns, Return(t) PROVE Handed'
<1> DEFINE p == Parent[t]
<1>1. p \in Turns /\ t \in Turns /\ pc[t] = "return"
  BY ParentType DEF Return
<1>2. t \notin Async => pc[p] = "calling" /\ p # t
  BY <1>1 DEF IInv, Waits, Pending
<1>3. /\ pc'[t] = "done"
      /\ t \notin Async => pc'[p] = "running"
      /\ \A u \in Turns : u # t /\ (u = p => t \in Async) => pc'[u] = pc[u]
  BY <1>1, <1>2 DEF Return, IInv, Typed
<1>4. results' = results /\ fate \in [SubTurns -> Fates]
      /\ fate' = [fate EXCEPT ![t] = IF t \notin Async /\ fate[t] = "result" THEN "returned" ELSE fate[t]]
  BY DEF Return, Handed
<1>5. /\ \A u \in SubTurns : u # t => fate'[u] = fate[u]
      /\ fate'[t] = IF t \notin Async /\ fate[t] = "result" THEN "returned" ELSE fate[t]
      /\ fate' \in [SubTurns -> Fates]
  BY <1>4 DEF Fates
<1>6. Progress(t)'
  <2>1. Progress(t) BY DEF Handed
  <2> QED BY <1>1, <1>3, <1>5, <2>1 DEF Progress, Settled
<1>7. \A u \in SubTurns : u # t =>
        /\ fate'[u] = fate[u]
        /\ pc'[u] = pc[u] \/ (pc[u] \in {"running", "calling"} /\ pc'[u] \in {"running", "calling"})
  BY <1>2, <1>3, <1>5, ParentType
<1>8. \A u \in SubTurns : Progress(u)' BY <1>6, <1>7, OthersProgress
<1>9. \A u \in SubTurns : pc[u] \in {"return", "done"} => pc'[u] \in {"return", "done"}
  BY <1>3, <1>7
<1>10. \A u \in SubTurns :
         \/ fate'[u] = fate[u]
         \/ fate[u] \notin {"queued", "nil"} /\ fate'[u] # "queued"
  BY <1>5
<1> QED BY <1>4, <1>5, <1>8, <1>9, <1>10, ChannelsKept

LEMMA SpawnHands == ASSUME IInv, Handed, NEW t \in SubTurns, Spawn(t) PROVE Handed'
<1> DEFINE p == Parent[t]
<1>1. p \in Turns /\ t \in Turns /\ p # t /\ pc[t] = "none" /\ pc[p] = "running"
  BY ParentType DEF Spawn
<1>2. /\ pc'[t] \in {"check", "acquire"}
      /\ pc'[p] \in {"running", "calling"}
      /\ \A u \in Turns \ {t, p} : pc'[u] = pc[u]
      /\ results' = results /\ fate' = fate
  BY <1>1 DEF Spawn, IInv, Typed
<1>3. Progress(t)'
  <2>1. Progress(t) BY DEF Handed
  <2> QED BY <1>1, <1>2, <2>1 DEF Progress
<1>4. \A u \in SubTurns : u # t =>
        /\ fate'[u] = fate[u]
        /\ pc'[u] = pc[u] \/ (pc[u] \in {"running", "calling"} /\ pc'[u] \in {"running", "calling"})
  BY <1>1, <1>2, ParentType
<1>5. \A u \in SubTurns : Progress(u)' BY <1>3, <1>4, OthersProgress
<1>6. \A u \in SubTurns : pc[u] \in {"return", "done"} => pc'[u] \in {"return", "done"}
  BY <1>1, <1>4
<1>7. fate' \in [SubTurns -> Fates] BY <1>2 DEF Handed
<1> QED BY <1>2, <1>5, <1>6, <1>7, ChannelsKept

\* The steps that concern one turn.
LEMMA OneHands ==
  ASSUME IInv, Handed, NEW t \in Turns,
         \/ StartRoot(t) \/ RLock(t) \/ TurnEnds(t)
         \/ /\ t \in SubTurns
            /\ \/ AcquireSlot(t) \/ Refuse(t) \/ Register(t) \/ ReleaseSlot(t)
               \/ DeliverToRoot(t) \/ DeliverToSubTurn(t)
  PROVE  Handed'
<1>1. fate \in [SubTurns -> Fates] /\ (t \in SubTurns => Progress(t)) BY DEF Handed
<1>2. {"none", "result", "nil", "orphan"} \subseteq Fates BY DEF Fates
<1>3. \A place : Go(t, place) => pc'[t] = place BY DEF Go, IInv, Typed
<1>4. CASE StartRoot(t) \/ EndRoot(t)
  <2>1. t \notin SubTurns /\ fate' = fate /\ results' = results
        /\ (Go(t, "lock") \/ Go(t, "done"))
    BY <1>4 DEF StartRoot, EndRoot, SubTurns
  <2> QED BY <2>1, MoveOfOne
<1>5. CASE RLock(t)
  <2>1. pc[t] = "lock" /\ fate' = fate /\ results' = results /\ Go(t, "running")
    BY <1>5 DEF RLock
  <2>2. t \in SubTurns => Progress(t)' BY <1>1, <1>3, <2>1 DEF Progress
  <2>3. pc[t] \notin {"return", "done"} BY <2>1
  <2> QED BY <2>1, <2>2, <2>3, MoveOfOne
<1>6. CASE EndSubTurn(t)
  <2>1. /\ pc[t] = "running" /\ fate' = [fate EXCEPT ![t] = "result"] /\ results' = results
        /\ Go(t, "release") /\ t \in SubTurns
    BY <1>6 DEF EndSubTurn
  <2>2. fate[t] = "none" /\ fate'[t] = "result" BY <1>1, <2>1 DEF Progress
  <2>3. Progress(t)' BY <1>3, <2>1, <2>2 DEF Progress
  <2>4. fate[t] \notin {"queued", "nil"} /\ pc[t] \notin {"return", "done"} BY <2>1, <2>2
  <2> QED BY <1>2, <2>1, <2>3, <2>4, FateOfOne
<1>7. CASE PanicSubTurn(t)
  <2>1. /\ pc[t] = "running" /\ fate' = [fate EXCEPT ![t] = "nil"] /\ results' = results
        /\ Go(t, IF t \in Async THEN "deliver" ELSE "return") /\ t \in SubTurns
    BY <1>7, SubTurnAssumption DEF PanicSubTurn
  <2>2. fate[t] = "none" /\ fate'[t] = "nil" BY <1>1, <2>1 DEF Progress
  <2>3. Progress(t)' BY <1>3, <2>1, <2>2 DEF Progress
  <2>4. fate[t] \notin {"queued", "nil"} /\ pc[t] \notin {"return", "done"} BY <2>1, <2>2
  <2> QED BY <1>2, <2>1, <2>3, <2>4, FateOfOne
<1>8. CASE t \in SubTurns /\ (AcquireSlot(t) \/ Refuse(t) \/ Register(t))
  <2>1. PICK place \in {"check", "return", "lock"} :
          pc[t] \in {"acquire", "check"} /\ fate' = fate /\ results' = results /\ Go(t, place)
    BY <1>8 DEF AcquireSlot, Refuse, Register
  <2>2. fate[t] = "none" /\ fate'[t] = "none" BY <1>1, <1>8, <2>1 DEF Progress
  <2>3. Progress(t)' BY <1>3, <2>1, <2>2 DEF Progress, Settled
  <2>4. pc[t] \notin {"return", "done"} BY <2>1
  <2> QED BY <2>1, <2>3, <2>4, MoveOfOne
<1>9. CASE t \in SubTurns /\ ReleaseSlot(t)
  <2>1. /\ pc[t] = "release" /\ fate' = fate /\ results' = results
        /\ Go(t, IF t \in Async THEN "deliver" ELSE "return")
    BY <1>9 DEF ReleaseSlot
  <2>2. fate[t] = "result" /\ fate'[t] = "result" BY <1>1, <1>9, <2>1 DEF Progress
  <2>3. Progress(t)' BY <1>3, <2>1, <2>2 DEF Progress
  <2>4. pc[t] \notin {"return", "done"} BY <2>1
  <2> QED BY <2>1, <2>3, <2>4, MoveOfOne
<1>10. CASE t \in SubTurns /\ DeliverToRoot(t)
  <2>1. /\ pc[t] = "deliver" /\ results' = results /\ Go(t, "return")
        /\ fate' = [fate EXCEPT ![t] = IF fate[t] = "result" THEN "orphan" ELSE fate[t]]
    BY <1>10 DEF DeliverToRoot, Orphaned
  <2>2. t \in Async /\ fate[t] \in {"result", "nil"} BY <1>1, <1>10, <2>1 DEF Progress
  <2>3. fate'[t] = IF fate[t] = "result" THEN "orphan" ELSE "nil" BY <1>1, <1>10, <2>1, <2>2
  <2>4. Progress(t)' BY <1>3, <2>1, <2>2, <2>3 DEF Progress, Settled
  <2>5. CASE fate[t] = "result"
    <3>1. fate' = [fate EXCEPT ![t] = "orphan"] BY <2>1, <2>5
    <3>2. fate[t] \notin {"queued", "nil"} /\ pc[t] \notin {"return", "done"} BY <2>1, <2>5
    <3> QED BY <1>2, <1>10, <2>1, <2>4, <3>1, <3>2, FateOfOne
  <2>6. CASE fate[t] = "nil"
    <3>1. fate' = fate BY <1>1, <2>1, <2>6
    <3>2. pc[t] \notin {"return", "done"} BY <2>1
    <3> QED BY <2>1, <2>4, <3>1, <3>2, MoveOfOne
  <2> QED BY <2>2, <2>5, <2>6
<1>11. CASE t \in SubTurns /\ DeliverToSubTurn(t)
  <2>1. /\ pc[t] = "deliver" /\ fate' = fate /\ results' = results /\ Go(t, "send")
        /\ Parent[t] \notin Roots
    BY <1>11 DEF DeliverToSubTurn
  <2>2. Parent[t] \in SubTurns BY <1>11, <2>1, ParentType DEF SubTurns
  <2>3. t \in Async /\ fate'[t] \in {"result", "nil"} BY <1>1, <1>11, <2>1 DEF Progress
  <2>4. Progress(t)' BY <1>3, <2>1, <2>2, <2>3 DEF Progress
  <2>5. pc[t] \notin {"return", "done"} BY <2>1
  <2> QED BY <2>1, <2>4, <2>5, MoveOfOne
<1> QED BY <1>4, <1>5, <1>6, <1>7, <1>8, <1>9, <1>10, <1>11 DEF TurnEnds

LEMMA HandedStep == ASSUME IInv, Handed, [Next]_vars PROVE Handed'
<1>1. ASSUME UNCHANGED <<pc, results, fate>> PROVE Handed'
  <2>1. \A t \in SubTurns : Progress(t)' BY <1>1 DEF Handed, Progress, Settled
  <2> QED BY <1>1, <2>1, ChannelsKept DEF Handed
<1>2. CASE UNCHANGED vars BY <1>1, <1>2 DEF vars
<1>3. CASE \/ \E t \in Turns : HardAbort(t)
           \/ \E a \in Agents : WriterAsks(a) \/ WriterSteps(a)
  BY <1>1, <1>3 DEF HardAbort, WriterAsks, WriterSteps, WriterLocks, WriterUnlocks
<1>4. CASE \E t \in Turns : StartRoot(t) \/ RLock(t) \/ TurnEnds(t)
  BY <1>4, OneHands
<1>5. CASE \E t \in SubTurns : Spawn(t) \/ Poll(t) \/ SpawnSteps(t)
  BY <1>5, ParentType, OneHands, SpawnHands, PollHands, SendHands, ReturnHands DEF SpawnSteps
<1> QED BY <1>2, <1>3, <1>4, <1>5 DEF Next

\* What every SubTurn made is handed over once, whatever is aborted, refused or
\* panics meanwhile: the result of one that its parent waits for is returned; that
\* of another is in its parent's channel, in no other and not twice, until it is
\* read, or was lost to a root that has none (deliverSubTurnResult).
HandedOverOnce ==
  \A t \in SubTurns :
    /\ fate[t] = "queued" =>
         Parent[t] \in SubTurns /\ \E i \in DOMAIN results[Parent[t]] : results[Parent[t]][i] = t
    /\ \A p \in SubTurns : \A i, j \in DOMAIN results[p] :
         results[p][i] = t /\ results[p][j] = t =>
           i = j /\ p = Parent[t] /\ fate[t] \in {"queued", "nil"}
    /\ pc[t] = "done" =>
         fate[t] \in IF t \in Async THEN {"none", "nil", "orphan", "queued", "read"}
                                    ELSE {"none", "nil", "returned"}

\* Only a SubTurn has a channel.
Addressed == \A t \in SubTurns : fate[t] = "queued" => Parent[t] \in SubTurns

LEMMA AddressedStep == ASSUME Handed, Addressed, [Next]_vars PROVE Addressed'
<1>1. fate \in [SubTurns -> Fates] /\ \A t \in SubTurns : Progress(t) BY DEF Handed
<1>2. ASSUME NEW t \in SubTurns, fate'[t] = "queued" PROVE fate[t] = "queued" \/ Send(t)
  <2>1. CASE UNCHANGED vars BY <1>2, <2>1 DEF vars
  <2>2. CASE \E u \in Turns : StartRoot(u) \/ RLock(u) \/ TurnEnds(u) \/ HardAbort(u)
    BY <1>1, <1>2, <2>2
       DEF StartRoot, RLock, TurnEnds, HardAbort, EndRoot, EndSubTurn, PanicSubTurn
  <2>3. ASSUME NEW u \in SubTurns, Poll(u) PROVE fate[t] = "queued"
    <3>1. PICK h, f : fate' = [fate EXCEPT ![h] = f] /\ (f = "queued" => fate[h] = "queued")
      BY <2>3 DEF Poll
    <3> QED BY <1>1, <1>2, <3>1
  <2>4. ASSUME NEW u \in SubTurns, Spawn(u) \/ SpawnSteps(u) PROVE fate[t] = "queued" \/ Send(t)
    BY <1>1, <1>2, <2>4
       DEF Spawn, SpawnSteps, AcquireSlot, Refuse, Register, ReleaseSlot, Return, DeliverToRoot,
           DeliverToSubTurn, Send, Orphaned
  <2>5. CASE \E a \in Agents : WriterAsks(a) \/ WriterSteps(a)
    BY <1>2, <2>5 DEF WriterAsks, WriterSteps, WriterLocks, WriterUnlocks
  <2> QED BY <2>1, <2>2, <2>3, <2>4, <2>5 DEF Next
<1> QED BY <1>1, <1>2 DEF Addressed, Progress, Send

\* Between the early returns, panics, polls and deliveries of any tree of SubTurns no
\* result is lost inside deliverSubTurnResult, delivered twice or misdirected.
THEOREM HandedOverOnceHolds == Spec => []HandedOverOnce
<1>1. Handed /\ Addressed => HandedOverOnce
  <2> SUFFICES ASSUME Handed, Addressed, NEW t \in SubTurns
      PROVE /\ fate[t] = "queued" =>
                 Parent[t] \in SubTurns /\ \E i \in DOMAIN results[Parent[t]] : results[Parent[t]][i] = t
            /\ \A p \in SubTurns : \A i, j \in DOMAIN results[p] :
                 results[p][i] = t /\ results[p][j] = t =>
                   i = j /\ p = Parent[t] /\ fate[t] \in {"queued", "nil"}
            /\ pc[t] = "done" => fate[t] \in Settled(t)
    BY DEF HandedOverOnce, Settled
  <2>1. Progress(t) /\ \A p \in SubTurns : Channel(p) BY DEF Handed
  <2>2. \A p \in SubTurns : DOMAIN results[p] = 1..Len(results[p])
    BY <2>1, LenProperties DEF Channel
  <2>3. ASSUME fate[t] = "queued"
        PROVE  Parent[t] \in SubTurns /\ \E i \in DOMAIN results[Parent[t]] : results[Parent[t]][i] = t
    <3>1. Parent[t] \in SubTurns /\ t \in Children(Parent[t]) BY <2>3 DEF Addressed, Children
    <3> QED BY <2>1, <2>2, <2>3, <3>1 DEF Channel
  <2>4. ASSUME NEW p \in SubTurns, NEW i \in DOMAIN results[p], NEW j \in DOMAIN results[p],
               results[p][i] = t, results[p][j] = t
        PROVE  i = j /\ p = Parent[t] /\ fate[t] \in {"queued", "nil"}
    BY <2>1, <2>2, <2>4 DEF Channel
  <2>5. pc[t] = "done" => fate[t] \in Settled(t) BY <2>1 DEF Progress
  <2> QED BY <2>3, <2>4, <2>5
<1>2. Init => Handed /\ Addressed BY HandedInit DEF Init, Addressed
<1>3. IInv /\ Handed /\ Addressed /\ [Next]_vars => (Handed /\ Addressed)'
  BY HandedStep, AddressedStep
<1> QED BY <1>1, <1>2, <1>3, InvariantHolds, PTL DEF Spec

-----------------------------------------------------------------------------
\* The model mutex: its readers are the turns between the first and the last line
\* of runTurn, those that wait for a child among them, and none is there while a
\* writer is.
ModelMutex ==
  \A a \in Agents :
    /\ writer[a] = "holding" => readers[a] = {}
    /\ \A t \in Turns : t \in readers[a] <=> AgentOf[t] = a /\ pc[t] \in {"running", "calling"}

\* A step that moves no turn in or out of runTurn.
LEMMA MutexKept ==
  ASSUME ModelMutex, readers' = readers, writer' = writer,
         \A t \in Turns :
           pc'[t] \in {"running", "calling"} <=> pc[t] \in {"running", "calling"}
  PROVE  ModelMutex'
BY DEF ModelMutex

\* A turn that enters or leaves it.
LEMMA MutexMoves ==
  ASSUME IInv, Mutexes, ModelMutex, NEW t \in Turns, NEW place, Go(t, place), writer' = writer,
         \/ /\ place = "running" /\ pc[t] = "lock" /\ writer[AgentOf[t]] = "idle"
            /\ readers' = [readers EXCEPT ![AgentOf[t]] = @ \cup {t}]
         \/ place \notin {"running", "calling"} /\ Unlocked(t)
  PROVE  ModelMutex'
<1> SUFFICES ASSUME NEW a \in Agents
             PROVE  /\ writer'[a] = "holding" => readers'[a] = {}
                    /\ \A u \in Turns :
                         u \in readers'[a] <=> AgentOf[u] = a /\ pc'[u] \in {"running", "calling"}
  BY DEF ModelMutex
<1>1. pc'[t] = place /\ \A u \in Turns : u # t => pc'[u] = pc[u] BY DEF Go, IInv, Typed
<1>2. AgentOf[t] \in Agents BY SubTurnAssumption
<1>3. \A u \in Turns : u \in readers[a] <=> AgentOf[u] = a /\ pc[u] \in {"running", "calling"}
  BY DEF ModelMutex
<1>4. CASE place = "running" /\ readers' = [readers EXCEPT ![AgentOf[t]] = @ \cup {t}]
  <2>1. readers'[a] = IF a = AgentOf[t] THEN readers[a] \cup {t} ELSE readers[a]
    BY <1>2, <1>4 DEF Mutexes
  <2>2. a = AgentOf[t] => writer'[a] # "holding" BY <1>4
  <2> QED BY <1>1, <1>3, <1>4, <2>1, <2>2 DEF ModelMutex
<1>5. CASE place \notin {"running", "calling"} /\ Unlocked(t)
  <2>1. readers'[a] = IF a = AgentOf[t] THEN readers[a] \ {t} ELSE readers[a]
    BY <1>2, <1>5 DEF Mutexes, Unlocked
  <2> QED BY <1>1, <1>3, <1>5, <2>1 DEF ModelMutex
<1> QED BY <1>4, <1>5

LEMMA MutexStep == ASSUME IInv, Mutexes, ModelMutex, [Next]_vars PROVE ModelMutex'
<1>1. CASE UNCHANGED vars BY <1>1, MutexKept DEF vars
<1>2. ASSUME NEW t \in Turns, StartRoot(t) \/ HardAbort(t) PROVE ModelMutex'
  <2>1. /\ readers' = readers /\ writer' = writer
        /\ pc' = pc \/ (pc[t] = "none" /\ Go(t, "lock"))
    BY <1>2 DEF StartRoot, HardAbort
  <2> QED BY <2>1, MutexKept DEF Go, IInv, Typed
<1>3. ASSUME NEW t \in Turns, RLock(t) PROVE ModelMutex'
  <2>1. /\ pc[t] = "lock" /\ writer[AgentOf[t]] = "idle" /\ writer' = writer /\ Go(t, "running")
        /\ readers' = [readers EXCEPT ![AgentOf[t]] = @ \cup {t}]
    BY <1>3 DEF RLock
  <2> QED BY <2>1, MutexMoves
<1>4. ASSUME NEW t \in Turns, TurnEnds(t) PROVE ModelMutex'
  <2>1. PICK place \in {"done", "release", "deliver", "return"} :
          Go(t, place) /\ Unlocked(t) /\ writer' = writer
    BY <1>4 DEF TurnEnds, EndRoot, EndSubTurn, PanicSubTurn
  <2> QED BY <2>1, MutexMoves
<1>5. ASSUME NEW t \in SubTurns, Spawn(t) PROVE ModelMutex'
  <2>1. t \in Turns /\ Parent[t] \in Turns /\ Parent[t] # t BY <1>5, ParentType DEF Spawn
  <2>2. /\ pc[t] = "none" /\ pc'[t] \in {"check", "acquire"}
        /\ pc[Parent[t]] = "running" /\ pc'[Parent[t]] \in {"running", "calling"}
        /\ \A u \in Turns \ {t, Parent[t]} : pc'[u] = pc[u]
        /\ readers' = readers /\ writer' = writer
    BY <1>5, <2>1 DEF Spawn, IInv, Typed
  <2> QED BY <2>2, MutexKept
<1>6. ASSUME NEW t \in SubTurns, Return(t) PROVE ModelMutex'
  <2> DEFINE p == Parent[t]
  <2>1. p \in Turns /\ t \in Turns /\ pc[t] = "return"
    BY <1>6, ParentType DEF Return
  <2>2. t \notin Async => pc[p] = "calling" /\ p # t
    BY <2>1 DEF IInv, Waits, Pending
  <2>3. /\ pc'[t] = "done"
        /\ t \notin Async => pc'[p] = "running"
        /\ \A u \in Turns : u # t /\ (u = p => t \in Async) => pc'[u] = pc[u]
    BY <1>6, <2>1, <2>2 DEF Return, IInv, Typed
  <2>4. readers' = readers /\ writer' = writer BY <1>6 DEF Return
  <2> QED BY <2>1, <2>2, <2>3, <2>4, MutexKept
<1>7. ASSUME NEW t \in SubTurns,
             \/ Poll(t) \/ AcquireSlot(t) \/ Refuse(t) \/ Register(t) \/ ReleaseSlot(t)
             \/ DeliverToRoot(t) \/ DeliverToSubTurn(t) \/ Send(t)
      PROVE  ModelMutex'
  <2>1. /\ readers' = readers /\ writer' = writer
        /\ \/ pc' = pc
           \/ /\ pc[t] \in {"acquire", "check", "release", "deliver", "send"}
              /\ \E place \in {"check", "return", "lock", "deliver", "send"} : Go(t, place)
    BY <1>7 DEF Poll, AcquireSlot, Refuse, Register, ReleaseSlot, DeliverToRoot, DeliverToSubTurn, Send
  <2> QED BY <2>1, ParentType, MutexKept DEF Go, IInv, Typed
<1>8. ASSUME NEW a \in Agents, WriterAsks(a) \/ WriterSteps(a) PROVE ModelMutex'
  <2>1. /\ pc' = pc /\ readers' = readers
        /\ \A b \in Agents : writer'[b] = "holding" => writer[b] = "holding" \/ readers[b] = {}
    BY <1>8 DEF WriterAsks, WriterSteps, WriterLocks, WriterUnlocks, Mutexes
  <2> QED BY <2>1 DEF ModelMutex
<1> QED
  BY <1>1, <1>2, <1>3, <1>4, <1>5, <1>6, <1>7, <1>8 DEF Next, SpawnSteps

\* A turn neither keeps the mutex when it ends, be it by a panic, nor runs without
\* it, and a model changes under no turn (runTurn; SwitchModel and Close).
THEOREM ModelMutexHolds == Spec => []ModelMutex
<1>1. Init => ModelMutex
  BY DEF Init, ModelMutex
<1>2. IInv /\ Mutexes /\ ModelMutex /\ [Next]_vars => ModelMutex' BY MutexStep
<1> QED BY <1>1, <1>2, InvariantHolds, MutexesInit, MutexesStep, PTL DEF Spec

-----------------------------------------------------------------------------
Rest ==
  /\ linked \in [Turns -> SUBSET SubTurns] /\ aborted \subseteq Roots /\ switched \in 0..Switches

LEMMA RestStep == ASSUME Rest, [Next]_vars PROVE Rest'
<1>1. CASE UNCHANGED vars BY <1>1 DEF vars, Rest
<1>2. ASSUME NEW t \in Turns, StartRoot(t) \/ RLock(t) \/ TurnEnds(t) \/ HardAbort(t) PROVE Rest'
  BY <1>2 DEF Rest, StartRoot, RLock, TurnEnds, EndRoot, EndSubTurn, PanicSubTurn, HardAbort
<1>3. ASSUME NEW t \in SubTurns, Spawn(t) \/ Poll(t) \/ SpawnSteps(t) PROVE Rest'
  <2>1. CASE Register(t) BY <2>1, ParentType DEF Rest, Register
  <2>2. CASE ~ Register(t)
    BY <1>3, <2>2 DEF Rest, Spawn, Poll, SpawnSteps, AcquireSlot, Refuse, ReleaseSlot, Return,
                      DeliverToRoot, DeliverToSubTurn, Send
  <2> QED BY <2>1, <2>2
<1>4. ASSUME NEW a \in Agents, WriterAsks(a) \/ WriterSteps(a) PROVE Rest'
  BY <1>4, SubTurnAssumption DEF Rest, WriterAsks, WriterSteps, WriterLocks, WriterUnlocks
<1> QED BY <1>1, <1>2, <1>3, <1>4 DEF Next

\* Types: no channel and no semaphore is over its capacity (spawnSubTurn).
THEOREM SubTurnTypes == Spec => []TypeOK
<1>1. IInv /\ Handed /\ Mutexes /\ Rest => TypeOK
  <2> SUFFICES ASSUME IInv, Handed, Mutexes, Rest PROVE TypeOK OBVIOUS
  <2>1. sem \in [SubTurns -> 0..MaxConcurrent]
    <3>1. ASSUME NEW p \in SubTurns PROVE sem[p] \in 0..MaxConcurrent
      <4>1. Cardinality(Holders(p)) \in Nat BY HoldersFinite, FS_CardinalityType DEF IInv
      <4>2. sem[p] = Cardinality(Holders(p)) /\ sem[p] <= MaxConcurrent BY DEF IInv, Counted
      <4> QED BY <4>1, <4>2, SubTurnAssumption
    <3> QED BY <3>1 DEF IInv, Typed
  <2>2. /\ results \in [SubTurns -> Seq(SubTurns)]
        /\ \A t \in SubTurns : Len(results[t]) <= Capacity
    BY DEF Handed, Channel
  <2> QED BY <2>1, <2>2 DEF TypeOK, IInv, Typed, Handed, Fates, Mutexes, Rest
<1>2. Init => Rest BY SubTurnAssumption DEF Init, Rest
<1>3. Rest /\ [Next]_vars => Rest' BY RestStep
<1>4. IInv /\ Handed /\ [Next]_vars => Handed' BY HandedStep
<1> QED BY <1>1, <1>2, <1>3, <1>4, HandedInit, InvariantHolds, MutexesInit, MutexesStep, PTL DEF Spec

\* A SubTurn that has a token finds one when it gives it back: the receive on the
\* parent's semaphore, in the release or in the deferred function, never blocks
\* (semAcquired of spawnSubTurn).
THEOREM ReleaseNeverBlocks == Spec => [](\A t \in slot : sem[Parent[t]] > 0)
<1>1. IInv => \A t \in slot : sem[Parent[t]] > 0
  <2> SUFFICES ASSUME IInv, NEW t \in slot PROVE sem[Parent[t]] > 0 OBVIOUS
  <2>1. t \in SubTurns /\ Parent[t] \in SubTurns BY DEF IInv, Typed, Slotted
  <2> DEFINE p == Parent[t]
  <2>2. t \in Holders(p) BY <2>1 DEF Holders, Children
  <2>3. IsFiniteSet(Holders(p)) BY <2>1, HoldersFinite DEF IInv
  <2>4. Cardinality(Holders(p)) \in Nat /\ Cardinality(Holders(p)) # 0
    BY <2>2, <2>3, FS_CardinalityType, FS_EmptySet
  <2>5. sem[p] = Cardinality(Holders(p)) BY <2>1 DEF IInv, Counted
  <2> QED BY <2>4, <2>5
<1> QED BY <1>1, InvariantHolds, PTL
=============================================================================
