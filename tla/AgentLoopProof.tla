--------------------------- MODULE AgentLoopProof ----------------------------
(***************************************************************************)
(* The claim on a session, for any messages, sessions, slots and queues:   *)
(* the protocol of LoadOrStore, register and clear keeps one turn per      *)
(* session, hands a claim on to nobody but its owner, and leaves none      *)
(* behind as long as no worker panics.                                     *)
(*                                                                         *)
(* What makes it go through is to say where a worker must own the entry of *)
(* its session (Owns), and where the owner of an entry may be (Entries).   *)
(* Messages of the receive loop itself have a session that no routed       *)
(* message has, and there is one of them at a time (Systems).              *)
(*                                                                         *)
(* And the slots of workerSem: they are those of the workers at work.      *)
(***************************************************************************)
EXTENDS AgentLoop, FiniteSetTheorems, SequenceTheorems, TLAPS

TurnPc == {"turn", "clear", "clearDelete", "turn2", "clear2", "clearDelete2"}
OwnerPc == {"spawned", "started", "bail", "process", "stopLookup", "stopAbort",
            "dequeue", "resume"} \cup TurnPc
SystemPc == {"process", "turn", "clear", "clearDelete"}
FinalPc == {"inbound", "steered", "done"}

\* An unwinding worker at the safety net has seen its own placeholder.
Holds(m) == pc[m] \in OwnerPc \/ (m \in panicked /\ pc[m] = "netDelete")

Mine(m) == active[SessionOf[m]] # None /\ active[SessionOf[m]].by = m

Typed ==
  /\ active \in [Sessions -> Entry \cup {None}]
  /\ pc \in [Messages -> WorkerPc \cup FinalPc]
  /\ main \in [at : MainAt, msg : Messages \cup {None}, cleared : BOOLEAN]
  /\ panicked \subseteq Panics
  /\ robbed \subseteq Sessions

\* A message of the receive loop is the one in its hands, until it is done.
Systems ==
  \A m \in Messages :
    KindOf[m] = "system" =>
      /\ m \notin panicked
      /\ pc[m] \in SystemPc \cup {"inbound", "done"}
      /\ pc[m] \in SystemPc => main.at = "system" /\ main.msg = m

\* A worker that holds the claim on its session finds its own entry, unless
\* a stranger has deleted it.
Owns ==
  \A m \in Messages :
    KindOf[m] # "system" /\ SessionOf[m] \notin robbed /\ Holds(m) => Mine(m)

\* Where the owner of an entry is.
Placed(e, s, place) ==
  /\ SessionOf[e.by] = s
  /\ e.kind = "turn" => place[e.by] \in TurnPc
  /\ e.kind # "turn" => KindOf[e.by] # "system"
  /\ Panics = {} => place[e.by] \notin FinalPc

Entries == \A s \in Sessions : active[s] # None => Placed(active[s], s, pc)

IInv == Typed /\ Systems /\ Owns /\ Entries

-----------------------------------------------------------------------------
\* Nothing is claimed and nothing under way at the start.
LEMMA IInvInit == Init => IInv
<1> SUFFICES ASSUME Init PROVE IInv OBVIOUS
<1>1. Typed
  BY DEF Init, Typed, Idle, MainAt, FinalPc
<1>2. Systems /\ Owns /\ Entries
  BY AgentLoopAssumption
  DEF Init, Systems, Owns, Entries, Holds, OwnerPc, TurnPc, SystemPc
<1> QED BY <1>1, <1>2 DEF IInv

\* The owner of an entry of m's session is m, or belongs to another message.
LEMMA EntryType ==
  ASSUME Typed, NEW s \in Sessions, active[s] # None
  PROVE active[s] \in Entry /\ active[s].by \in Messages
BY DEF Typed, Entry

-----------------------------------------------------------------------------
\* A step of m that leaves the map alone.
LEMMA MoveKeeps ==
  ASSUME IInv, NEW m \in Messages, NEW to, pc' = [pc EXCEPT ![m] = to],
         UNCHANGED <<active, robbed>>,
         \A n \in Messages \ {m} : n \in panicked' <=> n \in panicked,
         KindOf[m] # "system" /\ SessionOf[m] \notin robbed /\ Holds(m)' => Mine(m),
         Mine(m) => /\ active[SessionOf[m]].kind = "turn" => to \in TurnPc
                    /\ Panics = {} => to \notin FinalPc
  PROVE Owns' /\ Entries'
<1> USE AgentLoopAssumption
<1>1. pc'[m] = to /\ \A n \in Messages \ {m} : pc'[n] = pc[n]
  BY DEF IInv, Typed
<1>2. Owns'
  <2> SUFFICES ASSUME NEW n \in Messages, KindOf[n] # "system", SessionOf[n] \notin robbed',
                      Holds(n)'
               PROVE Mine(n)'
    BY DEF Owns
  <2>1. CASE n = m
    BY <2>1 DEF Mine
  <2>2. CASE n # m
    <3>1. Holds(n) BY <1>1, <2>2 DEF Holds
    <3> QED BY <3>1 DEF IInv, Owns, Mine
  <2> QED BY <2>1, <2>2
<1>3. Entries'
  <2> SUFFICES ASSUME NEW s \in Sessions, active[s] # None PROVE Placed(active[s], s, pc')
    BY DEF Entries
  <2>1. Placed(active[s], s, pc) /\ active[s].by \in Messages
    BY EntryType DEF IInv, Entries
  <2>2. CASE active[s].by = m
    <3>1. Mine(m) /\ s = SessionOf[m] BY <2>1, <2>2 DEF Mine, Placed
    <3> QED BY <1>1, <2>1, <2>2, <3>1 DEF Placed
  <2>3. CASE active[s].by # m
    BY <1>1, <2>1, <2>3 DEF Placed
  <2> QED BY <2>2, <2>3
<1> QED BY <1>2, <1>3

\* A step of m that deletes the entry of its session, whoever made it.
LEMMA DeleteKeeps ==
  ASSUME IInv, NEW m \in Messages, NEW to, pc' = [pc EXCEPT ![m] = to],
         Delete(SessionOf[m], m), UNCHANGED panicked,
         to \notin OwnerPc \cup {"netDelete"}
  PROVE Owns' /\ Entries'
<1> USE AgentLoopAssumption
<1>1. pc'[m] = to /\ \A n \in Messages \ {m} : pc'[n] = pc[n]
  BY DEF IInv, Typed
<1>2. /\ active'[SessionOf[m]] = None
      /\ \A s \in Sessions \ {SessionOf[m]} : active'[s] = active[s]
  <2>1. active' = [active EXCEPT ![SessionOf[m]] = None] BY DEF Delete, Store
  <2>2. active \in [Sessions -> Entry \cup {None}] BY DEF IInv, Typed
  <2> QED BY <2>1, <2>2
<1>3. robbed \subseteq robbed'
      /\ (active[SessionOf[m]] # None /\ active[SessionOf[m]].by # m
            => SessionOf[m] \in robbed')
  BY DEF Delete
<1>4. Owns'
  <2> SUFFICES ASSUME NEW n \in Messages, KindOf[n] # "system", SessionOf[n] \notin robbed',
                      Holds(n)'
               PROVE Mine(n)'
    BY DEF Owns
  <2>1. n # m BY <1>1 DEF Holds
  <2>2. Mine(n) BY <1>1, <1>3, <2>1 DEF IInv, Owns, Holds
  <2>3. SessionOf[n] # SessionOf[m] BY <1>3, <2>1, <2>2 DEF Mine
  <2> QED BY <1>2, <2>2, <2>3 DEF Mine
<1>5. Entries'
  <2> SUFFICES ASSUME NEW s \in Sessions, active'[s] # None PROVE Placed(active'[s], s, pc')
    BY DEF Entries
  <2>1. s # SessionOf[m] /\ active'[s] = active[s] BY <1>2
  <2>2. Placed(active[s], s, pc) /\ active[s].by \in Messages
    BY <2>1, EntryType DEF IInv, Entries
  <2>3. active[s].by # m BY <2>1, <2>2 DEF Placed
  <2> QED BY <1>1, <2>1, <2>2, <2>3 DEF Placed
<1> QED BY <1>4, <1>5

\* LoadOrStore that finds nothing: the worker of m has claimed its session.
LEMMA ClaimKeeps ==
  ASSUME IInv, NEW m \in Messages, NEW kind \in {"pending", "continue"}, NEW to,
         pc' = [pc EXCEPT ![m] = to], UNCHANGED <<panicked, robbed>>,
         active[SessionOf[m]] = None, Store(SessionOf[m], [kind |-> kind, by |-> m]),
         KindOf[m] # "system", to \notin FinalPc
  PROVE Owns' /\ Entries'
<1> USE AgentLoopAssumption
<1>1. pc'[m] = to /\ \A n \in Messages \ {m} : pc'[n] = pc[n]
  BY DEF IInv, Typed
<1> DEFINE e == [kind |-> kind, by |-> m]
<1>2. e \in Entry /\ e # None /\ e.by = m /\ e.kind # "turn"
  BY DEF Entry
<1>25. active' = [active EXCEPT ![SessionOf[m]] = e]
  BY DEF Store
<1> HIDE DEF e
<1>3. /\ active'[SessionOf[m]] = e
      /\ \A s \in Sessions \ {SessionOf[m]} : active'[s] = active[s]
  <2>1. SessionOf[m] \in Sessions BY AgentLoopAssumption
  <2>2. active \in [Sessions -> Entry \cup {None}] BY DEF IInv, Typed
  <2> QED BY <1>25, <2>1, <2>2
<1>4. Owns'
  <2> SUFFICES ASSUME NEW n \in Messages, KindOf[n] # "system", SessionOf[n] \notin robbed,
                      Holds(n)'
               PROVE Mine(n)'
    BY DEF Owns
  <2>1. CASE n = m BY <1>2, <1>3, <2>1 DEF Mine
  <2>2. CASE n # m
    <3>1. Mine(n) BY <1>1, <2>2 DEF IInv, Owns, Holds
    <3> QED BY <1>3, <3>1 DEF Mine
  <2> QED BY <2>1, <2>2
<1>5. Entries'
  <2> SUFFICES ASSUME NEW s \in Sessions, active'[s] # None PROVE Placed(active'[s], s, pc')
    BY DEF Entries
  <2>1. CASE s = SessionOf[m] BY <1>1, <1>2, <1>3, <2>1 DEF Placed
  <2>2. CASE s # SessionOf[m]
    <3>1. Placed(active[s], s, pc) /\ active[s].by \in Messages /\ active'[s] = active[s]
      BY <1>3, <2>2, EntryType DEF IInv, Entries
    <3>2. active[s].by # m BY <2>2, <3>1 DEF Placed
    <3> QED BY <1>1, <3>1, <3>2 DEF Placed
  <2> QED BY <2>1, <2>2
<1> QED BY <1>4, <1>5

\* registerActiveTurn stores without looking; the claim was the worker's own.
LEMMA RegisterKeeps ==
  ASSUME IInv, NEW m \in Messages, NEW to \in TurnPc, pc' = [pc EXCEPT ![m] = to],
         UNCHANGED <<panicked, robbed>>, pc[m] \in {"process", "resume"},
         Store(SessionOf[m], [kind |-> "turn", by |-> m])
  PROVE Owns' /\ Entries'
<1> USE AgentLoopAssumption
<1>1. pc'[m] = to /\ \A n \in Messages \ {m} : pc'[n] = pc[n]
  BY DEF IInv, Typed
<1> DEFINE e == [kind |-> "turn", by |-> m]
<1>2. e \in Entry /\ e # None /\ e.by = m /\ e.kind = "turn"
  BY DEF Entry
<1>25. active' = [active EXCEPT ![SessionOf[m]] = e]
  BY DEF Store
<1> HIDE DEF e
<1>3. /\ active'[SessionOf[m]] = e
      /\ \A s \in Sessions \ {SessionOf[m]} : active'[s] = active[s]
  <2>1. SessionOf[m] \in Sessions BY AgentLoopAssumption
  <2>2. active \in [Sessions -> Entry \cup {None}] BY DEF IInv, Typed
  <2> QED BY <1>25, <2>1, <2>2
<1>4. Owns'
  <2> SUFFICES ASSUME NEW n \in Messages, KindOf[n] # "system", SessionOf[n] \notin robbed,
                      Holds(n)'
               PROVE Mine(n)'
    BY DEF Owns
  <2>1. CASE n = m BY <1>2, <1>3, <2>1 DEF Mine
  <2>2. CASE n # m
    <3>1. Mine(n) BY <1>1, <2>2 DEF IInv, Owns, Holds
    <3>2. SessionOf[n] # SessionOf[m]
      <4>1. CASE KindOf[m] = "system" BY <4>1
      <4>2. CASE KindOf[m] # "system" /\ SessionOf[m] = SessionOf[n]
        <5>1. Mine(m) BY <4>2 DEF IInv, Owns, Holds, OwnerPc
        <5> QED BY <2>2, <3>1, <4>2, <5>1 DEF Mine
      <4> QED BY <4>1, <4>2
    <3> QED BY <1>3, <3>1, <3>2 DEF Mine
  <2> QED BY <2>1, <2>2
<1>5. Entries'
  <2> SUFFICES ASSUME NEW s \in Sessions, active'[s] # None PROVE Placed(active'[s], s, pc')
    BY DEF Entries
  <2>1. CASE s = SessionOf[m] BY <1>1, <1>2, <1>3, <2>1 DEF Placed, TurnPc, FinalPc
  <2>2. CASE s # SessionOf[m]
    <3>1. Placed(active[s], s, pc) /\ active[s].by \in Messages /\ active'[s] = active[s]
      BY <1>3, <2>2, EntryType DEF IInv, Entries
    <3>2. active[s].by # m BY <2>2, <3>1 DEF Placed
    <3> QED BY <1>1, <3>1, <3>2 DEF Placed
  <2> QED BY <2>1, <2>2
<1> QED BY <1>4, <1>5

-----------------------------------------------------------------------------
\* Where a step may lead.
LEMMA MainType ==
  ASSUME Typed, Receive \/ Main \/ Shutdown PROVE Typed'
<1> USE AgentLoopAssumption DEF Typed, MainAt, WorkerPc, FinalPc, Idle, Entry, mapVars, turnVars
<1>1. CASE Receive
  <2>1. CASE \E m \in Messages : ReceiveClaim(m)
    BY <2>1 DEF ReceiveClaim, Step, GoTo, Store
  <2>2. CASE \E m \in Messages : ReceiveLoaded(m)
    BY <2>2 DEF ReceiveLoaded, Step, GoTo
  <2>3. CASE \E m \in Messages : ReceiveSystem(m)
    BY <2>3 DEF ReceiveSystem, Step, GoTo
  <2> QED BY <1>1, <2>1, <2>2, <2>3 DEF Receive
<1>2. CASE Main
  <2> DEFINE Places == [at : MainAt, msg : Messages \cup {None}, cleared : BOOLEAN]
  <2>1. /\ UNCHANGED <<active, pc, panicked, robbed>>
        /\ \/ main' = Idle
           \/ \E at \in MainAt, cleared \in BOOLEAN :
                main' = [main EXCEPT !.at = at, !.cleared = cleared]
           \/ \E at \in MainAt : main' = [main EXCEPT !.at = at]
    <3>1. CASE Enqueue \/ StopMark \/ MainExit BY <3>1 DEF Enqueue, StopMark, MainExit
    <3>2. CASE StopClear BY <3>2 DEF StopClear
    <3>3. CASE StopLookup
      <4>1. PICK at \in {"stopArm", "stopAbort"} :
              main' = Idle \/ main' = [main EXCEPT !.at = at]
        BY <3>3 DEF StopLookup
      <4> QED BY <3>3, <4>1 DEF StopLookup
    <3>4. CASE StopAbort BY <3>4 DEF StopAbort
    <3>5. CASE StopArm BY <3>5 DEF StopArm
    <3> QED BY <1>2, <3>1, <3>2, <3>3, <3>4, <3>5 DEF Main
  <2>2. Idle \in Places OBVIOUS
  <2>3. main \in Places OBVIOUS
  <2>4. main' \in Places
    <3>1. CASE main' = Idle BY <2>2, <3>1
    <3>2. ASSUME NEW at \in MainAt, main' = [main EXCEPT !.at = at] PROVE main' \in Places
      BY <2>3, <3>2
    <3>3. ASSUME NEW at \in MainAt, NEW cleared \in BOOLEAN,
                 main' = [main EXCEPT !.at = at, !.cleared = cleared]
          PROVE  main' \in Places
      BY <2>3, <3>3
    <3> QED BY <2>1, <3>1, <3>2, <3>3
  <2> QED BY <2>1, <2>4
<1>3. CASE Shutdown
  BY <1>3 DEF Shutdown
<1> QED BY <1>1, <1>2, <1>3

\* A step of a worker that goes on to a place of its own.
LEMMA PlaceType ==
  ASSUME Typed, NEW m \in Messages, NEW to \in WorkerPc \cup FinalPc,
         GoTo(m, to), panicked' \subseteq Panics,
         \/ UNCHANGED <<active, robbed>>
         \/ Delete(SessionOf[m], m)
         \/ UNCHANGED robbed /\ \E kind \in {"pending", "continue", "turn"} :
                                  Store(SessionOf[m], [kind |-> kind, by |-> m]),
         main' = main \/ main' = Idle
  PROVE Typed'
<1> USE AgentLoopAssumption
<1>1. pc' \in [Messages -> WorkerPc \cup FinalPc]
  BY DEF Typed, GoTo
<1>2. main' \in [at : MainAt, msg : Messages \cup {None}, cleared : BOOLEAN]
  <2>1. Idle \in [at : MainAt, msg : Messages \cup {None}, cleared : BOOLEAN]
    BY DEF Idle, MainAt
  <2> QED BY <2>1 DEF Typed
<1>3. active' \in [Sessions -> Entry \cup {None}] /\ robbed' \subseteq Sessions
  <2>1. CASE UNCHANGED <<active, robbed>>
    BY <2>1 DEF Typed
  <2>2. CASE Delete(SessionOf[m], m)
    BY <2>2 DEF Typed, Delete, Store
  <2>3. CASE UNCHANGED robbed /\ \E kind \in {"pending", "continue", "turn"} :
                                  Store(SessionOf[m], [kind |-> kind, by |-> m])
    BY <2>3 DEF Typed, Store, Entry
  <2> QED BY <2>1, <2>2, <2>3
<1> QED BY <1>1, <1>2, <1>3 DEF Typed

\* Systems, over a step of anybody but a message of the receive loop.
LEMMA SystemsStay ==
  ASSUME IInv, NEW m \in Messages, KindOf[m] # "system", NEW to, pc' = [pc EXCEPT ![m] = to],
         panicked' \subseteq panicked \cup {m},
         main' = main \/ main.at # "system"
  PROVE Systems'
BY DEF IInv, Systems, Typed

\* ... and over a step of one.
LEMMA SystemsGo ==
  ASSUME IInv, NEW m \in Messages, KindOf[m] = "system", pc[m] \in SystemPc,
         NEW to \in SystemPc \cup {"done"}, pc' = [pc EXCEPT ![m] = to],
         UNCHANGED panicked, main' = main \/ to = "done"
  PROVE Systems'
<1> SUFFICES ASSUME NEW n \in Messages, KindOf[n] = "system"
             PROVE /\ n \notin panicked'
                   /\ pc'[n] \in SystemPc \cup {"inbound", "done"}
                   /\ pc'[n] \in SystemPc => main'.at = "system" /\ main'.msg = n
  BY DEF Systems
<1>1. main.at = "system" /\ main.msg = m BY DEF IInv, Systems
<1>2. CASE n = m BY <1>1, <1>2 DEF IInv, Systems, Typed, SystemPc
<1>3. CASE n # m
  <2>1. pc'[n] = pc[n] /\ pc[n] \notin SystemPc BY <1>1, <1>3 DEF IInv, Systems, Typed
  <2> QED BY <2>1 DEF IInv, Systems
<1> QED BY <1>2, <1>3

-----------------------------------------------------------------------------
\* The receive loop takes a message; nobody owns anything by one that is inbound,
\* or will not for long.
LEMMA ReceiveKeeps == ASSUME IInv, Receive PROVE IInv'
<1>0. Typed' BY MainType DEF IInv
<1> PICK m \in Messages : ReceiveClaim(m) \/ ReceiveLoaded(m) \/ ReceiveSystem(m)
  BY DEF Receive
<1> USE DEF GoTo, Step, turnVars, mapVars
<1>1. CASE ReceiveClaim(m)
  <2>1. Owns' /\ Entries'
    BY <1>1, ClaimKeeps DEF ReceiveClaim, FinalPc
  <2>2. Systems'
    BY <1>1, SystemsStay DEF ReceiveClaim
  <2> QED BY <1>0, <2>1, <2>2 DEF IInv
<1>2. CASE ReceiveLoaded(m)
  <2>1. /\ KindOf[m] # "system" /\ main.at = "select" /\ pc[m] = "inbound"
        /\ pc' = [pc EXCEPT ![m] = "steered"] /\ UNCHANGED <<active, robbed, panicked>>
    BY <1>2 DEF ReceiveLoaded
  <2>2. Mine(m) => active[SessionOf[m]].kind # "turn" /\ Panics # {}
    BY <2>1, AgentLoopAssumption DEF IInv, Entries, Placed, Mine, TurnPc, FinalPc
  <2>3. ~ Holds(m)'
    BY <2>1 DEF Holds, OwnerPc, TurnPc, IInv, Typed
  <2>4. Owns' /\ Entries'
    BY <2>1, <2>2, <2>3, MoveKeeps
  <2>5. Systems'
    BY <2>1, SystemsStay
  <2> QED BY <1>0, <2>4, <2>5 DEF IInv
<1>3. CASE ReceiveSystem(m)
  <2>1. /\ KindOf[m] = "system" /\ main.at = "select" /\ pc[m] = "inbound"
        /\ pc' = [pc EXCEPT ![m] = "process"] /\ UNCHANGED <<active, robbed, panicked>>
        /\ main'.at = "system" /\ main'.msg = m
    BY <1>3 DEF ReceiveSystem
  <2>2. Mine(m) => active[SessionOf[m]].kind # "turn"
    BY <2>1, AgentLoopAssumption DEF IInv, Entries, Placed, Mine, TurnPc
  <2>3. Owns' /\ Entries'
    BY <2>1, <2>2, MoveKeeps DEF FinalPc
  <2>4. Systems'
    BY <2>1 DEF IInv, Systems, SystemPc, Typed
  <2> QED BY <1>0, <2>3, <2>4 DEF IInv
<1> QED BY <1>1, <1>2, <1>3

\* What the receive loop does about a message that found its session claimed.
LEMMA MainKeeps == ASSUME IInv, Main \/ Shutdown PROVE IInv'
<1>0. Typed' BY MainType DEF IInv
<1>1. UNCHANGED <<active, robbed, panicked, pc>>
  BY DEF Main, Enqueue, StopClear, StopLookup, StopAbort, StopArm, StopMark, MainExit, Shutdown,
         mapVars, turnVars
<1>2. main' = main \/ main.at # "system"
  BY DEF Main, Enqueue, StopClear, StopLookup, StopAbort, StopArm, StopMark, MainExit, Shutdown
<1>3. Systems' BY <1>1, <1>2 DEF IInv, Systems
<1>4. Owns' BY <1>1 DEF IInv, Owns, Holds, Mine
<1>5. Entries' BY <1>1 DEF IInv, Entries
<1> QED BY <1>0, <1>3, <1>4, <1>5 DEF IInv

\* A worker waits for a slot, gives up, bails out or starts.
LEMMA AdmissionKeeps == ASSUME IInv, NEW m \in Messages, Admission(m) PROVE IInv'
<1> USE AgentLoopAssumption DEF GoTo, Step, turnVars, mapVars
<1>1. KindOf[m] # "system"
  BY DEF IInv, Systems, SystemPc, Admission, AcquireSlot, GiveUpWaiting, BailOut, BailRelease,
         StartProcessing
<1>2. CASE AcquireSlot(m) \/ BailOut(m) \/ StartProcessing(m)
  <2>1. PICK to \in {"started", "bail", "process"} :
          /\ pc' = [pc EXCEPT ![m] = to] /\ pc[m] \in {"spawned", "started"}
          /\ UNCHANGED <<active, robbed, panicked, main>>
    BY <1>2 DEF AcquireSlot, BailOut, StartProcessing
  <2>2. Mine(m) => active[SessionOf[m]].kind # "turn"
    BY <2>1 DEF IInv, Entries, Placed, Mine, TurnPc
  <2>3. SessionOf[m] \notin robbed => Mine(m)
    BY <1>1, <2>1 DEF IInv, Owns, Holds, OwnerPc
  <2>4. Owns' /\ Entries'
    BY <2>1, <2>2, <2>3, MoveKeeps DEF FinalPc
  <2>5. Systems' BY <1>1, <2>1, SystemsStay
  <2>6. Typed' BY <2>1, PlaceType DEF IInv, WorkerPc, Typed
  <2> QED BY <2>4, <2>5, <2>6 DEF IInv
<1>3. CASE GiveUpWaiting(m) \/ BailRelease(m)
  <2>1. PICK to \in {"done", "drain"} :
          /\ pc' = [pc EXCEPT ![m] = to] /\ Delete(SessionOf[m], m)
          /\ UNCHANGED <<panicked, main>>
    BY <1>3 DEF GiveUpWaiting, BailRelease
  <2>2. Owns' /\ Entries' BY <2>1, DeleteKeeps DEF OwnerPc, TurnPc
  <2>3. Systems' BY <1>1, <2>1, SystemsStay
  <2>4. Typed' BY <2>1, PlaceType DEF IInv, WorkerPc, FinalPc, Typed
  <2> QED BY <2>2, <2>3, <2>4 DEF IInv
<1> QED BY <1>2, <1>3 DEF Admission

-----------------------------------------------------------------------------
\* What goes for the receive loop's goroutine and for a worker: the places a
\* system message passes through, and who changes `main`.
Lane(m, to) ==
  /\ KindOf[m] = "system" => /\ pc[m] \in SystemPc /\ to \in SystemPc \cup {"done"}
                             /\ main' = main \/ (to = "done" /\ main' = Idle)
  /\ KindOf[m] # "system" => main' = main

LEMMA LaneKeeps ==
  ASSUME IInv, NEW m \in Messages, NEW to, pc' = [pc EXCEPT ![m] = to], Lane(m, to),
         UNCHANGED panicked
  PROVE Systems'
<1>1. CASE KindOf[m] = "system" BY <1>1, SystemsGo DEF Lane
<1>2. CASE KindOf[m] # "system" BY <1>2, SystemsStay DEF Lane
<1> QED BY <1>1, <1>2

\* A worker goes on and leaves the map alone: it takes no claim on the way, and
\* leaves its turn only when the map has another entry.
LEMMA MoveStep ==
  ASSUME IInv, NEW m \in Messages, NEW to \in WorkerPc \cup {"done"}, GoTo(m, to), Lane(m, to),
         UNCHANGED <<active, robbed, panicked>>,
         to \in OwnerPc => pc[m] \in OwnerPc, to # "netDelete",
         pc[m] \in TurnPc /\ to \notin TurnPc => active[SessionOf[m]] # [kind |-> "turn", by |-> m],
         to = "done" => KindOf[m] = "system"
  PROVE IInv'
<1> USE AgentLoopAssumption
<1>1. pc' = [pc EXCEPT ![m] = to] /\ pc'[m] = to BY DEF GoTo, IInv, Typed
<1>2. Mine(m) /\ active[SessionOf[m]].kind = "turn" => to \in TurnPc
  <2> SUFFICES ASSUME Mine(m), active[SessionOf[m]].kind = "turn" PROVE to \in TurnPc OBVIOUS
  <2>1. active[SessionOf[m]] \in Entry /\ active[SessionOf[m]].by = m
    BY EntryType DEF IInv, Mine
  <2>2. active[SessionOf[m]] = [kind |-> "turn", by |-> m] BY <2>1 DEF Entry
  <2>3. pc[m] \in TurnPc BY <2>1 DEF IInv, Entries, Placed, Mine
  <2> QED BY <2>2, <2>3
<1>3. Mine(m) => to \notin FinalPc
  <2> SUFFICES ASSUME Mine(m), to \in FinalPc PROVE FALSE OBVIOUS
  <2>1. to = "done" BY DEF WorkerPc, FinalPc
  <2>2. active[SessionOf[m]].kind = "turn"
    BY <2>1 DEF IInv, Entries, Placed, Mine
  <2> QED BY <1>2, <2>1, <2>2 DEF TurnPc
<1>4. KindOf[m] # "system" /\ SessionOf[m] \notin robbed /\ Holds(m)' => Mine(m)
  BY <1>1 DEF IInv, Owns, Holds
<1>5. Owns' /\ Entries' BY <1>1, <1>2, <1>3, <1>4, MoveKeeps
<1>6. Systems' BY <1>1, LaneKeeps
<1>7. Typed' BY PlaceType DEF IInv, Typed, Lane, FinalPc
<1> QED BY <1>5, <1>6, <1>7 DEF IInv

\* A worker deletes the entry of its session and is no owner any more.
LEMMA DeleteStep ==
  ASSUME IInv, NEW m \in Messages, NEW to \in WorkerPc \cup {"done"}, GoTo(m, to), Lane(m, to),
         Delete(SessionOf[m], m), UNCHANGED panicked, to \notin OwnerPc \cup {"netDelete"}
  PROVE IInv'
<1>1. pc' = [pc EXCEPT ![m] = to] BY DEF GoTo
<1>2. Owns' /\ Entries' BY <1>1, DeleteKeeps
<1>3. Systems' BY <1>1, LaneKeeps
<1>4. Typed' BY PlaceType DEF IInv, Typed, Lane, FinalPc
<1> QED BY <1>2, <1>3, <1>4 DEF IInv

\* A worker stores the entry of its turn.
LEMMA RegisterStep ==
  ASSUME IInv, NEW m \in Messages, NEW from, NEW to \in TurnPc, NEW stopped \in TurnPc,
         RegisterTurn(m, from, to, stopped), from \in {"process", "resume"},
         KindOf[m] = "system" => {to, stopped} \subseteq SystemPc
  PROVE IInv'
<1>1. PICK place \in {to, stopped} : GoTo(m, place)
  BY DEF RegisterTurn
<1>2. /\ pc' = [pc EXCEPT ![m] = place] /\ UNCHANGED <<panicked, robbed, main>>
      /\ pc[m] \in {"process", "resume"} /\ Store(SessionOf[m], [kind |-> "turn", by |-> m])
  BY <1>1 DEF RegisterTurn, GoTo
<1>3. Owns' /\ Entries' BY <1>2, RegisterKeeps
<1>4. Lane(m, place) BY <1>2 DEF Lane, IInv, Systems, SystemPc
<1>5. Systems' BY <1>2, <1>4, LaneKeeps
<1>6. Typed'
  <2>1. place \in WorkerPc BY DEF WorkerPc, TurnPc
  <2> QED BY <1>1, <1>2, <2>1, PlaceType DEF IInv, Typed
<1> QED BY <1>3, <1>5, <1>6 DEF IInv

-----------------------------------------------------------------------------
\* A worker or the receive loop processes its message, up to the end of the turn.
LEMMA ProcessingKeeps == ASSUME IInv, NEW m \in Messages, Processing(m) PROVE IInv'
<1> USE DEF GoTo, Step, turnVars, mapVars
<1>0. KindOf[m] = "system" => m \notin panicked /\ pc[m] \in SystemPc \cup {"inbound", "done"}
  BY DEF IInv, Systems
<1>1. CASE ProcessWithoutTurn(m)
  <2>1. PICK to \in {"drain", "done"} : GoTo(m, to) /\ Lane(m, to) /\ (to = "done" => KindOf[m] = "system")
    BY <1>1 DEF ProcessWithoutTurn, Processed, Lane, SystemPc
  <2> QED BY <1>1, <2>1, MoveStep DEF ProcessWithoutTurn, WorkerPc, OwnerPc, TurnPc
<1>2. CASE OwnStopClear(m)
  <2>1. GoTo(m, "stopLookup") /\ Lane(m, "stopLookup")
    BY <1>2 DEF OwnStopClear, Lane
  <2> QED BY <1>2, <2>1, MoveStep DEF OwnStopClear, WorkerPc, OwnerPc, TurnPc
<1>3. CASE OwnStopLookup(m)
  <2>1. PICK to \in {"drain", "stopAbort"} : GoTo(m, to) /\ Lane(m, to)
    BY <1>0, <1>3 DEF OwnStopLookup, Lane, SystemPc
  <2> QED BY <1>3, <2>1, MoveStep DEF OwnStopLookup, WorkerPc, OwnerPc, TurnPc
<1>4. CASE OwnStopAbort(m)
  <2>1. GoTo(m, "drain") /\ Lane(m, "drain")
    BY <1>0, <1>4 DEF OwnStopAbort, Lane, SystemPc
  <2> QED BY <1>4, <2>1, MoveStep DEF OwnStopAbort, WorkerPc, OwnerPc, TurnPc
<1>5. CASE BeginTurn(m)
  BY <1>5, RegisterStep DEF BeginTurn, TurnPc, SystemPc
<1>6. CASE EndFirstTurn(m)
  <2>1. GoTo(m, "clear") /\ Lane(m, "clear")
    BY <1>6 DEF EndFirstTurn, EndTurn, Lane, SystemPc
  <2> QED BY <1>6, <2>1, MoveStep DEF EndFirstTurn, EndTurn, WorkerPc, OwnerPc, TurnPc
<1>7. CASE ClearCheck(m, "clear", "clearDelete")
  <2>1. GoTo(m, "clearDelete") /\ Lane(m, "clearDelete")
    BY <1>7 DEF ClearCheck, Lane, SystemPc
  <2> QED BY <1>7, <2>1, MoveStep DEF ClearCheck, WorkerPc, OwnerPc, TurnPc
<1>8. CASE ClearSkip(m)
  <2>1. PICK to \in {"return", "drain", "done"} :
          GoTo(m, to) /\ Lane(m, to) /\ (to = "done" => KindOf[m] = "system")
    BY <1>0, <1>8 DEF ClearSkip, AfterTurn, Lane, SystemPc
  <2> QED BY <1>8, <2>1, MoveStep DEF ClearSkip, WorkerPc, OwnerPc, TurnPc
<1>9. CASE ClearDelete(m)
  <2>1. PICK to \in {"return", "drain", "done"} : GoTo(m, to) /\ Lane(m, to)
    BY <1>0, <1>9 DEF ClearDelete, AfterTurn, Lane, SystemPc
  <2> QED BY <1>9, <2>1, DeleteStep DEF ClearDelete, WorkerPc, OwnerPc, TurnPc
<1> QED BY <1>1, <1>2, <1>3, <1>4, <1>5, <1>6, <1>7, <1>8, <1>9 DEF Processing

\* A worker looks for what was queued meanwhile, and continues with it.
LEMMA DrainingKeeps == ASSUME IInv, NEW m \in Messages, Draining(m) PROVE IInv'
<1> USE DEF GoTo, Step, turnVars, mapVars
<1>0. KindOf[m] # "system"
  BY DEF IInv, Systems, SystemPc, Draining, DrainCheck, ContinueClaim, ContinueLost,
         ContinueDequeue, ContinueAbandons, ResumeFails, BeginContinuation, RegisterTurn,
         EndContinuation, EndTurn, ClearCheck, ClearSkip2, ClearDelete2
<1>1. CASE DrainCheck(m)
  <2>1. PICK to \in {"return", "claim"} : GoTo(m, to) /\ Lane(m, to)
    BY <1>0, <1>1 DEF DrainCheck, Lane
  <2> QED BY <1>1, <2>1, MoveStep DEF DrainCheck, WorkerPc, OwnerPc, TurnPc
<1>2. CASE ContinueClaim(m)
  <2>1. Owns' /\ Entries' BY <1>0, <1>2, ClaimKeeps DEF ContinueClaim, FinalPc
  <2>2. Systems' BY <1>0, <1>2, SystemsStay DEF ContinueClaim
  <2>3. Typed' BY <1>2, PlaceType DEF ContinueClaim, IInv, Typed, WorkerPc
  <2> QED BY <2>1, <2>2, <2>3 DEF IInv
<1>3. CASE ContinueLost(m)
  <2>1. GoTo(m, "return") /\ Lane(m, "return") BY <1>0, <1>3 DEF ContinueLost, Lane
  <2> QED BY <1>3, <2>1, MoveStep DEF ContinueLost, WorkerPc, OwnerPc, TurnPc
<1>4. CASE ContinueDequeue(m)
  <2>1. GoTo(m, "resume") /\ Lane(m, "resume") BY <1>0, <1>4 DEF ContinueDequeue, Lane
  <2> QED BY <1>4, <2>1, MoveStep DEF ContinueDequeue, WorkerPc, OwnerPc, TurnPc
<1>5. CASE ContinueAbandons(m)
  <2>1. GoTo(m, "return") /\ Lane(m, "return") BY <1>0, <1>5 DEF ContinueAbandons, Lane
  <2> QED BY <1>5, <2>1, DeleteStep DEF ContinueAbandons, WorkerPc, OwnerPc, TurnPc
<1>6. CASE ResumeFails(m)
  <2>1. GoTo(m, "return") /\ Lane(m, "return") BY <1>0, <1>6 DEF ResumeFails, Lane
  <2> QED BY <1>6, <2>1, MoveStep DEF ResumeFails, WorkerPc, OwnerPc, TurnPc
<1>7. CASE BeginContinuation(m)
  BY <1>0, <1>7, RegisterStep DEF BeginContinuation, TurnPc
<1>8. CASE EndContinuation(m)
  <2>1. GoTo(m, "clear2") /\ Lane(m, "clear2") BY <1>0, <1>8 DEF EndContinuation, EndTurn, Lane
  <2> QED BY <1>8, <2>1, MoveStep DEF EndContinuation, EndTurn, WorkerPc, OwnerPc, TurnPc
<1>9. CASE ClearCheck(m, "clear2", "clearDelete2")
  <2>1. GoTo(m, "clearDelete2") /\ Lane(m, "clearDelete2") BY <1>0, <1>9 DEF ClearCheck, Lane
  <2> QED BY <1>9, <2>1, MoveStep DEF ClearCheck, WorkerPc, OwnerPc, TurnPc
<1>10. CASE ClearSkip2(m)
  <2>1. PICK to \in {"drain", "return"} : GoTo(m, to) /\ Lane(m, to)
    BY <1>0, <1>10 DEF ClearSkip2, AfterContinuation, Lane
  <2> QED BY <1>10, <2>1, MoveStep DEF ClearSkip2, WorkerPc, OwnerPc, TurnPc
<1>11. CASE ClearDelete2(m)
  <2>1. PICK to \in {"drain", "return"} : GoTo(m, to) /\ Lane(m, to)
    BY <1>0, <1>11 DEF ClearDelete2, AfterContinuation, Lane
  <2> QED BY <1>11, <2>1, DeleteStep DEF ClearDelete2, WorkerPc, OwnerPc, TurnPc
<1> QED BY <1>1, <1>2, <1>3, <1>4, <1>5, <1>6, <1>7, <1>8, <1>9, <1>10, <1>11 DEF Draining

\* The deferred calls of a worker.  After a panic the safety net has seen the
\* worker's own placeholder, which only a stranger can have deleted since.
LEMMA LeavingKeeps == ASSUME IInv, NEW m \in Messages, Leaving(m) PROVE IInv'
<1> USE DEF GoTo, Step, turnVars, mapVars
<1>0. KindOf[m] # "system"
  BY DEF IInv, Systems, SystemPc, Leaving, ReleaseSlot, NetCheck, NetDelete
<1>1. CASE ReleaseSlot(m)
  <2>1. GoTo(m, "net") /\ Lane(m, "net") BY <1>0, <1>1 DEF ReleaseSlot, Lane
  <2> QED BY <1>1, <2>1, MoveStep DEF ReleaseSlot, WorkerPc, OwnerPc, TurnPc
<1>2. CASE NetCheck(m)
  <2>1. PICK to \in {"netDelete", "done"} :
          /\ pc[m] = "net" /\ pc' = [pc EXCEPT ![m] = to] /\ (to = "netDelete" <=> NetFinds(m))
          /\ UNCHANGED <<active, robbed, panicked, main>>
    BY <1>2 DEF NetCheck
  <2>2. Mine(m) => active[SessionOf[m]].kind # "turn"
    BY <2>1, AgentLoopAssumption DEF IInv, Entries, Placed, Mine, TurnPc
  <2>3. Mine(m) /\ Panics = {} => to # "done"
    <3> SUFFICES ASSUME Mine(m), Panics = {} PROVE NetFinds(m) BY <2>1
    <3>1. active[SessionOf[m]] \in Entry
      BY EntryType, AgentLoopAssumption DEF IInv, Mine
    <3>2. m \notin panicked BY DEF IInv, Typed
    <3> QED BY <2>2, <3>1, <3>2 DEF NetFinds, IsPlaceholder, Entry, Mine
  <2>4. Holds(m)' => Mine(m)
    <3> SUFFICES ASSUME Holds(m)' PROVE Mine(m) OBVIOUS
    <3>1. m \in panicked /\ to = "netDelete"
      BY <2>1 DEF Holds, IInv, Typed, OwnerPc, TurnPc
    <3>2. active[SessionOf[m]] = [kind |-> "pending", by |-> m]
      BY <2>1, <3>1 DEF NetFinds
    <3>3. [kind |-> "pending", by |-> m] \in Entry /\ [kind |-> "pending", by |-> m].by = m
      BY DEF Entry
    <3> QED BY <3>2, <3>3, AgentLoopAssumption DEF Mine
  <2>5. Owns' /\ Entries'
    BY <2>1, <2>2, <2>3, <2>4, MoveKeeps DEF FinalPc
  <2>6. Systems' BY <1>0, <2>1, SystemsStay
  <2>7. Typed' BY <2>1, PlaceType DEF IInv, Typed, WorkerPc, FinalPc
  <2> QED BY <2>5, <2>6, <2>7 DEF IInv
<1>3. CASE NetDelete(m)
  <2>1. GoTo(m, "done") /\ Lane(m, "done") BY <1>0, <1>3 DEF NetDelete, Lane
  <2> QED BY <1>3, <2>1, DeleteStep DEF NetDelete, OwnerPc, TurnPc
<1> QED BY <1>1, <1>2, <1>3 DEF Leaving

\* A panic unwinds a turn through the clearing of its entry, and anything else
\* to the deferred calls.
LEMMA PanicKeeps == ASSUME IInv, NEW m \in Messages, Panic(m) PROVE IInv'
<1>1. /\ KindOf[m] # "system" /\ m \in Panics \ panicked /\ panicked' = panicked \cup {m}
      /\ UNCHANGED <<active, robbed, main>>
  BY DEF Panic, mapVars
<1>2. PICK to \in {"clear", "clear2", "return"} :
        /\ GoTo(m, to)
        /\ pc[m] = "turn" => to = "clear"
        /\ pc[m] = "turn2" => to = "clear2"
        /\ to # "return" => pc[m] \in {"turn", "turn2"}
        /\ pc[m] \in {"process", "turn", "stopLookup", "drain", "dequeue", "resume", "turn2"}
  <2>1. CASE pc[m] = "turn" BY <2>1 DEF Panic
  <2>2. CASE pc[m] = "turn2" BY <2>2 DEF Panic
  <2>3. CASE pc[m] \notin {"turn", "turn2"} BY <2>3 DEF Panic
  <2> QED BY <2>1, <2>2, <2>3
<1>3. pc' = [pc EXCEPT ![m] = to] /\ pc'[m] = to BY <1>2 DEF GoTo, IInv, Typed
<1>4. Mine(m) => /\ active[SessionOf[m]].kind = "turn" => to \in TurnPc
                 /\ Panics = {} => to \notin FinalPc
  BY <1>1, <1>2, AgentLoopAssumption DEF IInv, Entries, Placed, Mine, TurnPc
<1>5. SessionOf[m] \notin robbed /\ Holds(m)' => Mine(m)
  BY <1>1, <1>2, <1>3 DEF IInv, Owns, Holds, OwnerPc, TurnPc
<1>6. Owns' /\ Entries' BY <1>1, <1>3, <1>4, <1>5, MoveKeeps
<1>7. Systems' BY <1>1, <1>3, SystemsStay
<1>8. Typed' BY <1>1, <1>2, PlaceType DEF IInv, Typed, WorkerPc
<1> QED BY <1>6, <1>7, <1>8 DEF IInv

\* The invariant is inductive.
LEMMA IInvStep == IInv /\ [Next]_vars => IInv'
<1> SUFFICES ASSUME IInv, [Next]_vars PROVE IInv' OBVIOUS
<1>1. CASE Receive BY <1>1, ReceiveKeeps
<1>2. CASE Main \/ Shutdown BY <1>2, MainKeeps
<1>3. CASE \E m \in Messages : Worker(m)
  BY <1>3, AdmissionKeeps, ProcessingKeeps, DrainingKeeps, LeavingKeeps DEF Worker
<1>4. CASE \E m \in Messages : Panic(m) BY <1>4, PanicKeeps
<1>5. CASE (\E m \in Messages : PollSteering(m)) \/ UNCHANGED vars
  <2>1. UNCHANGED <<active, pc, main, panicked, robbed>>
    BY <1>5 DEF PollSteering, turnVars, vars
  <2>2. Typed' BY <2>1 DEF IInv, Typed
  <2>3. Systems' BY <2>1 DEF IInv, Systems
  <2>4. Owns' BY <2>1 DEF IInv, Owns, Holds, Mine
  <2>5. Entries' BY <2>1 DEF IInv, Entries
  <2> QED BY <2>2, <2>3, <2>4, <2>5 DEF IInv
<1> QED BY <1>1, <1>2, <1>3, <1>4, <1>5 DEF Next

\* Who owns a claim, and where its owner is, in every reachable state of the
\* receive loop and its workers.
THEOREM InvariantHolds == Spec => []IInv
<1> QED BY IInvInit, IInvStep, PTL DEF Spec

\* LoadOrStore, registerActiveTurn and clearActiveTurn let one turn of a session
\* run at a time, for any number of messages, sessions and slots, unless a
\* goroutine has deleted an entry it had not made.
THEOREM OneTurnUnlessRobbedHolds == Spec => []OneTurnUnlessRobbed
<1>1. IInv => OneTurnUnlessRobbed
  <2> SUFFICES ASSUME IInv, NEW m \in Messages, NEW n \in Messages, SessionOf[m] = SessionOf[n],
                      InTurn(m), InTurn(n), SessionOf[m] \notin robbed
               PROVE m = n
    BY DEF OneTurnUnlessRobbed
  <2>1. CASE KindOf[m] = "system"
    <3>1. KindOf[n] = "system" BY <2>1, AgentLoopAssumption
    <3> QED BY <2>1, <3>1 DEF IInv, Systems, InTurn, SystemPc
  <2>2. CASE KindOf[m] # "system"
    <3>1. KindOf[n] # "system" BY <2>2, AgentLoopAssumption
    <3>2. Mine(m) /\ Mine(n) BY <2>2, <3>1 DEF IInv, Owns, Holds, OwnerPc, TurnPc, InTurn
    <3> QED BY <3>2 DEF Mine
  <2> QED BY <2>1, <2>2
<1> QED BY <1>1, InvariantHolds, PTL

\* If no worker panics, a claim on a session is never left behind by a worker
\* that has returned, whatever /stop, a failed continuation or the shutdown do
\* (the safety net of Run's worker).
THEOREM ClaimHasLiveOwnerHolds ==
  ASSUME Panics = {} PROVE Spec => []ClaimHasLiveOwner
<1>1. IInv => ClaimHasLiveOwner
  BY DEF IInv, Entries, Placed, ClaimHasLiveOwner, Finished, FinalPc
<1> QED BY <1>1, InvariantHolds, PTL

-----------------------------------------------------------------------------
\* The ways in which a step changes the map.
Deletes(m) ==
  /\ Delete(SessionOf[m], m) /\ pc[m] \in OwnerPc \cup {"netDelete"}
  /\ \A n \in Messages \ {m} : pc'[n] = pc[n]
Claims(m) ==
  active[SessionOf[m]] = None /\ \E kind \in {"pending", "continue"} :
                                  Store(SessionOf[m], [kind |-> kind, by |-> m])
Registers(m) ==
  pc[m] \in {"process", "resume"} /\ Store(SessionOf[m], [kind |-> "turn", by |-> m])

LEMMA MapStep ==
  ASSUME IInv, [Next]_vars
  PROVE  UNCHANGED active \/ \E m \in Messages : Deletes(m) \/ Claims(m) \/ Registers(m)
<1> USE DEF GoTo, Step, turnVars, mapVars
<1>1. CASE Receive
  BY <1>1 DEF Receive, ReceiveClaim, ReceiveLoaded, ReceiveSystem, Claims
<1>2. CASE Main \/ Shutdown
  BY <1>2 DEF Main, Enqueue, StopClear, StopLookup, StopAbort, StopArm, StopMark, MainExit, Shutdown
<1>3. ASSUME NEW m \in Messages, Admission(m) PROVE UNCHANGED active \/ Deletes(m)
  BY <1>3 DEF Admission, AcquireSlot, GiveUpWaiting, BailOut, BailRelease, StartProcessing, Deletes,
              OwnerPc, IInv, Typed
<1>4. ASSUME NEW m \in Messages, Processing(m)
      PROVE UNCHANGED active \/ Deletes(m) \/ Registers(m)
  <2>1. CASE ClearDelete(m)
    <3>1. PICK to : GoTo(m, to) BY <2>1 DEF ClearDelete, AfterTurn
    <3> QED BY <2>1, <3>1 DEF ClearDelete, Deletes, OwnerPc, TurnPc, IInv, Typed
  <2>2. CASE BeginTurn(m) BY <2>2 DEF BeginTurn, RegisterTurn, Registers
  <2>3. CASE ~ ClearDelete(m) /\ ~ BeginTurn(m)
    BY <1>4, <2>3 DEF Processing, ProcessWithoutTurn, OwnStopClear, OwnStopLookup, OwnStopAbort,
                      EndFirstTurn, EndTurn, ClearCheck, ClearSkip
  <2> QED BY <2>1, <2>2, <2>3
<1>5. ASSUME NEW m \in Messages, Draining(m)
      PROVE UNCHANGED active \/ Deletes(m) \/ Claims(m) \/ Registers(m)
  <2>1. CASE ClearDelete2(m) \/ ContinueAbandons(m)
    <3>1. PICK to : GoTo(m, to)
      BY <2>1 DEF ClearDelete2, ContinueAbandons, AfterContinuation
    <3> QED BY <2>1, <3>1 DEF ClearDelete2, ContinueAbandons, Deletes, OwnerPc, TurnPc, IInv, Typed
  <2>2. CASE BeginContinuation(m) BY <2>2 DEF BeginContinuation, RegisterTurn, Registers
  <2>3. CASE ContinueClaim(m) BY <2>3 DEF ContinueClaim, Claims
  <2>4. CASE \/ DrainCheck(m) \/ ContinueLost(m) \/ ContinueDequeue(m) \/ ResumeFails(m)
             \/ EndContinuation(m) \/ ClearCheck(m, "clear2", "clearDelete2") \/ ClearSkip2(m)
    BY <2>4 DEF DrainCheck, ContinueLost, ContinueDequeue, ResumeFails, EndContinuation, EndTurn,
                ClearCheck, ClearSkip2
  <2> QED BY <1>5, <2>1, <2>2, <2>3, <2>4 DEF Draining
<1>6. ASSUME NEW m \in Messages, Leaving(m) PROVE UNCHANGED active \/ Deletes(m)
  BY <1>6 DEF Leaving, ReleaseSlot, NetCheck, NetDelete, Deletes, IInv, Typed
<1>7. CASE \E m \in Messages : PollSteering(m) \/ Panic(m)
  BY <1>7 DEF PollSteering, Panic
<1>8. CASE UNCHANGED vars BY <1>8 DEF vars
<1> QED BY <1>1, <1>2, <1>3, <1>4, <1>5, <1>6, <1>7, <1>8 DEF Next, Worker

\* What a worker stores is an entry, and an entry is not None.
LEMMA Stored ==
  ASSUME IInv, NEW m \in Messages, NEW kind \in {"pending", "continue", "turn"},
         Store(SessionOf[m], [kind |-> kind, by |-> m]), NEW s \in Sessions
  PROVE  /\ s # SessionOf[m] => active'[s] = active[s]
         /\ s = SessionOf[m] => active'[s] # None /\ active'[s].by = m
<1> DEFINE e == [kind |-> kind, by |-> m]
<1>1. e \in Entry /\ e.by = m BY DEF Entry
<1>2. active' = [active EXCEPT ![SessionOf[m]] = e] BY DEF Store
<1> HIDE DEF e
<1>3. e # None BY <1>1, AgentLoopAssumption
<1> QED BY <1>1, <1>2, <1>3 DEF IInv, Typed

\* A claim passes to nobody but the turn of the worker that held it, for any
\* messages and sessions: registerActiveTurn stores without looking, and may,
\* unless the session had been robbed.
THEOREM ClaimsAreHandedOnHolds == Spec => ClaimsAreHandedOnByTheirOwner
<1>1. ASSUME IInv, [Next]_vars, NEW s \in Sessions,
             active[s] # None, active'[s] # None, active'[s] # active[s], s \notin robbed
      PROVE active'[s].by = active[s].by
  <2>1. PICK m \in Messages : Deletes(m) \/ Claims(m) \/ Registers(m)
    BY <1>1, MapStep
  <2>2. CASE Deletes(m)
    BY <1>1, <2>2, AgentLoopAssumption DEF Deletes, Delete, Store, IInv, Typed
  <2>3. CASE Claims(m)
    BY <1>1, <2>3, Stored DEF Claims
  <2>4. CASE Registers(m)
    <3>1. s = SessionOf[m] /\ active'[s].by = m /\ pc[m] \in {"process", "resume"}
      BY <1>1, <2>4, Stored DEF Registers
    <3>2. CASE KindOf[m] # "system"
      BY <1>1, <3>1, <3>2 DEF IInv, Owns, Holds, OwnerPc, Mine
    <3>3. CASE KindOf[m] = "system"
      <4>1. active[s].by \in Messages /\ SessionOf[active[s].by] = s
        BY <1>1, EntryType DEF IInv, Entries, Placed
      <4>2. KindOf[active[s].by] = "system"
        BY <3>1, <3>3, <4>1, AgentLoopAssumption
      <4>3. pc[active[s].by] \in TurnPc
        BY <1>1, <4>1, <4>2 DEF IInv, Entries, Placed
      <4> QED BY <1>1, <3>1, <3>3, <4>1, <4>2, <4>3 DEF IInv, Systems, SystemPc, TurnPc
    <3> QED BY <3>2, <3>3
  <2> QED BY <2>1, <2>2, <2>3, <2>4
<1>2. IInv /\ [Next]_vars =>
        [\A s \in Sessions :
           (active[s] # None /\ active'[s] # None /\ active'[s] # active[s] /\ s \notin robbed)
             => active'[s].by = active[s].by]_vars
  BY <1>1
<1> QED BY <1>2, InvariantHolds, PTL DEF Spec, ClaimsAreHandedOnByTheirOwner

\* A worker that unwinds a panic deletes no entry but its own, whatever has
\* become of its session since the safety net looked.
THEOREM PanicTakesOnlyItsOwnHolds == Spec => PanicTakesOnlyItsOwn
<1>1. ASSUME IInv, [Next]_vars, NEW s \in Sessions, NEW m \in panicked,
             active[s] # None, active'[s] = None, pc'[m] # pc[m], s = SessionOf[m], s \notin robbed
      PROVE active[s].by = m
  <2>0. m \in Messages BY <1>1, AgentLoopAssumption DEF IInv, Typed
  <2>1. PICK k \in Messages : Deletes(k) \/ Claims(k) \/ Registers(k)
    BY <1>1, MapStep
  <2>2. CASE Deletes(k)
    <3>1. k = m BY <1>1, <2>0, <2>2 DEF Deletes
    <3>2. KindOf[m] # "system" BY <1>1, <2>0 DEF IInv, Systems
    <3>3. Holds(m) BY <1>1, <2>2, <3>1 DEF Deletes, Holds
    <3> QED BY <1>1, <2>0, <3>2, <3>3 DEF IInv, Owns, Mine
  <2>3. CASE Claims(k) \/ Registers(k)
    BY <1>1, <2>3, Stored DEF Claims, Registers
  <2> QED BY <2>1, <2>2, <2>3
<1>2. IInv /\ [Next]_vars =>
        [\A s \in Sessions, m \in panicked :
           (active[s] # None /\ active'[s] = None /\ pc'[m] # pc[m] /\ s = SessionOf[m]
              /\ s \notin robbed)
             => active[s].by = m]_vars
  BY <1>1
<1> QED BY <1>2, InvariantHolds, PTL DEF Spec, PanicTakesOnlyItsOwn

-----------------------------------------------------------------------------
(***************************************************************************)
(* The slots of workerSem, and the types of what the claims do not speak   *)
(* of.                                                                     *)
(***************************************************************************)

\* Where a worker has a slot: from AcquireSlot to the deferred release.
SlotPc == WorkerPc \ {"spawned", "net", "netDelete"}

\* The slots are those of the workers that are at work: none is lost when a
\* worker panics, gives up waiting or bails out, and none is given back twice.
SlotsAreUsed == sem = {m \in Messages : KindOf[m] # "system" /\ pc[m] \in SlotPc}

SlotInv == SlotsAreUsed /\ Cardinality(sem) <= MaxParallelTurns

Rest ==
  /\ queue \in [Sessions -> Seq(Messages)]
  /\ \A s \in Sessions : Len(queue[s]) <= MaxQueueSize
  /\ pendingStops \subseteq Sessions
  /\ aborted \subseteq Messages
  /\ outcome \in [Messages -> Outcomes]
  /\ ctxDone \in BOOLEAN
  /\ main.at \notin {"select", "exited"} => main.msg \in Messages

\* A step of m that neither takes a slot nor gives one back.
LEMMA SlotMove ==
  ASSUME IInv, SlotsAreUsed, NEW m \in Messages, NEW to, GoTo(m, to), sem' = sem,
         KindOf[m] = "system" \/ (pc[m] \in SlotPc <=> to \in SlotPc)
  PROVE  SlotsAreUsed'
<1>1. pc'[m] = to /\ \A n \in Messages \ {m} : pc'[n] = pc[n] BY DEF GoTo, IInv, Typed
<1> QED BY <1>1 DEF SlotsAreUsed

\* Most steps of a worker are such steps.
LEMMA SlotKept ==
  ASSUME IInv, SlotsAreUsed, NEW m \in Messages,
         \/ (Admission(m) /\ ~AcquireSlot(m)) \/ Processing(m) \/ Draining(m)
         \/ NetCheck(m) \/ NetDelete(m) \/ Panic(m)
  PROVE  SlotsAreUsed' /\ sem' = sem
<1> USE DEF Step, SlotPc, WorkerPc
<1>1. CASE Admission(m) /\ ~AcquireSlot(m)
  <2>1. PICK to \in {"done", "bail", "drain", "process"} :
          /\ GoTo(m, to) /\ sem' = sem
          /\ to = "done" <=> pc[m] = "spawned"
          /\ pc[m] \in {"spawned", "started", "bail"}
    BY <1>1 DEF Admission, GiveUpWaiting, BailOut, BailRelease, StartProcessing
  <2> QED BY <2>1, SlotMove
<1>2. CASE Processing(m)
  <2>1. PICK to \in {"done", "drain", "return", "stopLookup", "stopAbort", "turn", "clear", "clearDelete"} :
          /\ GoTo(m, to) /\ sem' = sem
          /\ pc[m] \in {"process", "stopLookup", "stopAbort", "turn", "clear", "clearDelete"}
          /\ to = "done" => KindOf[m] = "system"
    <3>1. CASE ProcessWithoutTurn(m) BY <3>1 DEF ProcessWithoutTurn, Processed
    <3>2. CASE OwnStopClear(m) \/ OwnStopAbort(m) BY <3>2 DEF OwnStopClear, OwnStopAbort
    <3>3. CASE OwnStopLookup(m)
      <4>1. PICK to \in {"drain", "stopAbort"} : GoTo(m, to)
        BY <3>3 DEF OwnStopLookup
      <4> QED BY <3>3, <4>1 DEF OwnStopLookup
    <3>4. CASE BeginTurn(m) BY <3>4 DEF BeginTurn, RegisterTurn
    <3>5. CASE EndFirstTurn(m) \/ ClearCheck(m, "clear", "clearDelete")
      BY <3>5 DEF EndFirstTurn, EndTurn, ClearCheck
    <3>6. CASE ClearSkip(m) \/ ClearDelete(m) BY <3>6 DEF ClearSkip, ClearDelete, AfterTurn
    <3> QED BY <1>2, <3>1, <3>2, <3>3, <3>4, <3>5, <3>6 DEF Processing
  <2> QED BY <2>1, SlotMove
<1>3. CASE Draining(m)
  <2>1. PICK to \in {"return", "claim", "dequeue", "resume", "turn2", "clear2", "clearDelete2", "drain"} :
          /\ GoTo(m, to) /\ sem' = sem
          /\ pc[m] \in {"drain", "claim", "dequeue", "resume", "turn2", "clear2", "clearDelete2"}
    <3>1. CASE DrainCheck(m) \/ ContinueClaim(m) \/ ContinueLost(m) \/ ContinueDequeue(m)
      BY <3>1 DEF DrainCheck, ContinueClaim, ContinueLost, ContinueDequeue
    <3>2. CASE ContinueAbandons(m) \/ ResumeFails(m) BY <3>2 DEF ContinueAbandons, ResumeFails
    <3>3. CASE BeginContinuation(m) BY <3>3 DEF BeginContinuation, RegisterTurn
    <3>4. CASE EndContinuation(m) \/ ClearCheck(m, "clear2", "clearDelete2")
      BY <3>4 DEF EndContinuation, EndTurn, ClearCheck
    <3>5. CASE ClearSkip2(m) \/ ClearDelete2(m)
      BY <3>5 DEF ClearSkip2, ClearDelete2, AfterContinuation
    <3> QED BY <1>3, <3>1, <3>2, <3>3, <3>4, <3>5 DEF Draining
  <2> QED BY <2>1, SlotMove
<1>4. CASE NetCheck(m) \/ NetDelete(m)
  <2>1. PICK to \in {"done", "netDelete"} :
          GoTo(m, to) /\ sem' = sem /\ pc[m] \in {"net", "netDelete"}
    BY <1>4 DEF NetCheck, NetDelete
  <2> QED BY <2>1, SlotMove
<1>5. CASE Panic(m)
  <2>1. PICK to \in {"clear", "clear2", "return"} :
          /\ GoTo(m, to) /\ sem' = sem
          /\ pc[m] \in {"process", "turn", "stopLookup", "drain", "dequeue", "resume", "turn2"}
    BY <1>5 DEF Panic
  <2> QED BY <2>1, SlotMove
<1> QED BY <1>1, <1>2, <1>3, <1>4, <1>5

\* The slots stay with the workers that are at work.
LEMMA SlotStep == IInv /\ SlotInv /\ [Next]_vars => SlotInv'
<1> SUFFICES ASSUME IInv, SlotInv, [Next]_vars PROVE SlotInv' OBVIOUS
<1> USE AgentLoopAssumption
<1>1. ASSUME NEW m \in Messages, Worker(m) \/ Panic(m) PROVE SlotInv'
  <2>1. CASE AcquireSlot(m)
    <3>1. KindOf[m] # "system" BY <2>1 DEF AcquireSlot, Step, IInv, Systems, SystemPc
    <3>2. /\ Cardinality(sem) < MaxParallelTurns /\ sem' = sem \cup {m}
          /\ pc' = [pc EXCEPT ![m] = "started"]
      BY <2>1 DEF AcquireSlot, Step, GoTo
    <3>3. pc'[m] = "started" /\ \A n \in Messages \ {m} : pc'[n] = pc[n]
      BY <3>2 DEF IInv, Typed
    <3>4. SlotsAreUsed' BY <3>1, <3>2, <3>3 DEF SlotInv, SlotsAreUsed, SlotPc, WorkerPc
    <3>5. IsFiniteSet(sem) /\ Cardinality(sem) \in Nat
      BY FS_Subset, FS_CardinalityType DEF SlotInv, SlotsAreUsed
    <3>6. Cardinality(sem') <= Cardinality(sem) + 1
      <4>1. Cardinality(sem \cup {m}) = IF m \in sem THEN Cardinality(sem) ELSE Cardinality(sem) + 1
        BY <3>5, FS_AddElement
      <4> QED BY <3>2, <3>5, <4>1
    <3>7. IsFiniteSet(sem') /\ Cardinality(sem') \in Nat
      BY <3>4, FS_Subset, FS_CardinalityType DEF SlotsAreUsed
    <3> QED BY <3>2, <3>4, <3>5, <3>6, <3>7 DEF SlotInv
  <2>2. CASE ReleaseSlot(m)
    <3>1. sem' = sem \ {m} /\ pc[m] = "return" /\ pc' = [pc EXCEPT ![m] = "net"]
      BY <2>2 DEF ReleaseSlot, Step, GoTo
    <3>2. pc'[m] = "net" /\ \A n \in Messages \ {m} : pc'[n] = pc[n]
      BY <3>1 DEF IInv, Typed
    <3>3. SlotsAreUsed' BY <3>1, <3>2 DEF SlotInv, SlotsAreUsed, SlotPc, WorkerPc
    <3>4. IsFiniteSet(sem) /\ Cardinality(sem) \in Nat
      BY FS_Subset, FS_CardinalityType DEF SlotInv, SlotsAreUsed
    <3>5. Cardinality(sem') <= Cardinality(sem) /\ Cardinality(sem') \in Nat
      BY <3>1, <3>4, FS_Subset, FS_CardinalityType
    <3> QED BY <3>3, <3>4, <3>5 DEF SlotInv
  <2>3. CASE ~AcquireSlot(m) /\ ~ReleaseSlot(m)
    <3>1. SlotsAreUsed' /\ sem' = sem
      BY <1>1, <2>3, SlotKept DEF SlotInv, Worker, Leaving
    <3> QED BY <3>1 DEF SlotInv
  <2> QED BY <2>1, <2>2, <2>3
<1>2. ASSUME NEW m \in Messages, ReceiveClaim(m) \/ ReceiveLoaded(m) \/ ReceiveSystem(m)
      PROVE  SlotInv'
  <2>1. PICK to \in {"spawned", "steered", "process"} :
          /\ GoTo(m, to) /\ sem' = sem /\ pc[m] = "inbound"
          /\ to = "process" => KindOf[m] = "system"
    BY <1>2 DEF ReceiveClaim, ReceiveLoaded, ReceiveSystem, Step
  <2>2. SlotsAreUsed' BY <2>1, SlotMove DEF SlotInv, SlotPc, WorkerPc
  <2> QED BY <2>1, <2>2 DEF SlotInv
<1>3. CASE Main \/ Shutdown \/ (\E m \in Messages : PollSteering(m)) \/ UNCHANGED vars
  <2>1. sem' = sem /\ pc' = pc
    BY <1>3 DEF Main, Enqueue, StopClear, StopLookup, StopAbort, StopArm, StopMark, MainExit,
                Shutdown, PollSteering, vars
  <2> QED BY <2>1 DEF SlotInv, SlotsAreUsed
<1> QED BY <1>1, <1>2, <1>3 DEF Next, Receive

-----------------------------------------------------------------------------
\* What is left of a queue.
LEMMA QueueRest ==
  ASSUME NEW q \in Seq(Messages), q # <<>>
  PROVE  Dequeued(q) \in Seq(Messages) /\ Len(Dequeued(q)) <= Len(q)
<1>1. Len(q) \in Nat /\ Tail(q) \in Seq(Messages) /\ Len(Tail(q)) = Len(q) - 1
  BY LenProperties, HeadTailProperties
<1>2. <<>> \in Seq(Messages) /\ Len(<<>>) = 0 BY EmptySeq
<1> QED BY <1>1, <1>2 DEF Dequeued

\* A step that changes one queue.
LEMMA QueueType ==
  ASSUME Rest, NEW s \in Sessions, NEW q \in Seq(Messages), Len(q) <= MaxQueueSize,
         queue' = [queue EXCEPT ![s] = q]
  PROVE  queue' \in [Sessions -> Seq(Messages)] /\ \A r \in Sessions : Len(queue'[r]) <= MaxQueueSize
BY DEF Rest

\* The steps that change a queue: one message more if there is room, or fewer.
LEMMA QueueSteps ==
  ASSUME IInv, Rest, [Next]_vars
  PROVE  \/ queue' = queue
         \/ Enqueue
         \/ \E s \in Sessions : queue' = [queue EXCEPT ![s] = <<>>]
         \/ \E s \in Sessions : queue[s] # <<>> /\ queue' = [queue EXCEPT ![s] = Dequeued(@)]
<1> USE AgentLoopAssumption DEF mapVars
<1>1. CASE Receive BY <1>1 DEF Receive, ReceiveClaim, ReceiveLoaded, ReceiveSystem
<1>2. CASE Main
  <2>1. CASE StopClear
    <3>1. main.msg \in Messages BY <2>1 DEF StopClear, Rest
    <3>2. SessionOf[main.msg] \in Sessions BY <3>1
    <3> QED BY <2>1, <3>2 DEF StopClear
  <2> QED BY <1>2, <2>1 DEF Main, StopLookup, StopAbort, StopArm, StopMark, MainExit
<1>3. CASE Shutdown BY <1>3 DEF Shutdown
<1>4. ASSUME NEW m \in Messages, Admission(m) PROVE queue' = queue
  BY <1>4 DEF Admission, AcquireSlot, GiveUpWaiting, BailOut, BailRelease, StartProcessing
<1>5. ASSUME NEW m \in Messages, Processing(m)
      PROVE  queue' = queue \/ \E s \in Sessions : queue' = [queue EXCEPT ![s] = <<>>]
  BY <1>5 DEF Processing, ProcessWithoutTurn, OwnStopClear, OwnStopLookup, OwnStopAbort, BeginTurn,
              RegisterTurn, EndFirstTurn, EndTurn, ClearCheck, ClearSkip, ClearDelete
<1>6. ASSUME NEW m \in Messages, Draining(m)
      PROVE  \/ queue' = queue
             \/ \E s \in Sessions : queue[s] # <<>> /\ queue' = [queue EXCEPT ![s] = Dequeued(@)]
  BY <1>6 DEF Draining, DrainCheck, ContinueClaim, ContinueLost, ContinueDequeue, ContinueAbandons,
              ResumeFails, BeginContinuation, RegisterTurn, EndContinuation, EndTurn, ClearCheck,
              ClearSkip2, ClearDelete2
<1>7. ASSUME NEW m \in Messages, Leaving(m) \/ Panic(m) PROVE queue' = queue
  BY <1>7 DEF Leaving, ReleaseSlot, NetCheck, NetDelete, Panic
<1>8. ASSUME NEW m \in Messages, PollSteering(m)
      PROVE  \E s \in Sessions : queue[s] # <<>> /\ queue' = [queue EXCEPT ![s] = Dequeued(@)]
  BY <1>8 DEF PollSteering
<1>9. CASE UNCHANGED vars BY <1>9 DEF vars
<1> QED BY <1>1, <1>2, <1>3, <1>4, <1>5, <1>6, <1>7, <1>8, <1>9 DEF Next, Worker

\* Queues are bounded by their capacity.
LEMMA QueueStep ==
  ASSUME IInv, Rest, [Next]_vars
  PROVE  queue' \in [Sessions -> Seq(Messages)] /\ \A r \in Sessions : Len(queue'[r]) <= MaxQueueSize
<1> USE AgentLoopAssumption
<1>1. CASE queue' = queue BY <1>1 DEF Rest
<1>2. ASSUME NEW s \in Sessions, queue' = [queue EXCEPT ![s] = <<>>]
      PROVE  queue' \in [Sessions -> Seq(Messages)] /\ \A r \in Sessions : Len(queue'[r]) <= MaxQueueSize
  <2>1. <<>> \in Seq(Messages) /\ Len(<<>>) <= MaxQueueSize BY EmptySeq
  <2> QED BY <1>2, <2>1, QueueType
<1>3. ASSUME NEW s \in Sessions, queue[s] # <<>>, queue' = [queue EXCEPT ![s] = Dequeued(@)]
      PROVE  queue' \in [Sessions -> Seq(Messages)] /\ \A r \in Sessions : Len(queue'[r]) <= MaxQueueSize
  <2>1. queue[s] \in Seq(Messages) /\ Len(queue[s]) <= MaxQueueSize BY DEF Rest
  <2>2. PICK q : q = Dequeued(queue[s]) OBVIOUS
  <2>3. q \in Seq(Messages) /\ Len(q) <= Len(queue[s]) BY <1>3, <2>1, <2>2, QueueRest
  <2>4. Len(q) \in Nat /\ Len(queue[s]) \in Nat BY <2>1, <2>3, LenProperties
  <2>5. Len(q) <= MaxQueueSize BY <2>1, <2>3, <2>4
  <2> QED BY <1>3, <2>2, <2>3, <2>5, QueueType
<1>4. CASE Enqueue /\ queue' # queue
  <2>1. PICK s, m : s = SessionOf[main.msg] /\ m = main.msg OBVIOUS
  <2>2. Len(queue[s]) < MaxQueueSize /\ queue' = [queue EXCEPT ![s] = Append(@, m)]
    BY <1>4, <2>1 DEF Enqueue
  <2>3. m \in Messages /\ s \in Sessions BY <1>4, <2>1 DEF Enqueue, Rest
  <2>4. queue[s] \in Seq(Messages) /\ Len(queue[s]) \in Nat BY <2>3, LenProperties DEF Rest
  <2>5. Append(queue[s], m) \in Seq(Messages) /\ Len(Append(queue[s], m)) = Len(queue[s]) + 1
    BY <2>3, <2>4, AppendProperties
  <2>6. Len(Append(queue[s], m)) <= MaxQueueSize BY <2>2, <2>4, <2>5
  <2> QED BY <2>2, <2>3, <2>5, <2>6, QueueType
<1> QED BY <1>1, <1>2, <1>3, <1>4, QueueSteps

\* The receive loop has a message in its hands unless it waits for one or has
\* exited.
LEMMA HandStep ==
  ASSUME IInv, Rest, [Next]_vars
  PROVE  main'.at \notin {"select", "exited"} => main'.msg \in Messages
<1> USE DEF Idle
<1>1. CASE main' = main BY <1>1 DEF Rest
<1>2. CASE main' = Idle BY <1>2
<1>3. ASSUME NEW m \in Messages, NEW at,
             main' = [at |-> at, msg |-> m, cleared |-> FALSE]
      PROVE  main'.msg \in Messages
  BY <1>3
<1>4. CASE main.at \in MainAt \ {"select", "exited"} /\ main'.msg = main.msg
  BY <1>4 DEF Rest
<1>5. CASE main'.at = "exited" BY <1>5
<1>6. main \in [at : MainAt, msg : Messages \cup {None}, cleared : BOOLEAN] BY DEF IInv, Typed
<1>7. CASE Receive
  BY <1>3, <1>7 DEF Receive, ReceiveClaim, ReceiveLoaded, ReceiveSystem, Rest
<1>8. CASE Main
  <2>1. CASE Enqueue \/ StopMark \/ MainExit
    BY <1>2, <1>5, <1>6, <2>1 DEF Enqueue, StopMark, MainExit
  <2>2. CASE StopClear BY <1>6, <2>2, <1>4 DEF StopClear, MainAt
  <2>3. CASE StopLookup
    <3>1. PICK at : main' = Idle \/ main' = [main EXCEPT !.at = at] BY <2>3 DEF StopLookup
    <3>2. main.at = "stopLookup" BY <2>3 DEF StopLookup
    <3> QED BY <1>2, <1>4, <1>6, <3>1, <3>2 DEF MainAt
  <2>4. CASE StopAbort \/ StopArm
    <3>1. PICK at : main' = Idle \/ main' = [main EXCEPT !.at = at] BY <2>4 DEF StopAbort, StopArm
    <3>2. main.at \in {"stopAbort", "stopArm"} BY <2>4 DEF StopAbort, StopArm
    <3> QED BY <1>2, <1>4, <1>6, <3>1, <3>2 DEF MainAt
  <2> QED BY <1>8, <2>1, <2>2, <2>3, <2>4 DEF Main
<1>9. ASSUME NEW m \in Messages, Worker(m) \/ PollSteering(m) \/ Panic(m)
      PROVE  main' = main \/ main' = Idle
  BY <1>9 DEF Worker, Admission, AcquireSlot, GiveUpWaiting, BailOut, BailRelease, StartProcessing,
       Processing, ProcessWithoutTurn, Processed, OwnStopClear, OwnStopLookup, OwnStopAbort,
       BeginTurn, RegisterTurn, EndFirstTurn, EndTurn, ClearCheck, ClearSkip, ClearDelete, AfterTurn,
       Draining, DrainCheck, ContinueClaim, ContinueLost, ContinueDequeue, ContinueAbandons,
       ResumeFails, BeginContinuation, EndContinuation, ClearSkip2, ClearDelete2, AfterContinuation,
       Leaving, ReleaseSlot, NetCheck, NetDelete, PollSteering, Panic
<1>10. CASE Shutdown \/ UNCHANGED vars
  BY <1>1, <1>10 DEF Shutdown, vars
<1> QED BY <1>1, <1>2, <1>7, <1>8, <1>9, <1>10 DEF Next

\* What a turn is told to do, and how it ends.
LEMMA FlagStep ==
  ASSUME IInv, Rest, [Next]_vars
  PROVE  /\ pendingStops' \subseteq Sessions /\ aborted' \subseteq Messages
         /\ outcome' \in [Messages -> Outcomes] /\ ctxDone' \in BOOLEAN
<1> USE AgentLoopAssumption DEF mapVars, turnVars
<1>0. Rest /\ \A s \in Sessions : active[s] # None => active[s].by \in Messages
  BY EntryType DEF IInv
<1>1. CASE UNCHANGED <<pendingStops, aborted, outcome, ctxDone>> BY <1>1 DEF Rest
<1>2. CASE Receive
  BY <1>1, <1>2 DEF Receive, ReceiveClaim, ReceiveLoaded, ReceiveSystem
<1>3. CASE Main
  <2>1. CASE StopMark
    <3>1. main.msg \in Messages BY <2>1 DEF StopMark, Rest
    <3> QED BY <2>1, <3>1 DEF StopMark, Rest
  <2>2. CASE StopAbort
    <3>1. main.msg \in Messages BY <2>2 DEF StopAbort, Rest
    <3>2. SessionOf[main.msg] \in Sessions BY <3>1
    <3>3. aborted' \subseteq Messages BY <1>0, <2>2, <3>2 DEF StopAbort, Rest
    <3> QED BY <2>2, <3>3 DEF StopAbort, Rest
  <2>3. CASE Enqueue \/ StopClear \/ StopLookup \/ StopArm \/ MainExit
    BY <1>1, <2>3 DEF Enqueue, StopClear, StopLookup, StopArm, MainExit
  <2> QED BY <1>3, <2>1, <2>2, <2>3 DEF Main
<1>4. CASE Shutdown BY <1>4 DEF Shutdown, Rest
<1>5. ASSUME NEW m \in Messages, Admission(m) PROVE pendingStops' \subseteq pendingStops
                                                   /\ UNCHANGED <<aborted, outcome, ctxDone>>
  BY <1>5 DEF Admission, AcquireSlot, GiveUpWaiting, BailOut, BailRelease, StartProcessing
<1>6. ASSUME NEW m \in Messages, NEW from, NEW to, NEW stopped, RegisterTurn(m, from, to, stopped)
      PROVE  /\ pendingStops' \subseteq Sessions /\ aborted' \subseteq Messages
             /\ outcome' \in [Messages -> Outcomes] /\ ctxDone' \in BOOLEAN
  <2>1. PICK out \in {"empty", "none"} : outcome' = [outcome EXCEPT ![m] = out]
    BY <1>6 DEF RegisterTurn
  <2>2. outcome' \in [Messages -> Outcomes] BY <2>1 DEF Rest, Outcomes
  <2> QED BY <1>6, <2>2 DEF RegisterTurn, Rest
<1>7. ASSUME NEW m \in Messages, NEW from, NEW to, NEW out \in Outcomes, EndTurn(m, from, to, out)
      PROVE  /\ pendingStops' \subseteq Sessions /\ aborted' \subseteq Messages
             /\ outcome' \in [Messages -> Outcomes] /\ ctxDone' \in BOOLEAN
  BY <1>7 DEF EndTurn, Rest
<1>8. ASSUME NEW m \in Messages, Processing(m)
      PROVE  /\ pendingStops' \subseteq Sessions /\ aborted' \subseteq Messages
             /\ outcome' \in [Messages -> Outcomes] /\ ctxDone' \in BOOLEAN
  <2>1. CASE OwnStopAbort(m)
    <3>1. aborted' \subseteq Messages BY <1>0, <2>1 DEF OwnStopAbort, Rest
    <3> QED BY <2>1, <3>1 DEF OwnStopAbort, Rest
  <2>2. CASE ProcessWithoutTurn(m) \/ OwnStopClear(m) \/ OwnStopLookup(m)
             \/ ClearCheck(m, "clear", "clearDelete") \/ ClearSkip(m) \/ ClearDelete(m)
    BY <1>1, <2>2 DEF ProcessWithoutTurn, OwnStopClear, OwnStopLookup, ClearCheck, ClearSkip, ClearDelete
  <2> QED BY <1>6, <1>7, <1>8, <2>1, <2>2 DEF Processing, BeginTurn, EndFirstTurn
<1>9. ASSUME NEW m \in Messages, Draining(m)
      PROVE  /\ pendingStops' \subseteq Sessions /\ aborted' \subseteq Messages
             /\ outcome' \in [Messages -> Outcomes] /\ ctxDone' \in BOOLEAN
  <2>1. CASE DrainCheck(m) \/ ContinueClaim(m) \/ ContinueLost(m) \/ ContinueDequeue(m)
             \/ ContinueAbandons(m) \/ ResumeFails(m)
             \/ ClearCheck(m, "clear2", "clearDelete2") \/ ClearSkip2(m) \/ ClearDelete2(m)
    BY <1>1, <2>1 DEF DrainCheck, ContinueClaim, ContinueLost, ContinueDequeue, ContinueAbandons,
                      ResumeFails, ClearCheck, ClearSkip2, ClearDelete2
  <2> QED BY <1>6, <1>7, <1>9, <2>1 DEF Draining, BeginContinuation, EndContinuation
<1>10. ASSUME NEW m \in Messages, Leaving(m) \/ Panic(m) \/ PollSteering(m)
       PROVE  UNCHANGED <<pendingStops, aborted, outcome, ctxDone>>
  BY <1>10 DEF Leaving, ReleaseSlot, NetCheck, NetDelete, Panic, PollSteering
<1>11. CASE UNCHANGED vars BY <1>1, <1>11 DEF vars
<1> QED BY <1>0, <1>1, <1>2, <1>3, <1>4, <1>5, <1>8, <1>9, <1>10, <1>11 DEF Next, Worker, Rest

LEMMA RestStep == IInv /\ Rest /\ [Next]_vars => Rest'
BY QueueStep, HandStep, FlagStep DEF Rest

LEMMA RestInit == Init => Rest /\ SlotInv
<1> SUFFICES ASSUME Init PROVE Rest /\ SlotInv OBVIOUS
<1> USE AgentLoopAssumption
<1>1. Rest
  <2>1. <<>> \in Seq(Messages) /\ Len(<<>>) = 0 BY EmptySeq
  <2>2. queue \in [Sessions -> Seq(Messages)] /\ \A s \in Sessions : Len(queue[s]) <= MaxQueueSize
    <3>1. queue = [s \in Sessions |-> <<>>] BY DEF Init
    <3>2. \A s \in Sessions : queue[s] = <<>> BY <3>1
    <3> QED BY <2>1, <3>1, <3>2
  <2>3. main.at = "select" BY DEF Init, Idle
  <2> QED BY <2>2, <2>3 DEF Init, Rest, Outcomes
<1>2. SlotsAreUsed BY DEF Init, SlotsAreUsed, SlotPc, WorkerPc
<1>3. Cardinality(sem) <= MaxParallelTurns
  <2>1. Cardinality({}) = 0 BY FS_EmptySet
  <2> QED BY <2>1 DEF Init
<1> QED BY <1>1, <1>2, <1>3 DEF SlotInv

\* The steering queues never hold more than their capacity, and everything else
\* the receive loop and the workers keep has its type.
THEOREM AgentLoopTypes == Spec => []TypeOK
<1>1. IInv /\ Rest /\ SlotInv => TypeOK
  BY AgentLoopAssumption DEF IInv, Typed, Rest, SlotInv, SlotsAreUsed, TypeOK, FinalPc
<1> QED BY <1>1, InvariantHolds, RestInit, RestStep, SlotStep, PTL DEF Spec

\* No slot of workerSem is lost, whatever panics, bails out or gives up waiting,
\* and there are never more workers at work than slots: with any number of
\* messages, the slots taken are exactly those of the workers between
\* AcquireSlot and ReleaseSlot.
THEOREM SlotsAreUsedHolds == Spec => [](SlotsAreUsed /\ Cardinality(sem) <= MaxParallelTurns)
<1>1. SlotInv => SlotsAreUsed /\ Cardinality(sem) <= MaxParallelTurns BY DEF SlotInv
<1> QED BY <1>1, InvariantHolds, RestInit, SlotStep, PTL DEF Spec
================================================================================
