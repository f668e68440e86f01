---------------------------- MODULE TurnLoopProof ----------------------------
(***************************************************************************)
(* A turn, for any limits, steering, SubTurn results, retries and hooks.    *)
(*                                                                          *)
(* Two bounds: how many iterations it can make, and how many tools can      *)
(* start after a graceful interrupt.                                        *)
(*                                                                          *)
(* The iterations beyond the limit are paid for: each one takes a steering  *)
(* message out of the turn's hands, or uses the interrupt up (Paid).  After *)
(* an interrupt a tool starts at most once, for its result skips the rest   *)
(* of the response, and the next call of the model is the last (Late).      *)
(*                                                                          *)
(* Its conversation, as long as nothing is compacted: an abort restores the *)
(* history (Restorable), steering is neither lost nor out of order          *)
(* (Steering), and every tool call has one result (Talk).  Each of these is *)
(* about sequences that grow at the end, and rests on where the turn is     *)
(* while they do (Places).  And when it is compacted: a cut of the session  *)
(* never comes between a call and its results (Cuttable), and what is       *)
(* rebuilt from it answers every call too (Heard).                          *)
(*                                                                          *)
(* And every variable keeps its type, whatever is compacted (Flags, Bounds, *)
(* Convs).                                                                  *)
(***************************************************************************)
EXTENDS TurnLoop, SequenceTheorems, FiniteSetTheorems, WellFoundedInduction, TLAPS

\* The steering messages the turn has put into the conversation.
Injected == arrived - Len(queue) - Len(execPend)

\* The interrupt lets a turn begin one iteration, at whose call it is used up.
Granted == IF graceful = "used" \/ (graceful = "requested" /\ pc = "llm") THEN 1 ELSE 0

Typed ==
  /\ pc \in Pcs
  /\ {iteration, calls, next, lateTools, arrived} \subseteq Nat
  /\ queue \in Seq(Items) /\ execPend \in Seq(Items)
  /\ graceful \in {"no", "requested", "used"}

Paid == 0 <= Injected /\ iteration <= MaxIterations + Injected + Granted

\* Where a turn with a late tool and an interrupt not yet used can be: it has
\* no tool to start, and no call to the model behind it.
Spent == pc \in Pcs \ {"new", "call", "backoff", "response"} /\ (pc = "tools" => next > calls)

Late == lateTools = 0 \/ (lateTools = 1 /\ (graceful = "used" \/ (graceful = "requested" /\ Spent)))

IInv == Typed /\ Paid /\ Late

-----------------------------------------------------------------------------
LEMMA Numbers ==
  ASSUME Typed
  PROVE  /\ iteration \in Nat /\ arrived \in Nat /\ MaxIterations \in Nat \ {0}
         /\ Len(queue) \in Nat /\ Len(execPend) \in Nat /\ Injected \in Int
         /\ Granted \in {0, 1}
<1>1. Len(queue) \in Nat /\ Len(execPend) \in Nat BY LenProperties DEF Typed
<1>2. iteration \in Nat /\ arrived \in Nat /\ MaxIterations \in Nat \ {0}
  BY TurnLoopAssumption DEF Typed
<1> QED BY <1>1, <1>2 DEF Injected, Granted

LEMMA SteerItem == ASSUME NEW n \in Nat PROVE Steer(n) \in Items
  BY DEF Steer, Items, Kinds

\* Dequeuing splits the queue.
LEMMA Dequeued ==
  ASSUME queue \in Seq(Items)
  PROVE  /\ Taken \in Seq(Items) /\ Untaken \in Seq(Items)
         /\ Len(Taken) + Len(Untaken) = Len(queue)
<1>1. CASE queue = <<>>
  <2>1. Taken = <<>> /\ Untaken = <<>>
    BY <1>1, SubSeqProperties DEF Taken, Untaken
  <2> QED BY <1>1, <2>1
<1>2. CASE queue # <<>> /\ SteeringAll
  BY <1>2, EmptySeq DEF Taken, Untaken
<1>3. CASE queue # <<>> /\ ~SteeringAll
  <2>1. Len(queue) \in Nat /\ Len(queue) >= 1 BY <1>3, EmptySeq
  <2>2. Taken = SubSeq(queue, 1, 1) /\ Untaken = Tail(queue)
    BY <1>3 DEF Taken, Untaken
  <2>3. Taken \in Seq(Items) /\ Len(Taken) = 1
    BY <2>1, <2>2, SubSeqProperties
  <2>4. Untaken \in Seq(Items) /\ Len(Untaken) = Len(queue) - 1
    BY <1>3, <2>2, HeadTailProperties
  <2> QED BY <2>1, <2>3, <2>4
<1> QED BY <1>1, <1>2, <1>3

\* Depositing what was dequeued loses none of it.
LEMMA Deposited ==
  ASSUME Typed
  PROVE  /\ Deposit \in Seq(Items) /\ Untaken \in Seq(Items)
         /\ Len(Deposit) + Len(Untaken) = Len(execPend) + Len(queue)
<1>1. Taken \in Seq(Items) /\ Untaken \in Seq(Items)
      /\ Len(Taken) + Len(Untaken) = Len(queue)
  BY Dequeued DEF Typed
<1>2. Deposit \in Seq(Items) /\ Len(Deposit) = Len(execPend) + Len(Taken)
  BY <1>1, ConcatProperties DEF Deposit, Typed
<1>3. {Len(Taken), Len(Untaken), Len(queue), Len(execPend)} \subseteq Nat
  BY <1>1, LenProperties DEF Typed
<1> QED BY <1>1, <1>2, <1>3

LEMMA IInvInit == Init => IInv
<1> SUFFICES ASSUME Init PROVE IInv OBVIOUS
<1> USE TurnLoopAssumption
<1>1. Initial \in Seq(Items) /\ Len(Initial) = InitialSteering
  <2>1. InitialSteering \in Nat OBVIOUS
  <2>2. \A n \in 1..InitialSteering : Steer(n) \in Items BY <2>1, SteerItem
  <2> QED BY <2>1, <2>2, IsASeq DEF Initial
<1>2. Len(<<>>) = 0 /\ <<>> \in Seq(Items) BY EmptySeq
<1>3. Typed BY <1>1, <1>2 DEF Init, Typed, Pcs
<1>4. Paid BY <1>1, <1>2 DEF Init, Paid, Injected, Granted
<1>5. Late BY DEF Init, Late
<1> QED BY <1>3, <1>4, <1>5 DEF IInv

-----------------------------------------------------------------------------
ledger == <<iteration, queue, execPend, arrived>>
tools == <<calls, next, lateTools>>

\* A step that only moves the turn on, and does not take it back to where a
\* tool or the model is called.
LEMMA Quiet ==
  ASSUME IInv, UNCHANGED <<ledger, tools, graceful>>, pc' \in Pcs,
         pc = "llm" => pc' = "llm", Spent => Spent'
  PROVE  IInv'
<1>1. Typed' BY DEF IInv, Typed, ledger, tools
<1>2. Injected' = Injected BY DEF Injected, ledger
<1>3. Granted' >= Granted BY DEF Granted
<1>4. Paid'
  <2>1. iteration' = iteration BY DEF ledger
  <2>2. Granted \in {0, 1} /\ Granted' \in {0, 1} BY DEF Granted
  <2> QED BY <1>2, <1>3, <2>1, <2>2, Numbers DEF IInv, Paid
<1>5. Late' BY DEF IInv, Late, tools
<1> QED BY <1>1, <1>4, <1>5 DEF IInv

\* One more iteration, for one more message or for the interrupt.
LEMMA PaidFor ==
  ASSUME NEW it \in Nat, NEW max \in Nat, NEW in \in Int, NEW in1 \in Int, NEW g \in Int,
         NEW g1 \in Int, it <= max + in + g, in <= in1, g <= g1, 0 <= in, 0 <= g,
         it < max \/ in < in1 \/ g < g1
  PROVE  it + 1 <= max + in1 + g1
OBVIOUS

LEMMA CoordinatorKeeps == ASSUME IInv, Coordinator PROVE IInv'
<1> USE DEF Goto, End, ledger, tools, controlVars, inputVars, graceVars, resultVars
<1>1. CASE SeesHardAbort \/ AbortTurn \/ ExhaustIterations \/ Finalize \/ FinalizeFails
             \/ FinalizeHandled
  <2>1. /\ UNCHANGED <<ledger, tools, graceful>> /\ pc' \in Pcs
        /\ pc # "llm" /\ pc' \in {"abort", "ended", "finalize"}
    BY <1>1 DEF SeesHardAbort, AbortTurn, ExhaustIterations, Finalize, FinalizeFails,
                FinalizeHandled, Pcs
  <2>2. Spent => Spent' BY <2>1 DEF Spent, Pcs
  <2> QED BY <2>1, <2>2, Quiet
<1>2. CASE SetupTurn
  <2>1. UNCHANGED <<ledger, tools, graceful>> /\ pc = "new" /\ pc' \in {"head", "ended"}
    BY <1>2 DEF SetupTurn
  <2>2. Spent => Spent' BY <2>1 DEF Spent
  <2> QED BY <2>1, <2>2, Quiet DEF Pcs
<1>3. CASE BeginIteration
  <2>1. /\ pc = "head" /\ pc' = "llm" /\ MoreIterations /\ iteration' = iteration + 1
        /\ UNCHANGED <<tools, arrived, graceful>> /\ execPend' = <<>>
    BY <1>3 DEF BeginIteration
  <2>2. queue' = queue \/ queue' = Untaken BY <1>3 DEF BeginIteration
  <2>3. /\ queue' \in Seq(Items) /\ Len(queue') <= Len(queue)
        /\ {Len(queue), Len(queue'), Len(execPend)} \subseteq Nat
    <3>1. Untaken \in Seq(Items) /\ Taken \in Seq(Items)
          /\ Len(Taken) + Len(Untaken) = Len(queue)
      BY Dequeued DEF IInv, Typed
    <3>2. {Len(queue), Len(Untaken), Len(Taken), Len(execPend)} \subseteq Nat
      BY <3>1, LenProperties DEF IInv, Typed
    <3> QED BY <2>2, <3>1, <3>2 DEF IInv, Typed
  <2>4. execPend' \in Seq(Items) /\ Len(execPend') = 0 BY <2>1, EmptySeq
  <2>5. Typed' BY <2>1, <2>3, <2>4 DEF IInv, Typed, Pcs
  <2>6. Injected' >= Injected + Len(execPend) /\ Injected \in Int /\ Injected' \in Int
    BY <2>1, <2>3, <2>4 DEF Injected, IInv, Typed
  <2>7. Paid'
    <3>0. iteration \in Nat /\ MaxIterations \in Nat \ {0} /\ Len(execPend) \in Nat
          /\ 0 <= Injected /\ iteration <= MaxIterations + Injected + Granted
      BY Numbers DEF IInv, Paid
    <3>1. /\ Granted \in {0, 1} /\ Granted' \in {0, 1} /\ Granted <= Granted'
          /\ GracefulPending => Granted = 0 /\ Granted' = 1
      BY <2>1 DEF Granted, GracefulPending, IInv, Typed
    <3>2. 0 <= Injected' BY <2>6, <3>0
    <3>3. Injected <= Injected' /\ (execPend # <<>> => Injected < Injected')
      <4>1. execPend # <<>> => Len(execPend) >= 1 BY EmptySeq DEF IInv, Typed
      <4> QED BY <2>6, <3>0, <4>1
    <3>4. iteration < MaxIterations \/ Injected < Injected' \/ Granted < Granted'
      <4>1. GracefulPending => Granted < Granted' BY <3>1
      <4> QED BY <2>1, <3>3, <4>1 DEF MoreIterations
    <3>5. /\ {Granted, Granted', Injected, Injected'} \subseteq Int /\ MaxIterations \in Nat
          /\ 0 <= Granted
      BY <2>6, <3>0, <3>1
    <3>6. iteration + 1 <= MaxIterations + Injected' + Granted'
      BY <3>0, <3>1, <3>3, <3>4, <3>5, PaidFor
    <3> QED BY <2>1, <3>2, <3>6 DEF Paid
  <2>8. Late' BY <2>1 DEF IInv, Late, Spent, Pcs
  <2> QED BY <2>5, <2>7, <2>8 DEF IInv
<1> QED BY <1>1, <1>2, <1>3 DEF Coordinator

LEMMA LlmKeeps == ASSUME IInv, Llm PROVE IInv'
<1> USE DEF Goto, End, ledger, tools, controlVars, inputVars, graceVars, resultVars
<1>1. CASE CallAnswered \/ CallCanceled \/ CallFails \/ CallTransient \/ Backoff
             \/ BackoffAborted \/ BackoffCanceled \/ CallOverflows
  <2>1. /\ UNCHANGED <<ledger, tools, graceful>> /\ pc' \in Pcs
        /\ pc \in {"call", "backoff"}
    BY <1>1 DEF CallAnswered, CallCanceled, CallFails, CallTransient, Backoff, BackoffAborted,
                BackoffCanceled, CallOverflows, HookIntervenes, Pcs
  <2>2. ~ Spent BY <2>1 DEF Spent
  <2> QED BY <2>1, <2>2, Quiet
<1>2. CASE PrepareCall
  <2>1. /\ pc = "llm" /\ pc' \in {"call", "ended", "abort"}
        /\ UNCHANGED <<ledger, tools>>
        /\ graceful' = IF GracefulPending THEN "used" ELSE graceful
    BY <1>2 DEF PrepareCall, HookIntervenes
  <2>2. Typed' BY <2>1 DEF IInv, Typed, Pcs
  <2>3. Injected' = Injected /\ Granted' = Granted
    BY <2>1 DEF Injected, Granted, GracefulPending, IInv, Typed
  <2>4. Paid' BY <2>1, <2>3 DEF IInv, Paid
  <2>5. Late' BY <2>1 DEF IInv, Late, GracefulPending
  <2> QED BY <2>2, <2>4, <2>5 DEF IInv
<1>3. CASE Answered
  <2>1. /\ pc = "response" /\ pc' \in {"head", "finalize"}
        /\ UNCHANGED <<iteration, arrived, tools, graceful>>
        /\ UNCHANGED <<queue, execPend>> \/ (queue' = Untaken /\ execPend' = Deposit)
    BY <1>3 DEF Answered, Deposit
  <2>2. /\ queue' \in Seq(Items) /\ execPend' \in Seq(Items)
        /\ Len(execPend') + Len(queue') = Len(execPend) + Len(queue)
    BY <2>1, Deposited DEF IInv, Typed
  <2>3. {Len(queue), Len(queue'), Len(execPend), Len(execPend')} \subseteq Nat
    BY <2>2, LenProperties DEF IInv, Typed
  <2>4. Typed' BY <2>1, <2>2 DEF IInv, Typed, Pcs
  <2>5. Injected' = Injected /\ Granted' = Granted
    <3>1. arrived' = arrived /\ arrived \in Nat BY <2>1, Numbers DEF IInv
    <3>2. arrived' - Len(queue') - Len(execPend') = arrived - Len(queue) - Len(execPend)
      BY <2>2, <2>3, <3>1
    <3> QED BY <2>1, <3>2 DEF Injected, Granted
  <2>6. Paid' BY <2>1, <2>5 DEF IInv, Paid
  <2>7. Late' BY <2>1 DEF IInv, Late, Spent
  <2> QED BY <2>4, <2>6, <2>7 DEF IInv
<1>4. CASE ToolCalls
  <2>1. /\ pc = "response" /\ pc' = "tools" /\ calls' \in Nat /\ next' = 1
        /\ UNCHANGED <<ledger, lateTools, graceful>>
    BY <1>4, TurnLoopAssumption DEF ToolCalls
  <2>2. Typed' BY <2>1 DEF IInv, Typed, Pcs
  <2>3. Injected' = Injected /\ Granted' = Granted BY <2>1 DEF Injected, Granted
  <2>4. Paid' BY <2>1, <2>3 DEF IInv, Paid
  <2>5. Late' BY <2>1 DEF IInv, Late, Spent
  <2> QED BY <2>2, <2>4, <2>5 DEF IInv
<1> QED BY <1>1, <1>2, <1>3, <1>4 DEF Llm

\* What a result does to the steering, and to the tools after it.
LEMMA ResultKeeps ==
  ASSUME IInv, NEW handled, ToolResult(handled), pc \in {"tools", "running"}, ~ Spent \/ pc = "running"
  PROVE  IInv'
<1>1. /\ pc' = "tools" /\ queue' = Untaken /\ execPend' = Deposit
      /\ UNCHANGED <<iteration, arrived, calls, lateTools, graceful>>
      /\ next' \in {calls + 1, next + 1}
      /\ GracefulPending => next' = calls + 1
  BY DEF ToolResult, SkipsRest, Goto, graceVars
<1>2. /\ queue' \in Seq(Items) /\ execPend' \in Seq(Items)
      /\ Len(execPend') + Len(queue') = Len(execPend) + Len(queue)
  BY <1>1, Deposited DEF IInv
<1>3. {Len(queue), Len(queue'), Len(execPend), Len(execPend')} \subseteq Nat
  BY <1>2, LenProperties DEF IInv, Typed
<1>4. Typed' BY <1>1, <1>2 DEF IInv, Typed, Pcs
<1>5. Injected' = Injected /\ Granted' = Granted
  BY <1>1, <1>2, <1>3 DEF Injected, Granted, IInv, Typed
<1>6. Paid' BY <1>1, <1>5 DEF IInv, Paid
<1>7. Late' BY <1>1 DEF IInv, Typed, Late, Spent, GracefulPending, Pcs
<1> QED BY <1>4, <1>6, <1>7 DEF IInv

LEMMA ToolsKeep == ASSUME IInv, Tools PROVE IInv'
<1> USE DEF Goto, End, ledger, tools, controlVars, inputVars, graceVars, resultVars
<1>1. CASE ToolHookAborts \/ ToolReturnsToHook
  <2>1. /\ UNCHANGED <<ledger, tools, graceful>>
        /\ pc \in {"tools", "running"} /\ pc' \in {"ended", "abort"}
    BY <1>1 DEF ToolHookAborts, ToolReturnsToHook, HookIntervenes, AtTool
  <2>2. Spent => Spent' BY <2>1 DEF Spent, Pcs
  <2> QED BY <2>1, <2>2, Quiet DEF Pcs
<1>2. CASE ToolDenied
  <2>1. /\ AtTool /\ next' = next + 1
        /\ UNCHANGED <<pc, ledger, calls, lateTools, graceful>>
    BY <1>2 DEF ToolDenied
  <2>2. Typed' BY <2>1 DEF IInv, Typed
  <2>3. Injected' = Injected /\ Granted' = Granted BY <2>1 DEF Injected, Granted
  <2>4. Paid' BY <2>1, <2>3 DEF IInv, Paid
  <2>5. ~ Spent BY <2>1 DEF IInv, Typed, Spent, AtTool
  <2>6. Late' BY <2>1, <2>5 DEF IInv, Late
  <2> QED BY <2>2, <2>4, <2>6 DEF IInv
<1>3. CASE ToolStarts
  <2>1. /\ AtTool /\ pc' = "running" /\ UNCHANGED <<ledger, calls, next, graceful>>
        /\ lateTools' = IF GracefulPending THEN lateTools + 1 ELSE lateTools
    BY <1>3 DEF ToolStarts
  <2>2. Typed' BY <2>1 DEF IInv, Typed, Pcs
  <2>3. Injected' = Injected /\ Granted' = Granted BY <2>1 DEF Injected, Granted, AtTool
  <2>4. Paid' BY <2>1, <2>3 DEF IInv, Paid
  <2>5. ~ Spent BY <2>1 DEF IInv, Typed, Spent, AtTool
  <2>6. Spent' BY <2>1 DEF Spent, Pcs
  <2>7. Late' BY <2>1, <2>5, <2>6 DEF IInv, Late, GracefulPending
  <2> QED BY <2>2, <2>4, <2>7 DEF IInv
<1>4. CASE ToolRespondedByHook
  <2>1. AtTool /\ ~ Spent BY <1>4 DEF ToolRespondedByHook, AtTool, IInv, Typed, Spent
  <2>2. PICK handled \in BOOLEAN : ToolResult(handled) BY <1>4 DEF ToolRespondedByHook
  <2> QED BY <2>1, <2>2, ResultKeeps DEF AtTool
<1>5. CASE ToolReturns
  <2>1. PICK handled \in BOOLEAN : ToolResult(handled) BY <1>5 DEF ToolReturns
  <2> QED BY <1>5, <2>1, ResultKeeps DEF ToolReturns
<1>6. CASE ToolsContinue
  <2>1. /\ pc = "tools" /\ pc' = "head"
        /\ UNCHANGED <<iteration, arrived, tools, graceful>>
        /\ UNCHANGED <<queue, execPend>>
             \/ (execPend = <<>> /\ queue' = Untaken /\ execPend' = Taken)
    BY <1>6 DEF ToolsContinue
  <2>2. /\ queue' \in Seq(Items) /\ execPend' \in Seq(Items)
        /\ Len(execPend') + Len(queue') = Len(execPend) + Len(queue)
    <3>1. queue \in Seq(Items) /\ execPend \in Seq(Items) BY DEF IInv, Typed
    <3>2. Taken \in Seq(Items) /\ Untaken \in Seq(Items)
          /\ Len(Taken) + Len(Untaken) = Len(queue)
      BY <3>1, Dequeued
    <3>3. Len(queue) \in Nat /\ Len(Taken) \in Nat /\ Len(Untaken) \in Nat
      BY <3>1, <3>2, LenProperties
    <3>4. execPend = <<>> => Len(execPend) = 0 BY EmptySeq
    <3>5. CASE UNCHANGED <<queue, execPend>> BY <3>1, <3>5
    <3>6. CASE execPend = <<>> /\ queue' = Untaken /\ execPend' = Taken
      <4>1. Len(execPend') + Len(queue') = Len(queue) BY <3>2, <3>3, <3>6
      <4> QED BY <3>2, <3>3, <3>4, <3>6, <4>1
    <3> QED BY <2>1, <3>5, <3>6
  <2>3. {Len(queue), Len(queue'), Len(execPend), Len(execPend')} \subseteq Nat
    BY <2>2, LenProperties DEF IInv, Typed
  <2>4. Typed' BY <2>1, <2>2 DEF IInv, Typed, Pcs
  <2>5. Injected' = Injected /\ Granted' = Granted
    <3>1. Injected' = Injected BY <2>1, <2>2, <2>3, Numbers DEF Injected, IInv
    <3> QED BY <2>1, <3>1 DEF Granted
  <2>6. Paid' BY <2>1, <2>5 DEF IInv, Paid
  <2>7. Late' BY <2>1 DEF IInv, Late, Spent, Pcs
  <2> QED BY <2>4, <2>6, <2>7 DEF IInv
<1>7. CASE ToolsHandled
  <2>1. /\ pc = "tools" /\ pc' = "handled" /\ UNCHANGED <<ledger, tools, graceful>>
    BY <1>7 DEF ToolsHandled
  <2>2. Spent => Spent' BY <2>1 DEF Spent, Pcs
  <2> QED BY <2>1, <2>2, Quiet DEF Pcs
<1> QED BY <1>1, <1>2, <1>3, <1>4, <1>5, <1>6, <1>7 DEF Tools

LEMMA OthersKeep ==
  ASSUME IInv, SteerArrives \/ Interrupt \/ HardAbortSteps \/ UNCHANGED vars
  PROVE  IInv'
<1> USE DEF ledger, tools, controlVars, inputVars, graceVars, resultVars
<1>1. CASE SteerArrives
  <2>1. /\ arrived' = arrived + 1 /\ queue' = Append(queue, Steer(arrived + 1))
        /\ UNCHANGED <<pc, iteration, execPend, tools, graceful>>
    BY <1>1 DEF SteerArrives
  <2>2. Steer(arrived + 1) \in Items BY SteerItem DEF IInv, Typed
  <2>3. queue' \in Seq(Items) /\ Len(queue') = Len(queue) + 1
    BY <2>1, <2>2, AppendProperties DEF IInv, Typed
  <2>4. Len(queue) \in Nat /\ Len(execPend) \in Nat BY LenProperties DEF IInv, Typed
  <2>5. Typed' BY <2>1, <2>3 DEF IInv, Typed
  <2>6. Injected' = Injected /\ Granted' = Granted
    BY <2>1, <2>3, <2>4 DEF Injected, Granted, IInv, Typed
  <2>7. Paid' BY <2>1, <2>6 DEF IInv, Paid
  <2>8. Late' BY <2>1 DEF IInv, Late, Spent
  <2> QED BY <2>5, <2>7, <2>8 DEF IInv
<1>2. CASE Interrupt
  <2>1. /\ graceful = "no" /\ graceful' = "requested"
        /\ UNCHANGED <<pc, ledger, tools>>
    BY <1>2 DEF Interrupt
  <2>2. Typed' BY <2>1 DEF IInv, Typed
  <2>3. Injected' = Injected /\ Injected \in Int /\ Granted = 0 /\ Granted' \in {0, 1}
    <3>1. Len(queue) \in Nat /\ Len(execPend) \in Nat BY LenProperties DEF IInv, Typed
    <3> QED BY <2>1, <3>1 DEF Injected, Granted, IInv, Typed
  <2>4. Paid'
    <3>1. 0 <= Injected /\ iteration <= MaxIterations + Injected + Granted /\ iteration' = iteration
      BY <2>1 DEF IInv, Paid
    <3>2. iteration \in Nat /\ MaxIterations \in Nat BY TurnLoopAssumption DEF IInv, Typed
    <3>3. iteration <= MaxIterations + Injected BY <2>3, <3>1, <3>2
    <3>4. Injected \in Int /\ (Granted' = 0 \/ Granted' = 1) BY <2>3
    <3>5. iteration <= MaxIterations + Injected + Granted' BY <3>2, <3>3, <3>4
    <3> QED BY <2>3, <3>1, <3>5 DEF Paid
  <2>5. Late' BY <2>1 DEF IInv, Late
  <2> QED BY <2>2, <2>4, <2>5 DEF IInv
<1>3. CASE HardAbortSteps \/ UNCHANGED vars
  <2>1. UNCHANGED <<pc, ledger, tools, graceful>>
    BY <1>3 DEF HardAbortSteps, HardAbortRequest, HardAbortRead, HardAbortCut, vars
  <2>2. Spent => Spent' BY <2>1 DEF Spent
  <2> QED BY <2>1, <2>2, Quiet DEF IInv, Typed
<1> QED BY <1>1, <1>2, <1>3

\* Whatever mix of steering, hooks, retries and interrupts: what every
\* iteration beyond the limit was paid with, and where an interrupted turn
\* can still be.
THEOREM InvariantHolds == Spec => []IInv
<1>1. ASSUME IInv, [Next]_vars PROVE IInv'
  BY <1>1, CoordinatorKeeps, LlmKeeps, ToolsKeep, OthersKeep DEF Next
<1> QED BY IInvInit, <1>1, PTL DEF Spec

\* runTurn's loop ends for any limit: an iteration beyond MaxIterations takes
\* a steering message with it, or the one interrupt.
THEOREM IterationsAreBoundedHolds == Spec => []IterationsAreBounded
<1>1. IInv => IterationsAreBounded
  <2> SUFFICES ASSUME IInv PROVE IterationsAreBounded OBVIOUS
  <2>1. Len(queue) \in Nat /\ Len(execPend) \in Nat BY LenProperties DEF IInv, Typed
  <2>2. Injected <= arrived /\ Injected \in Int BY <2>1 DEF Injected, IInv, Typed
  <2>3. Granted <= (IF graceful = "no" THEN 0 ELSE 1) /\ Granted \in {0, 1} BY DEF Granted
  <2>4. /\ iteration \in Nat /\ arrived \in Nat /\ MaxIterations \in Nat
        /\ iteration <= MaxIterations + Injected + Granted
    BY TurnLoopAssumption DEF IInv, Paid, Typed
  <2>5. CASE graceful = "no"
    <3>1. iteration <= MaxIterations + arrived
      <4> HIDE DEF Injected, Granted
      <4> QED BY <2>2, <2>3, <2>4, <2>5
    <3> QED BY <2>4, <2>5, <3>1 DEF IterationsAreBounded
  <2>6. CASE graceful # "no"
    <3>1. iteration <= MaxIterations + arrived + 1
      <4> HIDE DEF Injected, Granted
      <4> QED BY <2>2, <2>3, <2>4, <2>6
    <3> QED BY <2>4, <2>6, <3>1 DEF IterationsAreBounded
  <2> QED BY <2>5, <2>6
<1> QED BY <1>1, InvariantHolds, PTL

\* A graceful interrupt lets one tool start at most, however many calls the
\* response has and wherever in ExecuteTools it arrives.
THEOREM InterruptStopsToolsHolds == Spec => []InterruptStopsTools
<1>1. IInv => InterruptStopsTools BY DEF IInv, Late, InterruptStopsTools
<1> QED BY <1>1, InvariantHolds, PTL
-----------------------------------------------------------------------------
(***************************************************************************)
(* Where a turn is, and what it holds there.                                *)
(***************************************************************************)
InCall == {"llm", "call", "backoff", "response"}
InTools == {"tools", "running"}

\* exec.pendingMessages is empty from the injection at the head of the loop
\* until a response or a tool result deposits steering; the coordinator's copy
\* is empty or the same.
Places ==
  /\ pc \in InCall \cup {"finalize", "handled"} => execPend = <<>>
  /\ pc \in InCall \cup InTools => pend = <<>>
  /\ pend \in {<<>>, execPend}
  /\ iteration = 0 => /\ pc \in {"new", "head", "abort", "ended"}
                      /\ pend = execPend
                      /\ InitialSteering = 0 => execPend = <<>>
  /\ pc = "new" => /\ messages = <<>> /\ history = Old
                   /\ aborter = "read" => snapshot = Old
  /\ pc \in InTools => next <= calls + 1
  /\ pc = "running" => next <= calls
  /\ status = "running" <=> pc # "ended"
  /\ status = "completed" => execPend = <<>>
  /\ subs \in Nat

LEMMA SubCount ==
  ASSUME subs \in Nat, NEW sub \in SubResult PROVE subs + Len(sub) \in Nat
<1>1. sub = <<>> \/ sub = << <<"sub", subs + 1, 0>> >> BY DEF SubResult
<1> QED BY <1>1

LEMMA PlacesInit == Init => Places
<1> SUFFICES ASSUME Init PROVE Places OBVIOUS
<1>1. InitialSteering = 0 => Initial = <<>> BY DEF Initial
<1> QED BY <1>1 DEF Init, Places, InCall, InTools

LEMMA CoordinatorPlaces ==
  ASSUME IInv, Places, Coordinator PROVE Places'
<1> USE DEF Places, InCall, InTools, Goto, End, controlVars, convVars, inputVars, graceVars,
            abortVars, resultVars
<1>1. CASE SeesHardAbort BY <1>1 DEF SeesHardAbort
<1>2. CASE AbortTurn BY <1>2 DEF AbortTurn
<1>3. CASE SetupTurn BY <1>3 DEF SetupTurn
<1>4. CASE BeginIteration
  <2>1. iteration' # 0 BY <1>4, Numbers DEF BeginIteration, IInv
  <2>2. pend' = <<>> /\ execPend' = <<>> /\ pc' = "llm" /\ UNCHANGED status
    BY <1>4 DEF BeginIteration
  <2>3. subs' \in Nat BY <1>4, SubCount DEF BeginIteration
  <2> QED BY <1>4, <2>1, <2>2, <2>3 DEF BeginIteration
<1>5. CASE ExhaustIterations
  <2>1. iteration # 0 /\ execPend = <<>>
    BY <1>5, Numbers DEF ExhaustIterations, MoreIterations, IInv
  <2> QED BY <1>5, <2>1 DEF ExhaustIterations
<1>6. CASE Finalize BY <1>6 DEF Finalize, Say
<1>7. CASE FinalizeFails BY <1>7 DEF FinalizeFails, Say
<1>8. CASE FinalizeHandled BY <1>8 DEF FinalizeHandled
<1> QED BY <1>1, <1>2, <1>3, <1>4, <1>5, <1>6, <1>7, <1>8 DEF Coordinator

LEMMA LlmPlaces ==
  ASSUME IInv, Places, Llm PROVE Places'
<1> USE DEF Places, InCall, InTools, Goto, End, controlVars, convVars, inputVars, graceVars,
            abortVars, resultVars, HookIntervenes
<1>1. CASE PrepareCall BY <1>1 DEF PrepareCall
<1>2. CASE CallAnswered BY <1>2 DEF CallAnswered
<1>3. CASE CallCanceled BY <1>3 DEF CallCanceled
<1>4. CASE CallFails BY <1>4 DEF CallFails
<1>5. CASE CallTransient BY <1>5 DEF CallTransient
<1>6. CASE Backoff BY <1>6 DEF Backoff
<1>7. CASE BackoffAborted BY <1>7 DEF BackoffAborted
<1>8. CASE BackoffCanceled BY <1>8 DEF BackoffCanceled
<1>9. CASE CallOverflows
  <2>1. /\ pc = "call" /\ pc' \in {"call", "ended"} /\ status' # "completed"
        /\ pc' = "ended" <=> status' # "running"
        /\ UNCHANGED <<iteration, pend, execPend, next, calls, subs>>
    BY <1>9 DEF CallOverflows
  <2> QED BY <2>1
<1>10. CASE Answered BY <1>10 DEF Answered
<1>11. CASE ToolCalls
  <2>1. PICK n \in 1..MaxCalls : calls' = n BY <1>11 DEF ToolCalls
  <2>2. /\ pc = "response" /\ pc' = "tools" /\ next' = 1 /\ pend' = execPend
        /\ UNCHANGED <<iteration, execPend, status, subs>>
    BY <1>11 DEF ToolCalls
  <2>3. next' <= calls' + 1 BY <2>1, <2>2, TurnLoopAssumption
  <2> QED BY <2>2, <2>3
<1> QED BY <1>1, <1>2, <1>3, <1>4, <1>5, <1>6, <1>7, <1>8, <1>9, <1>10, <1>11 DEF Llm

LEMMA ToolsPlaces ==
  ASSUME IInv, Places, Tools PROVE Places'
<1> USE DEF Places, InCall, InTools, Goto, End, controlVars, convVars, inputVars, graceVars,
            abortVars, resultVars, HookIntervenes, AtTool
<1>0. {next, calls} \subseteq Nat BY DEF IInv, Typed
<1>1. CASE ToolDenied
  <2>1. pc' = "tools" /\ next' <= calls' + 1 BY <1>0, <1>1 DEF ToolDenied
  <2> QED BY <1>1, <2>1 DEF ToolDenied
<1>2. CASE ToolHookAborts BY <1>2 DEF ToolHookAborts
<1>3. CASE ToolStarts BY <1>0, <1>3 DEF ToolStarts
<1>4. CASE ToolRespondedByHook \/ ToolReturns
  <2>1. PICK handled \in BOOLEAN : ToolResult(handled)
    BY <1>4 DEF ToolRespondedByHook, ToolReturns
  <2>2. next <= calls /\ pc \in InTools
    BY <1>4 DEF ToolRespondedByHook, ToolReturns
  <2>3. /\ pc' = "tools" /\ UNCHANGED <<iteration, calls, pend, status>>
        /\ next' \in {next + 1, calls + 1}
    BY <2>1 DEF ToolResult
  <2>4. next' <= calls' + 1 BY <1>0, <2>2, <2>3
  <2>5. subs' \in Nat BY <2>1, SubCount DEF ToolResult
  <2> QED BY <2>2, <2>3, <2>4, <2>5
<1>5. CASE ToolReturnsToHook BY <1>5 DEF ToolReturnsToHook
<1>6. CASE ToolsContinue BY <1>6 DEF ToolsContinue
<1>7. CASE ToolsHandled BY <1>7 DEF ToolsHandled
<1> QED BY <1>1, <1>2, <1>3, <1>4, <1>5, <1>6, <1>7 DEF Tools

LEMMA OthersPlaces ==
  ASSUME IInv, Places, SteerArrives \/ Interrupt \/ HardAbortSteps \/ UNCHANGED vars
  PROVE  Places'
<1> USE DEF Places, InCall, InTools, controlVars, convVars, inputVars, graceVars, abortVars,
            resultVars
<1>1. CASE SteerArrives \/ Interrupt \/ UNCHANGED vars
  BY <1>1 DEF SteerArrives, Interrupt, vars
<1>2. CASE HardAbortRequest BY <1>2 DEF HardAbortRequest
<1>3. CASE HardAbortRead BY <1>3 DEF HardAbortRead
<1>4. CASE HardAbortCut
  <2>1. UNCHANGED <<pc, status, pend, execPend, iteration, messages, next, calls, subs>>
        /\ aborter' = "done"
    BY <1>4 DEF HardAbortCut
  <2>2. pc = "new" => history' = Old
    <3> SUFFICES ASSUME pc = "new" PROVE history' = Old OBVIOUS
    <3>1. snapshot = Old /\ history = Old BY <1>4 DEF HardAbortCut
    <3>2. Len(Old) \in Nat BY TurnLoopAssumption DEF Old
    <3> QED BY <1>4, <3>1, <3>2 DEF HardAbortCut
  <2> QED BY <2>1, <2>2
<1> QED BY <1>1, <1>2, <1>3, <1>4 DEF HardAbortSteps

LEMMA PlacesStep == IInv /\ Places /\ [Next]_vars => Places'
<1> QED BY CoordinatorPlaces, LlmPlaces, ToolsPlaces, OthersPlaces DEF Next

THEOREM PlacesHold == Spec => []Places
<1> QED BY PlacesInit, PlacesStep, InvariantHolds, PTL DEF Spec
-----------------------------------------------------------------------------
(***************************************************************************)
(* The steps that touch the conversation.                                   *)
(***************************************************************************)
Settled == {"head", "finalize", "handled"}

\* A step that leaves the conversation, the session and the steering alone.
Idles ==
  /\ UNCHANGED <<messages, history, persisted, restorePoint, queue, execPend, arrived, iteration,
                 calls, next, snapshot>>
  /\ pc' \in InCall => pc \in InCall
  /\ pc' \in InTools => pc \in InTools
  /\ pc' \in Settled => pc \in InCall \cup Settled
  /\ pc' # "new" \/ pc = "new"
  /\ status' = status \/ status' = "error" \/ (status' = "completed" /\ pc = "handled")
  /\ aborter' = aborter \/ aborter' = "requested"

GetsResult(handled) == pc \in InTools /\ next <= calls /\ ToolResult(handled)

LEMMA Steps ==
  ASSUME Places, [Next]_vars
  PROVE  \/ Idles \/ CallOverflows
         \/ SetupTurn \/ BeginIteration \/ Finalize \/ FinalizeFails \/ AbortTurn
         \/ (Answered /\ queue # <<>>) \/ ToolCalls
         \/ ToolDenied \/ ToolsContinue \/ ToolsHandled
         \/ \E handled \in BOOLEAN : GetsResult(handled)
         \/ SteerArrives \/ HardAbortRead \/ HardAbortCut
<1> USE DEF Idles, InCall, InTools, Settled, Goto, End, controlVars, convVars, inputVars, graceVars,
            abortVars, resultVars
<1>1. CASE Coordinator
  <2>1. CASE SeesHardAbort BY <2>1 DEF SeesHardAbort
  <2>2. CASE ExhaustIterations BY <2>2 DEF ExhaustIterations
  <2>3. CASE FinalizeHandled BY <2>3 DEF FinalizeHandled
  <2> QED BY <1>1, <2>1, <2>2, <2>3 DEF Coordinator
<1>2. CASE Llm
  <2> USE DEF HookIntervenes
  <2>1. CASE PrepareCall BY <2>1 DEF PrepareCall
  <2>2. CASE CallAnswered BY <2>2 DEF CallAnswered
  <2>3. CASE CallCanceled BY <2>3 DEF CallCanceled
  <2>4. CASE CallFails BY <2>4 DEF CallFails
  <2>5. CASE CallTransient BY <2>5 DEF CallTransient
  <2>6. CASE Backoff BY <2>6 DEF Backoff
  <2>7. CASE BackoffAborted BY <2>7 DEF BackoffAborted
  <2>8. CASE BackoffCanceled BY <2>8 DEF BackoffCanceled
  <2>9. CASE Answered /\ queue = <<>> BY <2>9 DEF Answered
  <2> QED BY <1>2, <2>1, <2>2, <2>3, <2>4, <2>5, <2>6, <2>7, <2>8, <2>9 DEF Llm
<1>3. CASE Tools
  <2> USE DEF HookIntervenes, AtTool
  <2>1. CASE ToolHookAborts BY <2>1 DEF ToolHookAborts
  <2>2. CASE ToolStarts BY <2>2 DEF ToolStarts
  <2>3. CASE ToolReturnsToHook BY <2>3 DEF ToolReturnsToHook
  <2>4. CASE ToolRespondedByHook \/ ToolReturns
    BY <2>4 DEF ToolRespondedByHook, ToolReturns, GetsResult, Places
  <2> QED BY <1>3, <2>1, <2>2, <2>3, <2>4 DEF Tools
<1>4. CASE Interrupt \/ HardAbortRequest \/ UNCHANGED vars
  BY <1>4 DEF Interrupt, HardAbortRequest, vars
<1> QED BY <1>1, <1>2, <1>3, <1>4 DEF Next, HardAbortSteps

LEMMA Single ==
  ASSUME NEW S, NEW x \in S
  PROVE  <<x>> \in Seq(S) /\ Len(<<x>>) = 1 /\ <<x>>[1] = x
OBVIOUS

\* What is put into the conversation.
LEMMA ItemTypes ==
  ASSUME Typed
  PROVE  /\ Reply \in Items
         /\ \A k \in Nat : Result(k) \in Items
         /\ \A n \in Nat : <<"calls", iteration, n>> \in Items
         /\ subs \in Nat => \A sub \in SubResult : sub \in Seq(Items)
<1>1. iteration \in Int /\ 0 - iteration \in Int BY DEF Typed
<1>2. \A k \in Nat : <<"result", iteration, k>> \in Items /\ <<"calls", iteration, k>> \in Items
  BY <1>1 DEF Items, Kinds
<1>3. Reply \in Items BY <1>1 DEF Reply, Items, Kinds
<1>4. ASSUME NEW sub \in SubResult, subs \in Nat PROVE sub \in Seq(Items)
  <2>1. <<"sub", subs + 1, 0>> \in Items BY <1>4 DEF Items, Kinds
  <2>2. CASE sub = <<>> BY <2>2, EmptySeq
  <2>3. CASE sub = << <<"sub", subs + 1, 0>> >>
    BY <2>1, <2>3, Single
  <2> QED BY <2>2, <2>3, <1>4 DEF SubResult
<1> QED BY <1>2, <1>3, <1>4 DEF Result

LEMMA SkippedType ==
  ASSUME Typed, next <= calls
  PROVE  /\ Skipped \in Seq(Items) /\ Len(Skipped) = calls - next
         /\ \A k \in 1..calls - next : Skipped[k] = Result(next + k)
<1>1. calls - next \in Nat BY DEF Typed
<1>2. \A k \in 1..calls - next : Result(next + k) \in Items
  <2> SUFFICES ASSUME NEW k \in 1..calls - next PROVE Result(next + k) \in Items OBVIOUS
  <2>1. next + k \in Nat BY DEF Typed
  <2> QED BY <2>1, ItemTypes
<1> QED BY <1>1, <1>2 DEF Skipped
-----------------------------------------------------------------------------
(***************************************************************************)
(* An aborted turn leaves the history as it found it, when nothing is       *)
(* compacted and the legacy context manager reads the store of the turn.    *)
(* The history, and what HardAbort has read of it, only ever grow behind    *)
(* the conversation before the turn, so either cut restores it.             *)
(***************************************************************************)
BeginsOld(s) == s \in Seq(Items) /\ Len(Old) <= Len(s) /\ Upto(s, Len(Old)) = Old

Restorable ==
  /\ BeginsOld(history)
  /\ aborter = "read" => BeginsOld(snapshot)
  /\ restorePoint = Old
  /\ status = "aborted" => history = Old

LEMMA OldType ==
  /\ Old \in Seq(Items) /\ BeginsOld(Old)
  /\ \A i \in DOMAIN Old : Old[i][1] \in {"user", "reply"}
<1>1. OldTurns \in Nat /\ 2 * OldTurns \in Nat BY TurnLoopAssumption
<1>2. \A i \in 1..2 * OldTurns : <<IF i % 2 = 1 THEN "user" ELSE "reply", i, 0>> \in Items
  BY <1>1 DEF Items, Kinds
<1>3. Old \in Seq(Items) BY <1>1, <1>2 DEF Old
<1>4. Len(Old) \in Nat /\ Upto(Old, Len(Old)) = Old
  BY <1>3, SubSeqFull, LenProperties DEF Upto
<1>5. \A i \in DOMAIN Old : Old[i][1] \in {"user", "reply"} BY <1>1 DEF Old
<1> QED BY <1>3, <1>4, <1>5 DEF BeginsOld

LEMMA PrefixGrows ==
  ASSUME NEW s, BeginsOld(s), NEW t \in Seq(Items)
  PROVE  BeginsOld(s \o t)
<1> DEFINE n == Len(Old)
<1>1. s \in Seq(Items) /\ n \in Nat /\ n <= Len(s) /\ SubSeq(s, 1, n) = Old /\ Len(s) \in Nat
      /\ Len(t) \in Nat
  BY OldType, LenProperties DEF BeginsOld, Upto
<1>2. s \o t \in Seq(Items) /\ Len(s \o t) = Len(s) + Len(t)
  BY <1>1, ConcatProperties
<1>3. SubSeq(s \o t, 1, n) = SubSeq(s, 1, n)
  <2>1. CASE n = 0 BY <2>1, SubSeqEmpty
  <2>2. CASE n # 0 BY <1>1, <2>2, SubSeqOfConcat1
  <2> QED BY <2>1, <2>2
<1> QED BY <1>1, <1>2, <1>3 DEF BeginsOld, Upto

\* What a step adds to the conversation and to the session alike.
Adds(t) ==
  /\ messages \in Seq(Items) => messages' = messages \o t
  /\ history \in Seq(Items) => history' = history \o t

\* No steering message among them.
Plain(s) == \A x \in 1..Len(s) : s[x][1] # "steer"

LEMMA PlainConcat ==
  ASSUME NEW s \in Seq(Items), NEW t \in Seq(Items), Plain(s), Plain(t)
  PROVE  s \o t \in Seq(Items) /\ Plain(s \o t)
<1>1. /\ s \o t \in Seq(Items) /\ Len(s \o t) = Len(s) + Len(t)
      /\ \A x \in 1..Len(s) + Len(t) : (s \o t)[x] = IF x <= Len(s) THEN s[x] ELSE t[x - Len(s)]
  BY ConcatProperties
<1>2. Len(s) \in Nat /\ Len(t) \in Nat BY LenProperties
<1>3. ASSUME NEW x \in 1..Len(s) + Len(t) PROVE (s \o t)[x][1] # "steer"
  <2>1. CASE x <= Len(s)
    <3>1. x \in 1..Len(s) BY <1>2, <2>1
    <3> QED BY <1>1, <2>1, <3>1 DEF Plain
  <2>2. CASE ~(x <= Len(s))
    <3>1. x - Len(s) \in 1..Len(t) BY <1>2, <2>2
    <3> QED BY <1>1, <2>2, <3>1 DEF Plain
  <2> QED BY <2>1, <2>2
<1> QED BY <1>1, <1>3 DEF Plain

LEMMA PlainSingle ==
  ASSUME NEW x \in Items, x[1] # "steer" PROVE <<x>> \in Seq(Items) /\ Plain(<<x>>)
<1>1. <<x>> \in Seq(Items) /\ Len(<<x>>) = 1 /\ <<x>>[1] = x BY Single
<1> QED BY <1>1 DEF Plain

LEMMA SubPlain ==
  ASSUME Typed, subs \in Nat, NEW sub \in SubResult
  PROVE  sub \in Seq(Items) /\ Plain(sub)
<1>1. CASE sub = <<>> BY <1>1, EmptySeq DEF Plain
<1>2. CASE sub = << <<"sub", subs + 1, 0>> >>
  <2>1. <<"sub", subs + 1, 0>> \in Items /\ <<"sub", subs + 1, 0>>[1] # "steer"
    BY DEF Items, Kinds
  <2> QED BY <1>2, <2>1, PlainSingle
<1> QED BY <1>1, <1>2 DEF SubResult

LEMMA Additions ==
  ASSUME IInv, Places,
         \/ Finalize \/ FinalizeFails \/ ToolCalls \/ ToolDenied \/ ToolsHandled
         \/ \E handled \in BOOLEAN : GetsResult(handled)
  PROVE  \E t \in Seq(Items) : Plain(t) /\ Adds(t)
<1>0. Typed BY DEF IInv
<1>2. CASE Finalize \/ FinalizeFails \/ ToolsHandled
  <2>1. Reply \in Items /\ Reply[1] # "steer" BY <1>0, ItemTypes DEF Reply
  <2>2. <<Reply>> \in Seq(Items) /\ Plain(<<Reply>>) BY <2>1, PlainSingle
  <2> QED BY <1>2, <2>2 DEF Finalize, FinalizeFails, ToolsHandled, Say, Adds
<1>3. CASE ToolCalls
  <2>1. PICK n \in 1..MaxCalls : Say(<< <<"calls", iteration, n>> >>) BY <1>3 DEF ToolCalls
  <2>2. <<"calls", iteration, n>> \in Items /\ <<"calls", iteration, n>>[1] # "steer"
    BY <1>0, TurnLoopAssumption, ItemTypes
  <2> HIDE DEF Adds
  <2>3. << <<"calls", iteration, n>> >> \in Seq(Items) /\ Plain(<< <<"calls", iteration, n>> >>)
    BY <2>2, PlainSingle
  <2> QED BY <2>1, <2>3 DEF Say, Adds
<1>4. Result(next) \in Items /\ Result(next)[1] # "steer"
  BY <1>0, ItemTypes DEF Typed, Result
<1>5. <<Result(next)>> \in Seq(Items) /\ Plain(<<Result(next)>>) BY <1>4, PlainSingle
<1>6. CASE ToolDenied BY <1>5, <1>6 DEF ToolDenied, Say, Adds
<1>7. CASE \E handled \in BOOLEAN : GetsResult(handled)
  <2>1. PICK handled \in BOOLEAN : GetsResult(handled) BY <1>7
  <2>2. CASE SkipsRest
    <3>1. Say(<<Result(next)>> \o Skipped) BY <2>1, <2>2 DEF GetsResult, ToolResult
    <3>2. Skipped \in Seq(Items) /\ Plain(Skipped)
      BY <1>0, <2>1, SkippedType DEF GetsResult, Plain, Result
    <3>3. <<Result(next)>> \o Skipped \in Seq(Items) /\ Plain(<<Result(next)>> \o Skipped)
      BY <1>5, <3>2, PlainConcat
    <3> QED BY <3>1, <3>3 DEF Say, Adds
  <2>3. CASE ~SkipsRest
    <3>1. PICK sub \in SubResult : /\ messages' = messages \o <<Result(next)>> \o sub
                                   /\ history' = history \o <<Result(next)>> \o sub
      BY <2>1, <2>3 DEF GetsResult, ToolResult
    <3>2. sub \in Seq(Items) /\ Plain(sub) BY <1>0, SubPlain DEF Places
    <3>3. Adds(<<Result(next)>> \o sub)
      <4> DEFINE result == <<Result(next)>>
      <4>1. result \in Seq(Items) BY <1>5
      <4>2. messages' = (messages \o result) \o sub /\ history' = (history \o result) \o sub
        BY <3>1
      <4> HIDE DEF result
      <4>3. \A s \in Seq(Items) : (s \o result) \o sub = s \o (result \o sub)
        BY <3>2, <4>1, ConcatAssociative
      <4>4. messages \in Seq(Items) => messages' = messages \o (result \o sub) BY <4>2, <4>3
      <4>5. history \in Seq(Items) => history' = history \o (result \o sub) BY <4>2, <4>3
      <4> QED BY <4>4, <4>5 DEF Adds, result
    <3>4. <<Result(next)>> \o sub \in Seq(Items) /\ Plain(<<Result(next)>> \o sub)
      BY <1>5, <3>2, PlainConcat
    <3> QED BY <3>3, <3>4
  <2> QED BY <2>2, <2>3
<1> QED BY <1>2, <1>3, <1>6, <1>7

\* What the head of the loop injects.
Injects == IF iteration > 0 THEN execPend
             ELSE IF iteration = 0 /\ InitialSteering = 0 THEN Taken ELSE <<>>

LEMMA Begins ==
  ASSUME IInv, Places, BeginIteration
  PROVE  /\ pend \in Seq(Items) /\ Injects \in Seq(Items)
         /\ \E sub \in SubResult : Say(pend \o Injects \o sub)
         /\ \A sub \in SubResult : /\ sub \in Seq(Items) /\ Plain(sub)
                                   /\ pend \o Injects \o sub \in Seq(Items)
<1>1. \E sub \in SubResult : Say(pend \o Injects \o sub) BY DEF BeginIteration, Injects
<1>2. Injects \in Seq(Items) BY Dequeued, EmptySeq DEF IInv, Typed, Injects
<1>3. pend \in Seq(Items) BY EmptySeq DEF Places, IInv, Typed
<1>4. \A sub \in SubResult : sub \in Seq(Items) /\ Plain(sub) BY SubPlain DEF Places, IInv
<1> QED BY <1>1, <1>2, <1>3, <1>4, ConcatProperties

LEMMA RestorableStep ==
  ASSUME DefaultAgent, ~MayOverflow, IInv, Places, Restorable, [Next]_vars
  PROVE  Restorable'
<1> USE DEF Restorable
<1>1. CASE Idles BY <1>1 DEF Idles
<1>2. CASE SetupTurn
  <2> DEFINE user == IF InitialSteering = 0 THEN << <<"user", 0, 0>> >> ELSE <<>>
  <2>1. /\ history' = history \o user /\ restorePoint' = history /\ status' # "aborted"
        /\ UNCHANGED <<aborter, snapshot>> /\ history = Old
    <3>1. PICK compact \in {FALSE, MayOverflow} :
            LET h == IF compact THEN AfterCompact(history) ELSE history
            IN  /\ restorePoint' = IF compact THEN h ELSE Assembled(h)
                /\ history' = h \o user
      BY <1>2 DEF SetupTurn
    <3>2. ~compact OBVIOUS
    <3>3. status' # "aborted" /\ UNCHANGED <<aborter, snapshot>> /\ history = Old
      BY <1>2 DEF SetupTurn, Goto, End, resultVars, abortVars, Places
    <3> QED BY <3>1, <3>2, <3>3 DEF Assembled
  <2>2. user \in Seq(Items)
    <3>1. <<"user", 0, 0>> \in Items BY DEF Items, Kinds
    <3> QED BY <3>1, Single, EmptySeq
  <2> HIDE DEF user
  <2>3. BeginsOld(history') BY <2>1, <2>2, PrefixGrows
  <2> QED BY <2>1, <2>3
<1>3. CASE \/ BeginIteration \/ Finalize \/ FinalizeFails \/ ToolCalls \/ ToolDenied \/ ToolsHandled
           \/ \E handled \in BOOLEAN : GetsResult(handled)
  <2>1. PICK t \in Seq(Items) : history' = history \o t
    <3>1. CASE BeginIteration BY <3>1, Begins DEF Say
    <3>2. CASE ~BeginIteration BY <1>3, <3>2, Additions DEF Adds, BeginsOld
    <3> QED BY <3>1, <3>2
  <2>2. BeginsOld(history') BY <2>1, PrefixGrows
  <2>3. /\ UNCHANGED <<restorePoint, aborter, snapshot>>
        /\ status' \in {"running", "completed", "error"} /\ status \in {"running"}
    BY <1>3 DEF BeginIteration, Finalize, FinalizeFails, ToolCalls, ToolDenied, ToolsHandled,
       GetsResult, ToolResult, Goto, End, resultVars, abortVars, Places, InTools, AtTool
  <2> QED BY <2>2, <2>3
<1>4. CASE (Answered /\ queue # <<>>) \/ ToolsContinue \/ SteerArrives
  <2>1. UNCHANGED <<history, restorePoint, aborter, snapshot, status>>
    BY <1>4 DEF Answered, ToolsContinue, SteerArrives, Goto, resultVars, abortVars, convVars
  <2> QED BY <2>1
<1>5. CASE AbortTurn
  BY <1>5, OldType DEF AbortTurn, End, abortVars
<1>6. CASE HardAbortRead
  <2>1. snapshot' = history /\ UNCHANGED <<history, restorePoint, status>>
    BY <1>6 DEF HardAbortRead, resultVars, convVars
  <2> QED BY <2>1
<1>7. CASE HardAbortCut
  <2>1. BeginsOld(snapshot) BY <1>7 DEF HardAbortCut
  <2>2. history' \in {Old, history} BY <1>7, <2>1 DEF HardAbortCut, BeginsOld
  <2>3. aborter' = "done" /\ UNCHANGED <<restorePoint, status>>
    BY <1>7 DEF HardAbortCut, resultVars
  <2> QED BY <2>2, <2>3, OldType
<1>8. ~CallOverflows BY DEF CallOverflows
<1> QED BY <1>1, <1>2, <1>3, <1>4, <1>5, <1>6, <1>7, <1>8, Steps

\* An aborted turn leaves the history as it found it, however the abort comes:
\* seen by the coordinator, by a hook, by the backoff, or by HardAbort cutting
\* the history itself, before or after restoreSession.
THEOREM AbortRestoresHistoryHolds ==
  ASSUME DefaultAgent, ~MayOverflow PROVE Spec => []AbortRestoresHistory
<1>1. Init => Restorable BY OldType DEF Init, Restorable
<1>2. IInv /\ Places /\ Restorable /\ [Next]_vars => Restorable' BY RestorableStep
<1>3. Restorable => AbortRestoresHistory BY DEF Restorable, AbortRestoresHistory
<1> QED BY <1>1, <1>2, <1>3, InvariantHolds, PlacesHold, PTL DEF Spec
-----------------------------------------------------------------------------
(***************************************************************************)
(* Steering reaches the conversation, in order.  The messages that arrived  *)
(* lie, numbered without a gap, in the conversation, then in                *)
(* exec.pendingMessages, then in the queue; the coordinator's copy can put  *)
(* a batch into the conversation a second time, behind the first.           *)
(***************************************************************************)

\* The messages Steer(i + 1), Steer(i + 2), ... and no other.
Run(s, i) == \A x \in 1..Len(s) : s[x] = Steer(i + x)

\* Takes the steering messages up to i as known and brings those up to j: each
\* one after all that arrived before it.
Continues(s, i, j) ==
  /\ \A x \in 1..Len(s) : \A k \in Nat \ {0} : s[x] = Steer(k) =>
       /\ k <= j
       /\ \A n \in i + 1 .. k - 1 : \E y \in 1 .. x - 1 : s[y] = Steer(n)
  /\ \A n \in i + 1 .. j : \E x \in 1..Len(s) : s[x] = Steer(n)

Steering ==
  /\ messages \in Seq(Items)
  /\ Run(execPend, Injected)
  /\ Run(queue, Injected + Len(execPend))
  /\ Continues(messages, 0, Injected)

LEMMA SteerInjective == \A a, b : Steer(a) = Steer(b) => a = b
BY DEF Steer

LEMMA PlainContinues ==
  ASSUME NEW s, Plain(s), NEW i \in Nat PROVE Continues(s, i, i)
<1>1. \A x \in 1..Len(s) : \A k : s[x] # Steer(k) BY DEF Plain, Steer
<1>2. i + 1 .. i = {} OBVIOUS
<1> QED BY <1>1, <1>2 DEF Continues

LEMMA RunContinues ==
  ASSUME NEW s \in Seq(Items), NEW i \in Nat, Run(s, i) PROVE Continues(s, i, i + Len(s))
<1>0. Len(s) \in Nat BY LenProperties
<1>1. ASSUME NEW x \in 1..Len(s), NEW k \in Nat \ {0}, s[x] = Steer(k)
      PROVE  /\ k <= i + Len(s)
             /\ \A n \in i + 1 .. k - 1 : \E y \in 1 .. x - 1 : s[y] = Steer(n)
  <2>1. k = i + x BY <1>1, SteerInjective DEF Run
  <2>2. ASSUME NEW n \in i + 1 .. k - 1 PROVE \E y \in 1 .. x - 1 : s[y] = Steer(n)
    <3>1. n - i \in 1 .. x - 1 /\ n - i \in 1..Len(s) /\ i + (n - i) = n BY <1>0, <2>1
    <3> QED BY <3>1 DEF Run
  <2> QED BY <1>0, <2>1, <2>2
<1>2. ASSUME NEW n \in i + 1 .. i + Len(s) PROVE \E x \in 1..Len(s) : s[x] = Steer(n)
  <2>1. n - i \in 1..Len(s) /\ i + (n - i) = n BY <1>0
  <2> QED BY <2>1 DEF Run
<1> QED BY <1>1, <1>2 DEF Continues

\* A batch that is said again brings nothing and disturbs nothing.
LEMMA ContinuesAgain ==
  ASSUME NEW s, NEW i \in Nat, NEW j \in Nat, Continues(s, i, j) PROVE Continues(s, j, j)
<1>1. ASSUME NEW x \in 1..Len(s), NEW k \in Nat \ {0}, s[x] = Steer(k)
      PROVE  k <= j /\ j + 1 .. k - 1 = {}
  BY <1>1 DEF Continues
<1>2. j + 1 .. j = {} OBVIOUS
<1> QED BY <1>1, <1>2 DEF Continues

LEMMA ContinuesConcat ==
  ASSUME NEW s \in Seq(Items), NEW t \in Seq(Items), NEW i \in Nat, NEW j \in Nat, NEW k \in Nat,
         i <= j, j <= k, Continues(s, i, j), Continues(t, j, k)
  PROVE  Continues(s \o t, i, k)
<1> DEFINE u == s \o t
<1>1. /\ Len(u) = Len(s) + Len(t) /\ Len(s) \in Nat /\ Len(t) \in Nat
      /\ \A x \in 1..Len(s) : x \in 1..Len(u) /\ u[x] = s[x]
      /\ \A x \in 1..Len(t) : x + Len(s) \in 1..Len(u) /\ u[x + Len(s)] = t[x]
  BY ConcatProperties, LenProperties
<1> HIDE DEF u
<1>2. \A n \in i + 1 .. j : \E x \in 1..Len(s) : u[x] = Steer(n)
  BY <1>1 DEF Continues
<1>3. ASSUME NEW x \in 1..Len(u), NEW m \in Nat \ {0}, u[x] = Steer(m)
      PROVE  m <= k /\ \A n \in i + 1 .. m - 1 : \E y \in 1 .. x - 1 : u[y] = Steer(n)
  <2>1. CASE x <= Len(s)
    <3>1. x \in 1..Len(s) /\ s[x] = Steer(m) BY <1>1, <1>3, <2>1
    <3>2. m <= j /\ \A n \in i + 1 .. m - 1 : \E y \in 1 .. x - 1 : s[y] = Steer(n)
      BY <3>1 DEF Continues
    <3>3. \A y \in 1 .. x - 1 : u[y] = s[y] BY <1>1, <3>1
    <3>4. m <= k BY <3>2
    <3>5. ASSUME NEW n \in i + 1 .. m - 1 PROVE \E y \in 1 .. x - 1 : u[y] = Steer(n)
      <4>1. PICK y \in 1 .. x - 1 : s[y] = Steer(n) BY <3>2
      <4> QED BY <3>3, <4>1
    <3> QED BY <3>4, <3>5
  <2>2. CASE ~(x <= Len(s))
    <3>1. x - Len(s) \in 1..Len(t) BY <1>1, <2>2
    <3>2. t[x - Len(s)] = Steer(m)
      <4>1. u[(x - Len(s)) + Len(s)] = t[x - Len(s)] BY <1>1, <3>1
      <4>2. (x - Len(s)) + Len(s) = x BY <1>1
      <4> QED BY <1>3, <4>1, <4>2
    <3>3. m <= k /\ \A n \in j + 1 .. m - 1 : \E y \in 1 .. (x - Len(s)) - 1 : t[y] = Steer(n)
      BY <3>1, <3>2 DEF Continues
    <3>4. ASSUME NEW n \in i + 1 .. m - 1 PROVE \E y \in 1 .. x - 1 : u[y] = Steer(n)
      <4>1. CASE n <= j
        <5>1. PICK y \in 1..Len(s) : u[y] = Steer(n) BY <1>2, <4>1
        <5>2. y \in 1 .. x - 1 BY <1>1, <2>2
        <5> QED BY <5>1, <5>2
      <4>2. CASE ~(n <= j)
        <5>1. PICK y \in 1 .. (x - Len(s)) - 1 : t[y] = Steer(n) BY <3>3, <4>2
        <5>2. y \in 1..Len(t) /\ y + Len(s) \in 1 .. x - 1 BY <1>1, <3>1
        <5> QED BY <1>1, <5>1, <5>2
      <4> QED BY <4>1, <4>2
    <3> QED BY <3>3, <3>4
  <2> QED BY <2>1, <2>2
<1>4. ASSUME NEW n \in i + 1 .. k PROVE \E x \in 1..Len(u) : u[x] = Steer(n)
  <2>1. CASE n <= j BY <1>1, <1>2, <2>1
  <2>2. CASE ~(n <= j)
    <3>1. PICK x \in 1..Len(t) : t[x] = Steer(n) BY <2>2 DEF Continues
    <3> QED BY <1>1, <3>1
  <2> QED BY <2>1, <2>2
<1>5. Continues(u, i, k) BY <1>3, <1>4 DEF Continues
<1> QED BY <1>5 DEF u

LEMMA RunConcat ==
  ASSUME NEW s \in Seq(Items), NEW t \in Seq(Items), NEW i \in Nat, Run(s, i), Run(t, i + Len(s))
  PROVE  Run(s \o t, i)
<1>1. /\ Len(s \o t) = Len(s) + Len(t) /\ Len(s) \in Nat /\ Len(t) \in Nat
      /\ \A x \in 1..Len(s) + Len(t) : (s \o t)[x] = IF x <= Len(s) THEN s[x] ELSE t[x - Len(s)]
  BY ConcatProperties, LenProperties
<1>2. ASSUME NEW x \in 1..Len(s) + Len(t) PROVE (s \o t)[x] = Steer(i + x)
  <2>1. CASE x <= Len(s)
    <3>1. x \in 1..Len(s) BY <1>1, <2>1
    <3> QED BY <1>1, <2>1, <3>1 DEF Run
  <2>2. CASE ~(x <= Len(s))
    <3>1. x - Len(s) \in 1..Len(t) /\ (i + Len(s)) + (x - Len(s)) = i + x BY <1>1, <2>2
    <3>2. t[x - Len(s)] = Steer((i + Len(s)) + (x - Len(s))) BY <3>1 DEF Run
    <3> QED BY <1>1, <2>2, <3>1, <3>2
  <2> QED BY <2>1, <2>2
<1> QED BY <1>1, <1>2 DEF Run

\* Dequeuing takes the front of the run.
LEMMA RunDequeued ==
  ASSUME queue \in Seq(Items), NEW i \in Nat, Run(queue, i)
  PROVE  Run(Taken, i) /\ Run(Untaken, i + Len(Taken))
<1>1. CASE queue = <<>>
  <2>1. Taken = <<>> /\ Untaken = <<>>
    BY <1>1, SubSeqProperties DEF Taken, Untaken
  <2> QED BY <2>1, EmptySeq DEF Run
<1>2. CASE queue # <<>> /\ SteeringAll
  <2>1. Taken = queue /\ Untaken = <<>> BY <1>2 DEF Taken, Untaken
  <2> QED BY <2>1, EmptySeq DEF Run
<1>3. CASE queue # <<>> /\ ~SteeringAll
  <2>1. Len(queue) \in Nat /\ Len(queue) >= 1 BY <1>3, EmptySeq
  <2>2. Taken = SubSeq(queue, 1, 1) /\ Untaken = Tail(queue)
    BY <1>3 DEF Taken, Untaken
  <2>3. Len(Taken) = 1 /\ Taken[1] = queue[1]
    BY <2>1, <2>2, SubSeqProperties
  <2>4. Run(Taken, i) BY <2>1, <2>3 DEF Run
  <2>5. Len(Untaken) = Len(queue) - 1 /\ \A x \in 1..Len(queue) - 1 : Untaken[x] = queue[x + 1]
    BY <1>3, <2>2, HeadTailProperties
  <2>6. \A x \in 1..Len(queue) - 1 : queue[x + 1] = Steer((i + 1) + x)
    <3> SUFFICES ASSUME NEW x \in 1..Len(queue) - 1 PROVE queue[x + 1] = Steer((i + 1) + x) OBVIOUS
    <3>1. x + 1 \in 1..Len(queue) /\ i + (x + 1) = (i + 1) + x BY <2>1
    <3> QED BY <3>1 DEF Run
  <2> QED BY <2>3, <2>4, <2>5, <2>6 DEF Run
<1> QED BY <1>1, <1>2, <1>3
\* Depositing moves the front of the queue behind what is deposited already.
LEMMA DepositSteers ==
  ASSUME IInv, Steering, queue' = Untaken, execPend' = Deposit, UNCHANGED arrived
  PROVE  /\ Injected' = Injected
         /\ Run(execPend', Injected) /\ Run(queue', Injected + Len(execPend'))
<1>1. Injected \in Nat /\ Len(execPend) \in Nat /\ Len(queue) \in Nat /\ arrived \in Nat
  BY Numbers DEF IInv, Paid
<1>2. /\ Taken \in Seq(Items) /\ Untaken \in Seq(Items)
      /\ Len(Taken) + Len(Untaken) = Len(queue)
      /\ Len(Taken) \in Nat /\ Len(Untaken) \in Nat
  BY Dequeued, LenProperties DEF IInv, Typed
<1>3. Run(Taken, Injected + Len(execPend)) /\ Run(Untaken, (Injected + Len(execPend)) + Len(Taken))
  BY <1>1, RunDequeued DEF IInv, Typed, Steering
<1>4. Len(Deposit) = Len(execPend) + Len(Taken)
  BY <1>2, ConcatProperties DEF Deposit, IInv, Typed
<1>5. Run(Deposit, Injected)
  BY <1>1, <1>2, <1>3, RunConcat DEF Deposit, Steering, IInv, Typed
<1>6. (Injected + Len(execPend)) + Len(Taken) = Injected + Len(Deposit)
  BY <1>1, <1>2, <1>4
<1>7. arrived' - Len(queue') - Len(execPend') = arrived - Len(queue) - Len(execPend)
  BY <1>1, <1>2, <1>4
<1> QED BY <1>3, <1>5, <1>6, <1>7 DEF Injected

LEMMA BeginSteers ==
  ASSUME IInv, Places, Steering, BeginIteration
  PROVE  Steering'
<1> DEFINE I == Injected
<1>1. I \in Nat /\ Len(execPend) \in Nat /\ Len(queue) \in Nat /\ arrived \in Nat /\ iteration \in Nat
  BY Numbers DEF IInv, Paid
<1>2. /\ Taken \in Seq(Items) /\ Len(Taken) + Len(Untaken) = Len(queue)
      /\ Len(Taken) \in Nat /\ Len(Untaken) \in Nat
      /\ execPend \in Seq(Items)
  BY Dequeued, LenProperties DEF IInv, Typed
<1>3. execPend' = <<>> /\ arrived' = arrived /\ Len(execPend') = 0
  BY EmptySeq DEF BeginIteration
<1>4. Run(execPend', Injected') BY <1>3 DEF Run
<1>5. pend \in Seq(Items) /\ Injects \in Seq(Items) BY Begins
<1>6. I' \in Nat /\ I <= I' /\ Continues(pend \o Injects, I, I') /\ Run(queue', I')
  <2>1. CASE iteration > 0 \/ InitialSteering # 0
    <3>1. queue' = queue BY <1>1, <2>1 DEF BeginIteration
    <3>2. I' = I + Len(execPend) BY <1>1, <1>3, <3>1 DEF Injected
    <3>3. Continues(execPend, I, I') BY <1>1, <1>2, <3>2, RunContinues DEF Steering
    <3>4. I' \in Nat /\ I <= I' BY <1>1, <3>2
    <3>5. Run(queue', I') BY <3>1, <3>2 DEF Steering
    <3> HIDE DEF I
    <3>6. CASE iteration > 0
      <4>1. Injects = execPend BY <3>6 DEF Injects
      <4>2. CASE pend = <<>>
        <5>1. pend \o Injects = execPend BY <1>2, <4>1, <4>2, ConcatEmptySeq
        <5> QED BY <3>3, <3>4, <3>5, <5>1
      <4>3. CASE pend = execPend
        <5>1. Continues(execPend, I', I') BY <1>1, <3>3, <3>4, ContinuesAgain DEF I
        <5>2. Continues(pend \o Injects, I, I')
          BY <1>1, <1>2, <3>3, <3>4, <4>1, <4>3, <5>1, ContinuesConcat DEF I
        <5> QED BY <3>4, <3>5, <5>2
      <4> QED BY <4>2, <4>3 DEF Places
    <3>7. CASE ~(iteration > 0)
      <4>1. iteration = 0 BY <1>1, <3>7
      <4>2. Injects = <<>> /\ pend = execPend BY <2>1, <4>1 DEF Injects, Places
      <4>3. pend \o Injects = execPend BY <1>2, <4>2, ConcatEmptySeq
      <4> QED BY <3>3, <3>4, <3>5, <4>3
    <3> QED BY <3>6, <3>7
  <2>2. CASE ~(iteration > 0) /\ InitialSteering = 0
    <3>1. iteration = 0 BY <1>1, <2>2
    <3>2. Injects = Taken /\ queue' = Untaken BY <2>2, <3>1 DEF BeginIteration, Injects
    <3>3. pend = <<>> /\ execPend = <<>> BY <2>2, <3>1 DEF Places
    <3>4. Len(execPend) = 0 BY <3>3, EmptySeq
    <3>5. Run(queue, I) BY <1>1, <3>4 DEF Steering
    <3>6. Run(Taken, I) /\ Run(Untaken, I + Len(Taken))
      BY <1>1, <3>5, RunDequeued DEF IInv, Typed
    <3>7. I' = I + Len(Taken) BY <1>1, <1>2, <1>3, <3>2, <3>4 DEF Injected
    <3>8. Continues(Taken, I, I') BY <1>1, <1>2, <3>6, <3>7, RunContinues
    <3>9. pend \o Injects = Taken BY <1>2, <3>2, <3>3, ConcatEmptySeq
    <3> QED BY <1>1, <1>2, <3>2, <3>6, <3>7, <3>8, <3>9
  <2> QED BY <2>1, <2>2
<1>7. PICK sub \in SubResult : messages' = messages \o (pend \o Injects \o sub)
  BY Begins DEF Say
<1>8. /\ sub \in Seq(Items) /\ Plain(sub) /\ pend \o Injects \o sub \in Seq(Items)
      /\ pend \o Injects \in Seq(Items)
  BY <1>5, <1>7, Begins, ConcatProperties
<1> HIDE DEF I
<1>9. PICK J \in Nat : J = I' BY <1>6
<1>10. Continues(pend \o Injects \o sub, I, J)
  <2>1. Continues(sub, J, J) BY <1>8, PlainContinues
  <2> DEFINE batch == pend \o Injects
  <2>2. I <= J /\ Continues(batch, I, J) /\ batch \in Seq(Items) BY <1>6, <1>8, <1>9
  <2> HIDE DEF batch
  <2>3. Continues(batch \o sub, I, J) BY <1>1, <1>8, <2>1, <2>2, ContinuesConcat
  <2> QED BY <2>3 DEF batch
<1>11. messages \in Seq(Items) /\ Continues(messages, 0, I) BY DEF Steering, I
<1>12. messages' \in Seq(Items) /\ Continues(messages', 0, I')
  <2> DEFINE said == pend \o Injects \o sub
  <2>1. said \in Seq(Items) /\ Continues(said, I, J) /\ messages' = messages \o said
    BY <1>7, <1>8, <1>10
  <2> HIDE DEF said
  <2>2. 0 <= I /\ I <= J BY <1>1, <1>6, <1>9
  <2>3. Continues(messages \o said, 0, J) BY <1>1, <1>11, <2>1, <2>2, ContinuesConcat
  <2>4. messages \o said \in Seq(Items) BY <1>11, <2>1, ConcatProperties
  <2> QED BY <1>9, <2>1, <2>3, <2>4
<1>13. Run(queue', Injected' + Len(execPend')) BY <1>1, <1>3, <1>6 DEF I
<1> QED BY <1>4, <1>12, <1>13 DEF Steering, I

\* Something else than steering is said.
LEMMA PlainSteers ==
  ASSUME IInv, Steering, NEW t \in Seq(Items), Plain(t), messages' = messages \o t
  PROVE  messages' \in Seq(Items) /\ Continues(messages', 0, Injected)
<1>1. Injected \in Nat BY Numbers DEF IInv, Paid
<1>2. Continues(t, Injected, Injected) BY <1>1, PlainContinues
<1> QED BY <1>1, <1>2, ContinuesConcat, ConcatProperties DEF Steering

LEMMA SteeringStep ==
  ASSUME ~MayOverflow, IInv, Places, Steering, [Next]_vars
  PROVE  Steering'
<1>0. Injected \in Nat /\ Len(execPend) \in Nat /\ Len(queue) \in Nat /\ arrived \in Nat
  BY Numbers DEF IInv, Paid
<1>1. CASE UNCHANGED <<messages, queue, execPend, arrived>>
  BY <1>1 DEF Steering, Injected
<1>2. Idles \/ AbortTurn \/ HardAbortRead \/ HardAbortCut => UNCHANGED <<messages, queue, execPend, arrived>>
  BY DEF Idles, AbortTurn, HardAbortRead, HardAbortCut, convVars, inputVars
<1>3. CASE SetupTurn
  <2> DEFINE user == IF InitialSteering = 0 THEN << <<"user", 0, 0>> >> ELSE <<>>
  <2>1. messages = <<>> /\ history = Old BY <1>3 DEF SetupTurn, Places
  <2>2. messages' \in {Old \o user, <<>> \o user}
    <3>1. PICK compact \in {FALSE, MayOverflow} :
            LET h == IF compact THEN AfterCompact(history) ELSE history
            IN  \E kept \in IF compact THEN Trims(Assembled(h)) ELSE {Assembled(h)} :
                  messages' = kept \o user
      BY <1>3 DEF SetupTurn
    <3>2. ~compact OBVIOUS
    <3>3. messages' = Assembled(history) \o user BY <3>1, <3>2
    <3> QED BY <2>1, <3>3 DEF Assembled
  <2>3. user \in Seq(Items) /\ Plain(user)
    <3>1. <<"user", 0, 0>> \in Items /\ <<"user", 0, 0>>[1] # "steer" BY DEF Items, Kinds
    <3>2. << <<"user", 0, 0>> >> \in Seq(Items) /\ Plain(<< <<"user", 0, 0>> >>)
      BY <3>1, PlainSingle
    <3>3. <<>> \in Seq(Items) /\ Plain(<<>>) BY EmptySeq DEF Plain
    <3> QED BY <3>2, <3>3
  <2> HIDE DEF user
  <2>4. Old \in Seq(Items) /\ Plain(Old) BY OldType, LenProperties DEF Plain
  <2>5. <<>> \in Seq(Items) /\ Plain(<<>>) BY EmptySeq DEF Plain
  <2>6. messages' \in Seq(Items) /\ Plain(messages') BY <2>2, <2>3, <2>4, <2>5, PlainConcat
  <2>7. UNCHANGED <<queue, execPend, arrived>> BY <1>3 DEF SetupTurn, inputVars
  <2>8. Injected = 0
    <3>1. \A n \in 1..Injected : \E x \in 1..0 : TRUE BY <2>1, EmptySeq DEF Steering, Continues
    <3> QED BY <1>0, <3>1
  <2>9. Continues(messages', 0, 0) BY <2>6, PlainContinues
  <2>10. Injected' = Injected BY <2>7 DEF Injected
  <2> QED BY <2>6, <2>7, <2>8, <2>9, <2>10 DEF Steering
<1>4. CASE BeginIteration BY <1>4, BeginSteers
<1>5. CASE \/ Finalize \/ FinalizeFails \/ ToolCalls \/ ToolDenied \/ ToolsHandled
           \/ \E handled \in BOOLEAN : GetsResult(handled)
  <2>1. PICK t \in Seq(Items) : Plain(t) /\ Adds(t) BY <1>5, Additions
  <2>2. messages' \in Seq(Items) /\ Continues(messages', 0, Injected)
    BY <2>1, PlainSteers DEF Adds, Steering
  <2>3. CASE \E handled \in BOOLEAN : GetsResult(handled)
    <3>1. queue' = Untaken /\ execPend' = Deposit /\ UNCHANGED arrived
      BY <2>3 DEF GetsResult, ToolResult
    <3> QED BY <2>2, <3>1, DepositSteers DEF Steering
  <2>4. CASE ~\E handled \in BOOLEAN : GetsResult(handled)
    <3>1. UNCHANGED <<queue, execPend, arrived>>
      BY <1>5, <2>4 DEF Finalize, FinalizeFails, ToolCalls, ToolDenied, ToolsHandled, inputVars
    <3>2. Injected' = Injected BY <3>1 DEF Injected
    <3> QED BY <2>2, <3>1, <3>2 DEF Steering
  <2> QED BY <2>3, <2>4
<1>6. CASE (Answered /\ queue # <<>>) \/ (ToolsContinue /\ execPend = <<>>)
  <2>1. UNCHANGED <<messages, arrived>> /\ queue' = Untaken
    BY <1>6 DEF Answered, ToolsContinue, convVars
  <2>2. execPend' = Deposit
    <3>1. CASE Answered /\ queue # <<>> BY <3>1 DEF Answered, Deposit
    <3>2. CASE ToolsContinue /\ execPend = <<>>
      <4>1. Taken \in Seq(Items) BY Dequeued DEF IInv, Typed
      <4>2. Deposit = Taken BY <3>2, <4>1, ConcatEmptySeq DEF Deposit
      <4> QED BY <3>2, <4>2 DEF ToolsContinue
    <3> QED BY <1>6, <3>1, <3>2
  <2> QED BY <2>1, <2>2, DepositSteers DEF Steering
<1>7. CASE ToolsContinue /\ execPend # <<>>
  BY <1>1, <1>7 DEF ToolsContinue, convVars
<1>8. CASE SteerArrives
  <2>1. /\ UNCHANGED <<messages, execPend>> /\ arrived' = arrived + 1
        /\ queue' = Append(queue, Steer(arrived + 1))
    BY <1>8 DEF SteerArrives, convVars
  <2>2. queue \in Seq(Items) /\ Steer(arrived + 1) \in Items
    BY <1>0, SteerItem DEF IInv, Typed
  <2>3. /\ Len(queue') = Len(queue) + 1
        /\ \A x \in 1..Len(queue) : queue'[x] = queue[x]
        /\ queue'[Len(queue) + 1] = Steer(arrived + 1)
    BY <2>1, <2>2, AppendProperties
  <2>4. Injected' = Injected BY <1>0, <2>1, <2>3 DEF Injected
  <2>5. arrived + 1 = (Injected + Len(execPend)) + (Len(queue) + 1) BY <1>0 DEF Injected
  <2>6. ASSUME NEW x \in 1..Len(queue')
        PROVE  queue'[x] = Steer((Injected + Len(execPend)) + x)
    <3>1. CASE x = Len(queue) + 1 BY <2>3, <2>5, <3>1
    <3>2. CASE x # Len(queue) + 1
      <4>1. x \in 1..Len(queue) BY <1>0, <2>3, <3>2
      <4> QED BY <2>3, <4>1 DEF Steering, Run
    <3> QED BY <3>1, <3>2
  <2>7. Run(queue', Injected' + Len(execPend')) BY <2>1, <2>4, <2>6 DEF Run
  <2> QED BY <2>1, <2>4, <2>7 DEF Steering
<1>9. ~CallOverflows BY DEF CallOverflows
<1> QED BY <1>1, <1>2, <1>3, <1>4, <1>5, <1>6, <1>7, <1>8, <1>9, Steps

\* A set of positions has a first one.
LEMMA Least ==
  ASSUME NEW T, T \subseteq Nat, T # {} PROVE \E x \in T : \A y \in T : x <= y
<1>1. IsWellFoundedOn(OpToRel(<, Nat), Nat) BY NatLessThanWellFounded
<1>2. PICK x \in T : \A y \in T : ~(<<y, x>> \in OpToRel(<, Nat)) BY <1>1, WFMin
<1>3. \A y \in T : ~(y < x) BY <1>2 DEF OpToRel
<1> QED BY <1>3

LEMMA FirstIs ==
  ASSUME NEW s \in Seq(Items), NEW x, Occurs(s, x)
  PROVE  /\ First(s, x) \in 1..Len(s) /\ s[First(s, x)] = x
         /\ \A j \in 1..Len(s) : s[j] = x => First(s, x) <= j
<1> DEFINE T == {i \in 1..Len(s) : s[i] = x}
<1>1. DOMAIN s = 1..Len(s) BY LenProperties
<1>2. T # {} /\ T \subseteq Nat BY <1>1 DEF Occurs
<1>3. \E i \in T : \A j \in T : i <= j BY <1>2, Least
<1>4. \E i \in DOMAIN s : s[i] = x /\ \A j \in DOMAIN s : s[j] = x => i <= j
  BY <1>1, <1>3
<1> QED BY <1>1, <1>4 DEF First

LEMMA SteeringInit == Init => Steering
<1> SUFFICES ASSUME Init PROVE Steering OBVIOUS
<1>1. /\ InitialSteering \in Nat /\ Len(Initial) = InitialSteering
      /\ \A x \in 1..InitialSteering : Initial[x] = Steer(0 + x)
  BY TurnLoopAssumption DEF Initial
<1>2. Len(<<>>) = 0 /\ <<>> \in Seq(Items) BY EmptySeq
<1>3. Injected = 0 BY <1>1, <1>2 DEF Init, Injected
<1>4. Run(execPend, 0) BY <1>1 DEF Init, Run
<1>5. \A i : Run(queue, i) BY <1>2 DEF Init, Run
<1>6. Continues(messages, 0, 0)
  <2>1. Plain(messages) BY <1>2 DEF Init, Plain
  <2> QED BY <2>1, PlainContinues
<1> QED BY <1>2, <1>3, <1>4, <1>5, <1>6 DEF Init, Steering

THEOREM SteeringHolds ==
  ASSUME ~MayOverflow PROVE Spec => []Steering
<1>1. IInv /\ Places /\ Steering /\ [Next]_vars => Steering' BY SteeringStep
<1> QED BY <1>1, SteeringInit, InvariantHolds, PlacesHold, PTL DEF Spec

\* A turn that completes has put every steering message it took from the queue
\* into the conversation, in either mode of the queue, after any mix of
\* retries, skipped tools and interrupts.
THEOREM SteeringIsNotLostHolds ==
  ASSUME ~MayOverflow PROVE Spec => []SteeringIsNotLost
<1>1. IInv /\ Places /\ Steering => SteeringIsNotLost
  <2> SUFFICES ASSUME IInv, Places, Steering, status = "completed", NEW n \in 1..arrived
               PROVE  Occurs(messages, Steer(n)) \/ Occurs(queue, Steer(n))
    BY DEF SteeringIsNotLost
  <2>1. Injected \in Nat /\ Len(queue) \in Nat /\ arrived \in Nat
    BY Numbers DEF IInv, Paid
  <2>2. Len(execPend) = 0 BY EmptySeq DEF Places
  <2>3. DOMAIN messages = 1..Len(messages) /\ DOMAIN queue = 1..Len(queue)
    BY LenProperties DEF Steering, IInv, Typed
  <2>4. CASE n <= Injected
    <3>1. n \in 0 + 1 .. Injected BY <2>1, <2>4
    <3>2. PICK x \in 1..Len(messages) : messages[x] = Steer(n) BY <3>1 DEF Steering, Continues
    <3> QED BY <2>3, <3>2 DEF Occurs
  <2>5. CASE ~(n <= Injected)
    <3>1. n - Injected \in 1..Len(queue) /\ (Injected + 0) + (n - Injected) = n
      BY <2>1, <2>2, <2>5 DEF Injected
    <3>2. queue[n - Injected] = Steer(n) BY <2>2, <3>1 DEF Steering, Run
    <3> QED BY <2>3, <3>1, <3>2 DEF Occurs
  <2> QED BY <2>4, <2>5
<1> QED BY <1>1, InvariantHolds, PlacesHold, SteeringHolds, PTL

\* Steering messages stand in the conversation in the order they arrived,
\* although a batch can be there twice.
THEOREM SteeringInOrderHolds ==
  ASSUME ~MayOverflow PROVE Spec => []SteeringInOrder
<1>1. IInv /\ Steering => SteeringInOrder
  <2> SUFFICES ASSUME IInv, Steering, NEW n \in 1..arrived, NEW m \in 1..arrived, n < m,
                      Occurs(messages, Steer(m))
               PROVE  /\ Occurs(messages, Steer(n))
                      /\ First(messages, Steer(n)) < First(messages, Steer(m))
    BY DEF SteeringInOrder
  <2> DEFINE at == First(messages, Steer(m))
  <2>1. messages \in Seq(Items) /\ DOMAIN messages = 1..Len(messages) /\ Len(messages) \in Nat
    BY LenProperties DEF Steering
  <2>2. at \in 1..Len(messages) /\ messages[at] = Steer(m) BY <2>1, FirstIs
  <2> HIDE DEF at
  <2>3. m \in Nat \ {0} /\ n \in 0 + 1 .. m - 1 BY Numbers DEF IInv
  <2>4. PICK y \in 1 .. at - 1 : messages[y] = Steer(n)
    BY <2>2, <2>3 DEF Steering, Continues
  <2>5. y \in 1..Len(messages) /\ y < at BY <2>1, <2>2
  <2>6. Occurs(messages, Steer(n)) BY <2>1, <2>4, <2>5 DEF Occurs
  <2>7. First(messages, Steer(n)) \in 1..Len(messages) /\ First(messages, Steer(n)) <= y
    BY <2>1, <2>4, <2>5, <2>6, FirstIs
  <2>8. First(messages, Steer(n)) < at BY <2>1, <2>2, <2>5, <2>7
  <2> QED BY <2>6, <2>8 DEF at
<1> QED BY <1>1, InvariantHolds, SteeringHolds, PTL
-----------------------------------------------------------------------------
(***************************************************************************)
(* Every call is answered, once.  While the tools of iteration it run, its  *)
(* calls from the n-th on are still open; everything else in the            *)
(* conversation is paired already.                                          *)
(***************************************************************************)
IsCall(x) == x[1] = "calls"
IsResult(x) == x[1] = "result"

\* Calls and results up to iteration it, in which calls number at most c and
\* results have come in before the n-th.
Within(s, it, n, c) ==
  /\ \A i \in 1..Len(s) : IsCall(s[i]) => s[i][2] < it \/ (s[i][2] = it /\ s[i][3] <= c)
  /\ \A i \in 1..Len(s) : IsResult(s[i]) => s[i][2] < it \/ (s[i][2] = it /\ s[i][3] < n)

Answers(s, it, n) ==
  \A i \in 1..Len(s) : IsCall(s[i]) =>
    \A k \in 1..s[i][3] : \/ s[i][2] = it /\ k >= n
                          \/ \E j \in i + 1 .. Len(s) : s[j] = <<"result", s[i][2], k>>

Called(s) ==
  \A i \in 1..Len(s) : IsResult(s[i]) =>
    \E j \in 1 .. i - 1 : IsCall(s[j]) /\ s[j][2] = s[i][2] /\ s[j][3] >= s[i][3]

Once(s) == \A i, j \in 1..Len(s) : IsResult(s[i]) /\ s[i] = s[j] => i = j

Conv(s, it, n, c) == Within(s, it, n, c) /\ Answers(s, it, n) /\ Called(s) /\ Once(s)

\* What is asked of a conversation, at a place and with the numbers of a turn.
TalksAt(s, place, st, it, n, c) ==
  /\ place \in InCall => Conv(s, it, 1, 0)
  /\ place \in InTools => Conv(s, it, n, c) /\ Occurs(s, <<"calls", it, c>>)
  /\ place \in Settled \/ st = "completed" => Conv(s, it + 1, 1, 0)

Talks(s) == TalksAt(s, pc, status, iteration, next, calls)
TalksNext(s) == TalksAt(s, pc', status', iteration', next', calls')

Talk == Talks(messages)

LEMMA ItemFacts ==
  ASSUME NEW s \in Seq(Items), NEW i \in 1..Len(s)
  PROVE  s[i][1] \in Kinds /\ s[i][2] \in Int /\ s[i][3] \in Nat
<1>1. s[i] \in Items BY ElementOfSeq
<1> QED BY <1>1 DEF Items

\* Neither a call nor a result.
Mute(s) == \A x \in 1..Len(s) : ~IsCall(s[x]) /\ ~IsResult(s[x])

\* Where the items of a concatenation come from.
LEMMA Joined ==
  ASSUME NEW s \in Seq(Items), NEW t \in Seq(Items)
  PROVE  /\ s \o t \in Seq(Items)
         /\ Len(s) \in Nat /\ Len(t) \in Nat /\ Len(s \o t) = Len(s) + Len(t)
         /\ \A x \in 1..Len(s) : x \in 1..Len(s \o t) /\ (s \o t)[x] = s[x]
         /\ \A x \in 1..Len(t) : x + Len(s) \in 1..Len(s \o t) /\ (s \o t)[x + Len(s)] = t[x]
         /\ \A x \in 1..Len(s \o t) : \/ x \in 1..Len(s)
                                     \/ /\ x > Len(s) /\ x - Len(s) \in 1..Len(t)
                                        /\ (s \o t)[x] = t[x - Len(s)]
<1>1. /\ s \o t \in Seq(Items) /\ Len(s \o t) = Len(s) + Len(t)
      /\ \A x \in 1..Len(s) + Len(t) : (s \o t)[x] = IF x <= Len(s) THEN s[x] ELSE t[x - Len(s)]
      /\ Len(s) \in Nat /\ Len(t) \in Nat
  BY ConcatProperties, LenProperties
<1> DEFINE u == s \o t
<1> HIDE DEF u
<1>2. Len(u) = Len(s) + Len(t)
      /\ \A x \in 1..Len(u) : u[x] = IF x <= Len(s) THEN s[x] ELSE t[x - Len(s)]
  BY <1>1 DEF u
<1>3. ASSUME NEW x \in 1..Len(s) PROVE x \in 1..Len(u) /\ u[x] = s[x]
  BY <1>1, <1>2
<1>4. ASSUME NEW x \in 1..Len(t) PROVE x + Len(s) \in 1..Len(u) /\ u[x + Len(s)] = t[x]
  <2>1. x + Len(s) \in 1..Len(u) /\ ~(x + Len(s) <= Len(s)) /\ (x + Len(s)) - Len(s) = x
    BY <1>1, <1>2
  <2> QED BY <1>2, <2>1
<1>5. ASSUME NEW x \in 1..Len(u), x \notin 1..Len(s)
      PROVE  x > Len(s) /\ x - Len(s) \in 1..Len(t) /\ u[x] = t[x - Len(s)]
  <2>1. x > Len(s) /\ ~(x <= Len(s)) /\ x - Len(s) \in 1..Len(t) BY <1>1, <1>2, <1>5
  <2> QED BY <1>2, <2>1
<1> QED BY <1>1, <1>2, <1>3, <1>4, <1>5 DEF u

LEMMA MuteConv ==
  ASSUME NEW s, Mute(s), NEW it, NEW n, NEW c PROVE Conv(s, it, n, c)
BY DEF Mute, Conv, Within, Answers, Called, Once

LEMMA MuteConcat ==
  ASSUME NEW s \in Seq(Items), NEW t \in Seq(Items), Mute(s), Mute(t)
  PROVE  s \o t \in Seq(Items) /\ Mute(s \o t)
<1> DEFINE u == s \o t
<1>1. /\ u \in Seq(Items)
      /\ \A x \in 1..Len(s) : u[x] = s[x]
      /\ \A x \in 1..Len(u) : \/ x \in 1..Len(s)
                              \/ x > Len(s) /\ x - Len(s) \in 1..Len(t) /\ u[x] = t[x - Len(s)]
  BY Joined
<1> HIDE DEF u
<1>2. ASSUME NEW x \in 1..Len(u) PROVE ~IsCall(u[x]) /\ ~IsResult(u[x])
  <2>1. CASE x \in 1..Len(s)
    <3>1. u[x] = s[x] BY <1>1, <2>1
    <3> QED BY <2>1, <3>1 DEF Mute
  <2>2. CASE x - Len(s) \in 1..Len(t) /\ u[x] = t[x - Len(s)]
    BY <2>2 DEF Mute
  <2> QED BY <1>1, <2>1, <2>2
<1>3. Mute(u) BY <1>2 DEF Mute
<1> QED BY <1>1, <1>3 DEF u

\* Something else is said.
LEMMA ConvMute ==
  ASSUME NEW s \in Seq(Items), NEW t \in Seq(Items), Mute(t),
         NEW it \in Int, NEW n \in Nat, NEW c \in Nat, Conv(s, it, n, c)
  PROVE  s \o t \in Seq(Items) /\ Conv(s \o t, it, n, c)
<1> DEFINE u == s \o t
<1>1. /\ Len(s) \in Nat /\ Len(u) \in Nat /\ Len(s) <= Len(u)
      /\ \A x \in 1..Len(s) : x \in 1..Len(u) /\ u[x] = s[x]
      /\ \A x \in 1..Len(u) : IsCall(u[x]) \/ IsResult(u[x]) => x \in 1..Len(s)
  BY Joined DEF Mute
<1>2. u \in Seq(Items) BY Joined
<1> HIDE DEF u
<1>3. Within(u, it, n, c) BY <1>1 DEF Conv, Within
<1>4. Answers(u, it, n)
  <2> SUFFICES ASSUME NEW i \in 1..Len(u), IsCall(u[i]), NEW k \in 1..u[i][3], ~(u[i][2] = it /\ k >= n)
               PROVE  \E j \in i + 1 .. Len(u) : u[j] = <<"result", u[i][2], k>>
    BY DEF Answers
  <2>1. i \in 1..Len(s) /\ u[i] = s[i] BY <1>1
  <2>2. PICK j \in i + 1 .. Len(s) : s[j] = <<"result", u[i][2], k>>
    BY <2>1 DEF Conv, Answers
  <2>3. j \in 1..Len(s) /\ j \in i + 1 .. Len(u) BY <1>1, <2>1
  <2> QED BY <1>1, <2>2, <2>3
<1>5. Called(u)
  <2> SUFFICES ASSUME NEW i \in 1..Len(u), IsResult(u[i])
               PROVE  \E j \in 1 .. i - 1 : IsCall(u[j]) /\ u[j][2] = u[i][2] /\ u[j][3] >= u[i][3]
    BY DEF Called
  <2>1. i \in 1..Len(s) /\ u[i] = s[i] BY <1>1
  <2>2. PICK j \in 1 .. i - 1 : IsCall(s[j]) /\ s[j][2] = s[i][2] /\ s[j][3] >= s[i][3]
    BY <2>1 DEF Conv, Called
  <2>3. j \in 1..Len(s) BY <1>1, <2>1
  <2> QED BY <1>1, <2>1, <2>2, <2>3
<1>6. Once(u) BY <1>1 DEF Conv, Once
<1> QED BY <1>2, <1>3, <1>4, <1>5, <1>6 DEF Conv, u

\* The calls of a new iteration.
LEMMA ConvCalls ==
  ASSUME NEW s \in Seq(Items), NEW it \in Int, NEW c \in Nat, Conv(s, it, 1, 0),
         NEW t \in Seq(Items), t = << <<"calls", it, c>> >>
  PROVE  Conv(s \o t, it, 1, c) /\ Occurs(s \o t, <<"calls", it, c>>)
<1> DEFINE u == s \o t
<1>1. Len(t) = 1 /\ t[1] = <<"calls", it, c>> /\ Len(s) \in Nat OBVIOUS
<1>2. /\ Len(u) = Len(s) + 1 /\ u[Len(s) + 1] = <<"calls", it, c>> /\ u \in Seq(Items)
      /\ \A x \in 1..Len(s) : x \in 1..Len(u) /\ u[x] = s[x]
      /\ \A x \in 1..Len(u) : x \in 1..Len(s) \/ x = Len(s) + 1
  BY <1>1, Joined
<1> HIDE DEF u
<1>3. Within(u, it, 1, c)
  <2>1. ASSUME NEW x \in 1..Len(u), IsCall(u[x])
        PROVE  u[x][2] < it \/ (u[x][2] = it /\ u[x][3] <= c)
    <3>1. CASE x \in 1..Len(s)
      <4>1. u[x] = s[x] BY <1>2, <3>1
      <4>2. s[x][2] < it \/ (s[x][2] = it /\ s[x][3] <= 0) BY <2>1, <3>1, <4>1 DEF Conv, Within
      <4>3. s[x][3] \in Nat BY <3>1, ItemFacts
      <4> QED BY <4>1, <4>2, <4>3
    <3>2. CASE x = Len(s) + 1
      <4>1. u[x][2] = it /\ u[x][3] = c BY <1>2, <3>2
      <4> QED BY <4>1
    <3> QED BY <1>2, <3>1, <3>2
  <2>2. ASSUME NEW x \in 1..Len(u), IsResult(u[x])
        PROVE  u[x][2] < it \/ (u[x][2] = it /\ u[x][3] < 1)
    <3>1. x # Len(s) + 1 BY <1>2, <2>2 DEF IsResult
    <3>2. x \in 1..Len(s) /\ u[x] = s[x] BY <1>2, <3>1
    <3> QED BY <2>2, <3>2 DEF Conv, Within
  <2> QED BY <2>1, <2>2 DEF Within
<1>4. Answers(u, it, 1)
  <2> SUFFICES ASSUME NEW i \in 1..Len(u), IsCall(u[i]), NEW k \in 1..u[i][3], ~(u[i][2] = it /\ k >= 1)
               PROVE  \E j \in i + 1 .. Len(u) : u[j] = <<"result", u[i][2], k>>
    BY DEF Answers
  <2>0. ASSUME i = Len(s) + 1 PROVE FALSE
    <3>1. u[i][2] = it /\ u[i][3] = c BY <1>2, <2>0
    <3> QED BY <3>1
  <2>1. i \in 1..Len(s) /\ u[i] = s[i] BY <1>2, <2>0
  <2>2. PICK j \in i + 1 .. Len(s) : s[j] = <<"result", u[i][2], k>>
    BY <2>1 DEF Conv, Answers
  <2>3. j \in 1..Len(s) /\ j \in i + 1 .. Len(u) BY <1>1, <1>2, <2>1
  <2> QED BY <1>2, <2>2, <2>3
<1>5. Called(u)
  <2> SUFFICES ASSUME NEW i \in 1..Len(u), IsResult(u[i])
               PROVE  \E j \in 1 .. i - 1 : IsCall(u[j]) /\ u[j][2] = u[i][2] /\ u[j][3] >= u[i][3]
    BY DEF Called
  <2>1. i \in 1..Len(s) /\ u[i] = s[i] BY <1>2 DEF IsResult
  <2>2. PICK j \in 1 .. i - 1 : IsCall(s[j]) /\ s[j][2] = s[i][2] /\ s[j][3] >= s[i][3]
    BY <2>1 DEF Conv, Called
  <2>3. j \in 1..Len(s) BY <1>1, <2>1
  <2> QED BY <1>2, <2>1, <2>2, <2>3
<1>6. Once(u) BY <1>2 DEF Conv, Once, IsResult
<1>7. Occurs(u, <<"calls", it, c>>)
  <2>1. Len(s) + 1 \in DOMAIN u BY <1>1, <1>2, LenProperties
  <2> QED BY <1>2, <2>1 DEF Occurs
<1> QED BY <1>3, <1>4, <1>5, <1>6, <1>7 DEF Conv, u

\* The next answers to the calls of the iteration.
LEMMA ConvResults ==
  ASSUME NEW s \in Seq(Items), NEW t \in Seq(Items), NEW it \in Int, NEW n \in Nat, NEW c \in Nat,
         Conv(s, it, n, c), Occurs(s, <<"calls", it, c>>),
         \A x \in 1..Len(t) : t[x] = <<"result", it, n + x - 1>>, n + Len(t) <= c + 1
  PROVE  s \o t \in Seq(Items) /\ Conv(s \o t, it, n + Len(t), c)
<1> DEFINE u == s \o t
<1>1. /\ Len(s) \in Nat /\ Len(t) \in Nat /\ Len(u) = Len(s) + Len(t) /\ u \in Seq(Items)
      /\ \A x \in 1..Len(s) : x \in 1..Len(u) /\ u[x] = s[x]
      /\ \A x \in 1..Len(t) : x + Len(s) \in 1..Len(u) /\ u[x + Len(s)] = t[x]
      /\ \A x \in 1..Len(u) : \/ x \in 1..Len(s)
                              \/ x > Len(s) /\ x - Len(s) \in 1..Len(t) /\ u[x] = t[x - Len(s)]
  BY Joined
<1> HIDE DEF u
\* An item of u is one of s, or the result n + (x - Len(s)) - 1.
<1>2. ASSUME NEW x \in 1..Len(u)
      PROVE  \/ x \in 1..Len(s) /\ u[x] = s[x]
             \/ /\ x > Len(s) /\ x - Len(s) \in 1..Len(t)
                /\ u[x] = <<"result", it, n + (x - Len(s)) - 1>>
  BY <1>1
<1>3. Within(u, it, n + Len(t), c)
  <2>1. ASSUME NEW x \in 1..Len(u), IsCall(u[x])
        PROVE  u[x][2] < it \/ (u[x][2] = it /\ u[x][3] <= c)
    <3>1. x \in 1..Len(s) /\ u[x] = s[x] BY <1>2, <2>1 DEF IsCall
    <3> QED BY <2>1, <3>1 DEF Conv, Within
  <2>2. ASSUME NEW x \in 1..Len(u), IsResult(u[x])
        PROVE  u[x][2] < it \/ (u[x][2] = it /\ u[x][3] < n + Len(t))
    <3>1. CASE x \in 1..Len(s) /\ u[x] = s[x]
      <4>1. s[x] \in Items BY <3>1, ElementOfSeq
      <4>2. s[x][3] \in Nat BY <4>1 DEF Items
      <4>3. s[x][2] < it \/ (s[x][2] = it /\ s[x][3] < n) BY <2>2, <3>1 DEF Conv, Within
      <4> QED BY <1>1, <3>1, <4>2, <4>3
    <3>2. CASE /\ x > Len(s) /\ x - Len(s) \in 1..Len(t)
               /\ u[x] = <<"result", it, n + (x - Len(s)) - 1>>
      <4>1. u[x][2] = it /\ u[x][3] = n + (x - Len(s)) - 1 BY <3>2
      <4>2. n + (x - Len(s)) - 1 < n + Len(t) BY <1>1, <3>2
      <4> QED BY <4>1, <4>2
    <3> QED BY <1>2, <3>1, <3>2
  <2> QED BY <2>1, <2>2 DEF Within
<1>4. Answers(u, it, n + Len(t))
  <2> SUFFICES ASSUME NEW i \in 1..Len(u), IsCall(u[i]), NEW k \in 1..u[i][3],
                      ~(u[i][2] = it /\ k >= n + Len(t))
               PROVE  \E j \in i + 1 .. Len(u) : u[j] = <<"result", u[i][2], k>>
    BY DEF Answers
  <2>0. \/ i \in 1..Len(s) /\ u[i] = s[i]
        \/ u[i] = <<"result", it, n + (i - Len(s)) - 1>>
    BY <1>2
  <2>1. i \in 1..Len(s) /\ u[i] = s[i] BY <2>0 DEF IsCall
  <2>2. CASE u[i][2] = it /\ k >= n
    <3> DEFINE j == Len(s) + (k - n + 1)
    <3>1. k \in Nat /\ k - n + 1 \in 1..Len(t) /\ n + (k - n + 1) - 1 = k BY <1>1, <2>2
    <3>2. u[(k - n + 1) + Len(s)] = <<"result", it, k>> BY <1>1, <3>1
    <3>3. (k - n + 1) + Len(s) \in i + 1 .. Len(u) BY <1>1, <2>1, <3>1
    <3> QED BY <2>2, <3>2, <3>3
  <2>3. CASE ~(u[i][2] = it /\ k >= n)
    <3>1. PICK j \in i + 1 .. Len(s) : s[j] = <<"result", u[i][2], k>>
      BY <2>1, <2>3 DEF Conv, Answers
    <3>2. j \in 1..Len(s) /\ j \in i + 1 .. Len(u) BY <1>1, <2>1
    <3> QED BY <1>1, <3>1, <3>2
  <2> QED BY <2>2, <2>3
<1>5. Called(u)
  <2> SUFFICES ASSUME NEW i \in 1..Len(u), IsResult(u[i])
               PROVE  \E j \in 1 .. i - 1 : IsCall(u[j]) /\ u[j][2] = u[i][2] /\ u[j][3] >= u[i][3]
    BY DEF Called
  <2>1. CASE i \in 1..Len(s) /\ u[i] = s[i]
    <3>1. PICK j \in 1 .. i - 1 : IsCall(s[j]) /\ s[j][2] = s[i][2] /\ s[j][3] >= s[i][3]
      BY <2>1 DEF Conv, Called
    <3>2. j \in 1..Len(s) BY <1>1, <2>1
    <3> QED BY <1>1, <2>1, <3>1, <3>2
  <2>2. CASE /\ i > Len(s) /\ i - Len(s) \in 1..Len(t)
             /\ u[i] = <<"result", it, n + (i - Len(s)) - 1>>
    <3>1. PICK j \in 1..Len(s) : s[j] = <<"calls", it, c>> BY LenProperties DEF Occurs
    <3>2. u[j] = <<"calls", it, c>> BY <1>1, <3>1
    <3>3. j \in 1 .. i - 1 BY <1>1, <2>2, <3>1
    <3>4. n + (i - Len(s)) - 1 <= c BY <1>1, <2>2
    <3>5. IsCall(u[j]) /\ u[j][2] = it /\ u[j][3] = c BY <3>2 DEF IsCall
    <3>6. u[i][2] = it /\ u[i][3] <= c BY <2>2, <3>4
    <3> QED BY <3>3, <3>5, <3>6
  <2> QED BY <1>2, <2>1, <2>2
<1>6. Once(u)
  <2> SUFFICES ASSUME NEW i \in 1..Len(u), NEW j \in 1..Len(u), IsResult(u[i]), u[i] = u[j]
               PROVE  i = j
    BY DEF Once
  <2>1. ASSUME NEW x \in 1..Len(s), NEW y \in 1..Len(u), IsResult(s[x]), u[y] = s[x],
               y > Len(s), u[y] = <<"result", it, n + (y - Len(s)) - 1>>
        PROVE  FALSE
    <3>1. s[x][2] = it /\ s[x][3] = n + (y - Len(s)) - 1 BY <2>1
    <3>2. s[x][2] < it \/ (s[x][2] = it /\ s[x][3] < n) BY <2>1 DEF Conv, Within
    <3> QED BY <1>1, <2>1, <3>1, <3>2
  <2>2. CASE i \in 1..Len(s) /\ j \in 1..Len(s) BY <1>1, <2>2 DEF Conv, Once
  <2>3. CASE i \in 1..Len(s) /\ j \notin 1..Len(s)
    <3>1. u[i] = s[i] /\ j > Len(s) /\ u[j] = <<"result", it, n + (j - Len(s)) - 1>>
      BY <1>1, <1>2, <2>3
    <3> QED BY <2>1, <2>3, <3>1
  <2>4. CASE i \notin 1..Len(s) /\ j \in 1..Len(s)
    <3>1. u[j] = s[j] /\ i > Len(s) /\ u[i] = <<"result", it, n + (i - Len(s)) - 1>>
      BY <1>1, <1>2, <2>4
    <3> QED BY <2>1, <2>4, <3>1
  <2>5. CASE i \notin 1..Len(s) /\ j \notin 1..Len(s)
    <3>1. n + (i - Len(s)) - 1 = n + (j - Len(s)) - 1 BY <1>2, <2>5
    <3> QED BY <1>1, <3>1
  <2> QED BY <2>2, <2>3, <2>4, <2>5
<1> QED BY <1>1, <1>3, <1>4, <1>5, <1>6 DEF Conv, u

\* The iteration is over: nothing of it is open.
LEMMA ConvClose ==
  ASSUME NEW s \in Seq(Items), NEW it \in Int, NEW n \in Nat, NEW c \in Nat, Conv(s, it, n, c), n > c
  PROVE  Conv(s, it + 1, 1, 0)
<1>1. \A i \in 1..Len(s) : s[i][2] \in Int /\ s[i][3] \in Nat BY ElementOfSeq DEF Items
<1>2. Within(s, it + 1, 1, 0)
  <2>1. ASSUME NEW x \in 1..Len(s), IsCall(s[x]) PROVE s[x][2] < it + 1
    <3>1. s[x][2] < it \/ s[x][2] = it BY <2>1 DEF Conv, Within
    <3> QED BY <1>1, <3>1
  <2>2. ASSUME NEW x \in 1..Len(s), IsResult(s[x]) PROVE s[x][2] < it + 1
    <3>1. s[x][2] < it \/ s[x][2] = it BY <2>2 DEF Conv, Within
    <3> QED BY <1>1, <3>1
  <2> QED BY <2>1, <2>2 DEF Within
<1>3. Answers(s, it + 1, 1)
  <2> SUFFICES ASSUME NEW i \in 1..Len(s), IsCall(s[i]), NEW k \in 1..s[i][3]
               PROVE  \E j \in i + 1 .. Len(s) : s[j] = <<"result", s[i][2], k>>
    BY DEF Answers
  <2>1. ~(s[i][2] = it /\ k >= n) BY <1>1 DEF Conv, Within
  <2> QED BY <2>1 DEF Conv, Answers
<1> QED BY <1>2, <1>3 DEF Conv

LEMMA ConvPaired ==
  ASSUME NEW s \in Seq(Items), NEW it \in Int, Conv(s, it, 1, 0)
  PROVE  Paired(s)
<1>0. DOMAIN s = 1..Len(s) /\ Len(s) \in Nat BY LenProperties
<1>1. ASSUME NEW i \in 1..Len(s), IsCall(s[i]), NEW k \in 1..s[i][3]
      PROVE  LET r == <<"result", s[i][2], k>> IN Count(s, r) = 1 /\ First(s, r) > i
  <2> DEFINE r == <<"result", s[i][2], k>>
  <2>0. s[i][2] \in Int /\ s[i][3] \in Nat BY ElementOfSeq DEF Items
  <2>1. ~(s[i][2] = it /\ k >= 1) BY <1>1, <2>0 DEF Conv, Within
  <2>2. PICK j \in i + 1 .. Len(s) : s[j] = r BY <1>1, <2>1 DEF Conv, Answers
  <2>3. j \in 1..Len(s) /\ IsResult(s[j]) BY <1>0, <2>2 DEF IsResult
  <2> HIDE DEF r
  <2>4. \A x \in 1..Len(s) : s[x] = r => x = j BY <2>2, <2>3 DEF Conv, Once
  <2>5. {x \in DOMAIN s : s[x] = r} = {j} BY <1>0, <2>2, <2>3, <2>4
  <2>6. Count(s, r) = 1 BY <2>5, FS_Singleton DEF Count
  <2>7. Occurs(s, r) BY <1>0, <2>2, <2>3 DEF Occurs
  <2>8. First(s, r) = j BY <2>4, <2>7, FirstIs
  <2> QED BY <2>2, <2>6, <2>8 DEF r
<1> QED BY <1>0, <1>1 DEF Paired, Conv, Called, IsCall, IsResult

LEMMA RunMute == ASSUME NEW s, NEW i \in Nat, Run(s, i) PROVE Mute(s)
<1>1. \A n : Steer(n)[1] = "steer" BY DEF Steer
<1> QED BY <1>1 DEF Run, Mute, IsCall, IsResult

LEMMA MuteSingle ==
  ASSUME NEW x \in Items, x[1] \notin {"calls", "result"} PROVE <<x>> \in Seq(Items) /\ Mute(<<x>>)
<1>1. <<x>> \in Seq(Items) /\ Len(<<x>>) = 1 /\ <<x>>[1] = x BY Single
<1>2. ~IsCall(x) /\ ~IsResult(x) BY DEF IsCall, IsResult
<1> QED BY <1>1, <1>2 DEF Mute

LEMMA SubMute ==
  ASSUME Typed, subs \in Nat, NEW sub \in SubResult
  PROVE  sub \in Seq(Items) /\ Mute(sub)
<1>1. CASE sub = <<>> BY <1>1, EmptySeq DEF Mute
<1>2. CASE sub = << <<"sub", subs + 1, 0>> >>
  <2>1. <<"sub", subs + 1, 0>> \in Items /\ <<"sub", subs + 1, 0>>[1] = "sub"
    BY DEF Items, Kinds
  <2>2. <<"sub", subs + 1, 0>>[1] \notin {"calls", "result"} BY <2>1
  <2> QED BY <1>2, <2>1, <2>2, MuteSingle
<1> QED BY <1>1, <1>2 DEF SubResult

LEMMA ReplyMute == ASSUME Typed PROVE <<Reply>> \in Seq(Items) /\ Mute(<<Reply>>)
<1>1. Reply \in Items /\ Reply[1] \notin {"calls", "result"} BY ItemTypes DEF Reply
<1> QED BY <1>1, MuteSingle

LEMMA OccursStill ==
  ASSUME NEW s \in Seq(Items), NEW t \in Seq(Items), NEW x, Occurs(s, x)
  PROVE  Occurs(s \o t, x)
<1>1. PICK i \in 1..Len(s) : s[i] = x BY LenProperties DEF Occurs
<1>2. i \in 1..Len(s \o t) /\ (s \o t)[i] = s[i] /\ s \o t \in Seq(Items) BY Joined
<1>3. i \in DOMAIN (s \o t) BY <1>2, LenProperties
<1> QED BY <1>1, <1>2, <1>3 DEF Occurs

LEMMA MuteEmpty == <<>> \in Seq(Items) /\ Mute(<<>>) /\ <<>> \o <<>> = <<>>
BY EmptySeq DEF Mute

\* Dequeued steering neither calls nor answers.
LEMMA MuteDequeued ==
  ASSUME queue \in Seq(Items), Mute(queue) PROVE Mute(Taken) /\ Mute(Untaken)
<1>1. CASE queue = <<>>
  <2>1. Taken = <<>> /\ Untaken = <<>>
    BY <1>1, SubSeqProperties DEF Taken, Untaken
  <2> QED BY <2>1, MuteEmpty
<1>2. CASE queue # <<>> /\ SteeringAll
  <2>1. Taken = queue /\ Untaken = <<>> BY <1>2 DEF Taken, Untaken
  <2> QED BY <2>1, MuteEmpty
<1>3. CASE queue # <<>> /\ ~SteeringAll
  <2>1. Len(queue) \in Nat /\ Len(queue) >= 1 BY <1>3, EmptySeq
  <2>2. Taken = SubSeq(queue, 1, 1) /\ Untaken = Tail(queue)
    BY <1>3 DEF Taken, Untaken
  <2>3. Len(Taken) = 1 /\ Taken[1] = queue[1]
    BY <2>1, <2>2, SubSeqProperties
  <2>4. Mute(Taken) BY <2>1, <2>3 DEF Mute
  <2>5. Len(Untaken) = Len(queue) - 1 /\ \A x \in 1..Len(queue) - 1 : Untaken[x] = queue[x + 1]
    BY <1>3, <2>2, HeadTailProperties
  <2>6. \A x \in 1..Len(queue) - 1 : x + 1 \in 1..Len(queue) BY <2>1
  <2> QED BY <2>4, <2>5, <2>6 DEF Mute
<1> QED BY <1>1, <1>2, <1>3

\* Steering that waits, in the queue or in exec.pendingMessages.
Hushed == Mute(queue) /\ Mute(execPend)

LEMMA HushedStep ==
  ASSUME IInv, Hushed, [Next]_vars PROVE Hushed'
<1> USE DEF Goto, End, controlVars, inputVars, vars
<1> SUFFICES Mute(queue') /\ Mute(execPend') BY DEF Hushed
<1>1. queue \in Seq(Items) /\ execPend \in Seq(Items) /\ Mute(queue) /\ Mute(execPend)
  BY DEF IInv, Typed, Hushed
<1>2. Mute(Taken) /\ Mute(Untaken) /\ Taken \in Seq(Items) BY <1>1, MuteDequeued, Dequeued
<1>3. Mute(Deposit) BY <1>1, <1>2, MuteConcat DEF Deposit
<1>4. Mute(<<>>) BY MuteEmpty
<1>5. CASE BeginIteration BY <1>1, <1>2, <1>4, <1>5 DEF BeginIteration
<1>6. CASE Answered
  <2>1. UNCHANGED <<queue, execPend>> \/ (queue' = Untaken /\ execPend' = Deposit)
    BY <1>6 DEF Answered, Deposit
  <2> QED BY <1>1, <1>2, <1>3, <2>1
<1>7. CASE \E handled \in BOOLEAN : ToolResult(handled)
  <2>1. queue' = Untaken /\ execPend' = Deposit BY <1>7 DEF ToolResult
  <2> QED BY <1>2, <1>3, <2>1
<1>8. CASE ToolsContinue
  <2>1. UNCHANGED <<queue, execPend>> \/ (queue' = Untaken /\ execPend' = Taken)
    BY <1>8 DEF ToolsContinue
  <2> QED BY <1>1, <1>2, <2>1
<1>9. CASE SteerArrives
  <2>1. queue' = Append(queue, Steer(arrived + 1)) /\ execPend' = execPend
    BY <1>9 DEF SteerArrives
  <2>2. Steer(arrived + 1) \in Items BY SteerItem DEF IInv, Typed
  <2>3. /\ Len(queue') = Len(queue) + 1 /\ Len(queue) \in Nat
        /\ \A x \in 1..Len(queue) : queue'[x] = queue[x]
        /\ queue'[Len(queue) + 1] = Steer(arrived + 1)
    BY <1>1, <2>1, <2>2, AppendProperties, LenProperties
  <2>4. ~IsCall(Steer(arrived + 1)) /\ ~IsResult(Steer(arrived + 1))
    BY DEF Steer, IsCall, IsResult
  <2>5. ASSUME NEW x \in 1..Len(queue') PROVE ~IsCall(queue'[x]) /\ ~IsResult(queue'[x])
    <3>1. x \in 1..Len(queue) \/ x = Len(queue) + 1 BY <2>3
    <3> QED BY <1>1, <2>3, <2>4, <3>1 DEF Mute
  <2> QED BY <1>1, <2>1, <2>5 DEF Mute
<1>10. UNCHANGED <<queue, execPend>> \/ BeginIteration \/ Answered \/ ToolsContinue
         \/ SteerArrives \/ \E handled \in BOOLEAN : ToolResult(handled)
  <2>1. Coordinator => UNCHANGED <<queue, execPend>> \/ BeginIteration
    BY DEF Coordinator, SeesHardAbort, AbortTurn, SetupTurn, ExhaustIterations, Finalize,
           FinalizeFails, FinalizeHandled
  <2>2. Llm => UNCHANGED <<queue, execPend>> \/ Answered
    BY DEF Llm, PrepareCall, CallAnswered, CallCanceled, CallFails, CallTransient, Backoff,
           BackoffAborted, BackoffCanceled, CallOverflows, ToolCalls
  <2>3. Tools => UNCHANGED <<queue, execPend>> \/ ToolsContinue
                   \/ \E handled \in BOOLEAN : ToolResult(handled)
    BY DEF Tools, ToolDenied, ToolHookAborts, ToolStarts, ToolRespondedByHook, ToolReturns,
           ToolReturnsToHook, ToolsHandled
  <2>4. Interrupt \/ HardAbortSteps \/ UNCHANGED vars => UNCHANGED <<queue, execPend>>
    BY DEF Interrupt, HardAbortSteps, HardAbortRequest, HardAbortRead, HardAbortCut
  <2> QED BY <2>1, <2>2, <2>3, <2>4 DEF Next
<1> QED BY <1>1, <1>5, <1>6, <1>7, <1>8, <1>9, <1>10

LEMMA HushedInit == Init => Hushed
<1> SUFFICES ASSUME Init PROVE Hushed OBVIOUS
<1>1. InitialSteering \in Nat /\ Len(Initial) = InitialSteering BY TurnLoopAssumption DEF Initial
<1>2. \A x \in 1..InitialSteering : Initial[x] = Steer(x) BY DEF Initial
<1>3. \A n : Steer(n)[1] = "steer" BY DEF Steer
<1>4. Mute(Initial) BY <1>1, <1>2, <1>3 DEF Mute, IsCall, IsResult
<1> QED BY <1>4, MuteEmpty DEF Init, Hushed

LEMMA HushedHolds == Spec => []Hushed
<1>1. IInv /\ Hushed /\ [Next]_vars => Hushed' BY HushedStep
<1> QED BY <1>1, HushedInit, InvariantHolds, PTL DEF Spec

\* A step that says t: to the LLM, to the session, and to persistedMessages,
\* which does not record the results of SubTurns.
Hears(t) ==
  /\ messages \in Seq(Items) => messages' = messages \o t
  /\ history \in Seq(Items) => HardAbortCut \/ history' = history \o t
  /\ persisted \in Seq(Items) /\ SubResults = 0 => persisted' = persisted \o t

\* Whatever conversation s was as the place of the turn asks, is so after it.
Continued(t) == \A s \in Seq(Items) : Talks(s) => TalksNext(s \o t)

\* A tool result comes in, alone or with the skipped rest, or a SubTurn
\* result behind it.
LEMMA ResultTalks ==
  ASSUME IInv, Places, NEW handled, GetsResult(handled)
  PROVE  \E t \in Seq(Items) : Hears(t) /\ Continued(t)
<1>0. /\ iteration \in Int /\ next \in Nat /\ calls \in Nat /\ next <= calls
  BY DEF IInv, Typed, GetsResult
<1>1. /\ pc' = "tools" /\ pc \in InTools /\ UNCHANGED <<iteration, calls, status>>
      /\ status # "completed"
  BY DEF GetsResult, ToolResult, Goto, resultVars, Places, InTools
<1> DEFINE one == <<Result(next)>>
<1>2. one \in Seq(Items) /\ Len(one) = 1 /\ one[1] = Result(next)
  BY <1>0, ItemTypes, Single DEF IInv
<1>2a. Result(next) \in Items BY <1>0, ItemTypes DEF IInv
<1> HIDE DEF one
<1>3. CASE SkipsRest
  <2>2. /\ Skipped \in Seq(Items) /\ Len(Skipped) = calls - next
        /\ \A k \in 1..calls - next : Skipped[k] = Result(next + k)
    BY <1>0, SkippedType DEF IInv
  <2> DEFINE all == one \o Skipped
  <2>3. /\ all \in Seq(Items) /\ Len(all) = Len(one) + Len(Skipped) /\ Len(one) \in Nat
        /\ \A x \in 1..Len(one) : all[x] = one[x]
        /\ \A x \in 1..Len(all) : \/ x \in 1..Len(one)
                                  \/ x - Len(one) \in 1..Len(Skipped) /\ all[x] = Skipped[x - Len(one)]
    BY <1>2, <2>2, Joined
  <2>1. Say(all) /\ next' = calls + 1
    BY <1>3 DEF GetsResult, ToolResult, one
  <2> HIDE DEF all
  <2>4. ASSUME NEW x \in 1..Len(all) PROVE all[x] = <<"result", iteration, next + x - 1>>
    <3>1. CASE x \in 1..Len(one)
      <4>1. x = 1 /\ next + x - 1 = next BY <1>0, <1>2, <3>1
      <4> QED BY <1>2, <2>3, <3>1, <4>1 DEF Result
    <3>2. CASE x - Len(one) \in 1..Len(Skipped) /\ all[x] = Skipped[x - Len(one)]
      <4>1. x - 1 \in 1..calls - next /\ all[x] = Skipped[x - 1] BY <1>2, <2>2, <3>2
      <4>2. all[x] = Result(next + (x - 1)) BY <2>2, <4>1
      <4>3. next + (x - 1) = next + x - 1 BY <1>0, <2>3
      <4> QED BY <4>2, <4>3 DEF Result
    <3> QED BY <2>3, <3>1, <3>2
  <2>5. next + Len(all) = calls + 1 BY <1>0, <1>2, <2>2, <2>3
  <2>6. next + Len(all) <= calls + 1 BY <1>0, <2>5
  <2>7. Hears(all) BY <2>1 DEF Say, Hears
  <2>8. ASSUME NEW s \in Seq(Items), Talks(s) PROVE TalksNext(s \o all)
    <3>1. Conv(s, iteration, next, calls) /\ Occurs(s, <<"calls", iteration, calls>>)
      BY <1>1, <2>8 DEF Talks, TalksAt
    <3>2. Conv(s \o all, iteration, next + Len(all), calls)
      BY <1>0, <2>3, <2>4, <2>6, <3>1, ConvResults
    <3>3. Occurs(s \o all, <<"calls", iteration, calls>>) BY <2>3, <3>1, OccursStill
    <3> QED BY <1>1, <2>1, <2>5, <3>2, <3>3 DEF TalksNext, TalksAt, InCall, InTools, Settled
  <2> QED BY <2>3, <2>7, <2>8 DEF Continued
<1>4. CASE ~SkipsRest
  <2>1. PICK sub \in SubResult : /\ messages' = messages \o one \o sub
                                 /\ history' = history \o one \o sub
    BY <1>4 DEF GetsResult, ToolResult, one
  <2>2. next' = next + 1 /\ persisted' = Append(persisted, Result(next))
    BY <1>4 DEF GetsResult, ToolResult
  <2>3. sub \in Seq(Items) /\ Mute(sub) BY SubMute DEF Places, IInv
  <2>4. \A x \in 1..Len(one) : one[x] = <<"result", iteration, next + x - 1>>
    <3> SUFFICES ASSUME NEW x \in 1..Len(one) PROVE one[x] = <<"result", iteration, next + x - 1>>
      OBVIOUS
    <3>1. x = 1 /\ next + x - 1 = next BY <1>0, <1>2
    <3> QED BY <1>2, <3>1 DEF Result
  <2>5. next + Len(one) <= calls + 1 /\ next + Len(one) = next' /\ next + 1 \in Nat
        /\ next' = next + 1
    BY <1>0, <1>2, <2>2
  <2> DEFINE t == one \o sub
  <2>6. t \in Seq(Items) BY <1>2, <2>3, ConcatProperties
  <2>7. \A s \in Seq(Items) : (s \o one) \o sub = s \o t BY <1>2, <2>3, ConcatAssociative
  <2>8. SubResults = 0 /\ persisted \in Seq(Items) => persisted' = persisted \o t
    <3> SUFFICES ASSUME SubResults = 0, persisted \in Seq(Items) PROVE persisted' = persisted \o t
      OBVIOUS
    <3>1. sub = <<>> BY DEF SubResult, Places
    <3>2. t = one BY <1>2, <3>1, ConcatEmptySeq
    <3>3. Append(persisted, Result(next)) = persisted \o one BY <1>2a, AppendIsConcat DEF one
    <3> QED BY <2>2, <3>2, <3>3
  <2> HIDE DEF t
  <2>9. Hears(t)
    <3>1. messages \in Seq(Items) => messages' = messages \o t BY <2>1, <2>7
    <3>2. history \in Seq(Items) => history' = history \o t BY <2>1, <2>7
    <3> QED BY <2>8, <3>1, <3>2 DEF Hears
  <2>10. ASSUME NEW s \in Seq(Items), Talks(s) PROVE TalksNext(s \o t)
    <3>1. Conv(s, iteration, next, calls) /\ Occurs(s, <<"calls", iteration, calls>>)
      BY <1>1, <2>10 DEF Talks, TalksAt
    <3> DEFINE told == s \o one
    <3>2. told \in Seq(Items) /\ Conv(told, iteration, next + Len(one), calls)
      BY <1>0, <1>2, <2>4, <2>5, <3>1, ConvResults
    <3>3. Occurs(told, <<"calls", iteration, calls>>) BY <1>2, <3>1, OccursStill
    <3>4. s \o t = told \o sub BY <2>7
    <3> HIDE DEF told
    <3>5. Conv(told, iteration, next + 1, calls) BY <1>2, <3>2
    <3>6. Conv(told \o sub, iteration, next + 1, calls)
      BY <1>0, <2>3, <2>5, <3>2, <3>5, ConvMute
    <3>7. Occurs(told \o sub, <<"calls", iteration, calls>>) BY <2>3, <3>2, <3>3, OccursStill
    <3> QED BY <1>1, <2>2, <3>4, <3>6, <3>7 DEF TalksNext, TalksAt, InCall, InTools, Settled
  <2> QED BY <2>6, <2>9, <2>10 DEF Continued
<1> QED BY <1>3, <1>4

LEMMA BeginTalks ==
  ASSUME IInv, Places, Hushed, BeginIteration
  PROVE  \E t \in Seq(Items) : Hears(t) /\ Continued(t)
<1>0. iteration \in Nat /\ iteration + 1 \in Int BY Numbers DEF IInv
<1>1. Mute(pend) BY MuteEmpty DEF Places, Hushed
<1>2. Mute(Injects)
  <2>1. Mute(Taken) BY MuteDequeued DEF IInv, Typed, Hushed
  <2> QED BY <2>1, MuteEmpty DEF Injects, Hushed
<1>3. PICK sub \in SubResult : Say(pend \o Injects \o sub) BY Begins
<1>4. sub \in Seq(Items) /\ Mute(sub) BY SubMute DEF Places, IInv
<1>5. pend \in Seq(Items) /\ Injects \in Seq(Items) BY Begins
<1> DEFINE batch == pend \o Injects
<1>6. batch \in Seq(Items) /\ Mute(batch) BY <1>1, <1>2, <1>5, MuteConcat
<1>7. Say(batch \o sub) BY <1>3
<1> HIDE DEF batch
<1> DEFINE said == batch \o sub
<1>8. said \in Seq(Items) /\ Mute(said) BY <1>4, <1>6, MuteConcat
<1>9. Say(said) BY <1>7
<1> HIDE DEF said
<1>10. Hears(said) BY <1>9 DEF Say, Hears
<1>11. pc = "head" /\ iteration' = iteration + 1 /\ pc' = "llm" /\ status' # "completed"
  BY DEF BeginIteration, Goto, resultVars, Places
<1>12. ASSUME NEW s \in Seq(Items), Talks(s) PROVE TalksNext(s \o said)
  <2>1. Conv(s, iteration + 1, 1, 0) BY <1>11, <1>12 DEF Talks, TalksAt, Settled
  <2>2. Conv(s \o said, iteration + 1, 1, 0) BY <1>0, <1>8, <2>1, ConvMute
  <2> QED BY <1>11, <2>2 DEF TalksNext, TalksAt, InCall, InTools, Settled
<1> QED BY <1>8, <1>10, <1>12 DEF Continued

\* What a step says, when it neither sets the turn up, nor aborts it, nor
\* compacts.
LEMMA TalksOn ==
  ASSUME IInv, Places, Hushed, [Next]_vars, ~SetupTurn, ~AbortTurn, ~CallOverflows
  PROVE  \E t \in Seq(Items) : Hears(t) /\ Continued(t)
<1>0. /\ iteration \in Int /\ iteration \in Nat /\ next \in Nat /\ calls \in Nat
      /\ iteration + 1 \in Int
  BY DEF IInv, Typed
<1>1. \A s \in Seq(Items) : s \o <<>> = s BY ConcatEmptySeq
<1>2. ASSUME UNCHANGED <<messages, persisted>>, UNCHANGED history \/ HardAbortCut PROVE Hears(<<>>)
  BY <1>1, <1>2 DEF Hears
<1>3. <<>> \in Seq(Items) BY EmptySeq
<1>4. CASE Idles
  <2>1. UNCHANGED <<messages, history, persisted, iteration, calls, next>> BY <1>4 DEF Idles
  <2>2. ASSUME NEW s \in Seq(Items), Talks(s) PROVE TalksNext(s \o <<>>)
    <3>1. pc \in InCall => Conv(s, iteration + 1, 1, 0)
      BY <1>0, <2>2, ConvClose DEF Talks, TalksAt
    <3>2. pc' \in InCall => Conv(s, iteration, 1, 0)
      BY <1>4, <2>2 DEF Idles, Talks, TalksAt
    <3>3. pc' \in InTools => Conv(s, iteration, next, calls)
                             /\ Occurs(s, <<"calls", iteration, calls>>)
      BY <1>4, <2>2 DEF Idles, Talks, TalksAt
    <3>4. pc' \in Settled => Conv(s, iteration + 1, 1, 0)
      BY <1>4, <2>2, <3>1 DEF Idles, Talks, TalksAt
    <3>5. status' = "completed" => Conv(s, iteration + 1, 1, 0)
      BY <1>4, <2>2 DEF Idles, Talks, TalksAt, Settled
    <3> QED BY <1>1, <2>1, <3>2, <3>3, <3>4, <3>5 DEF TalksNext, TalksAt
  <2> QED BY <1>2, <1>3, <2>1, <2>2 DEF Continued
<1>5. CASE BeginIteration BY <1>5, BeginTalks
<1>6. CASE Finalize \/ FinalizeFails
  <2>1. /\ pc = "finalize" /\ pc' = "ended" /\ Say(<<Reply>>) /\ UNCHANGED iteration
    BY <1>6 DEF Finalize, FinalizeFails, End, controlVars
  <2>2. <<Reply>> \in Seq(Items) /\ Mute(<<Reply>>) BY ReplyMute DEF IInv
  <2>3. ASSUME NEW s \in Seq(Items), Talks(s) PROVE TalksNext(s \o <<Reply>>)
    <3>1. Conv(s, iteration + 1, 1, 0) BY <2>1, <2>3 DEF Talks, TalksAt, Settled
    <3>2. Conv(s \o <<Reply>>, iteration + 1, 1, 0) BY <1>0, <2>2, <3>1, ConvMute
    <3> QED BY <2>1, <3>2 DEF TalksNext, TalksAt, InCall, InTools, Settled
  <2>4. Hears(<<Reply>>) BY <2>1 DEF Say, Hears
  <2> QED BY <2>2, <2>3, <2>4 DEF Continued
<1>7. CASE Answered /\ queue # <<>>
  <2>1. /\ pc = "response" /\ pc' = "head"
        /\ UNCHANGED <<messages, history, persisted, iteration, status>>
    BY <1>7 DEF Answered, Goto, resultVars, controlVars, convVars
  <2>2. ASSUME NEW s \in Seq(Items), Talks(s) PROVE TalksNext(s \o <<>>)
    <3>1. Conv(s, iteration, 1, 0) /\ status # "completed"
      BY <2>1, <2>2 DEF Talks, TalksAt, InCall, Places
    <3>2. Conv(s, iteration + 1, 1, 0) BY <1>0, <3>1, ConvClose
    <3> QED BY <1>1, <2>1, <3>1, <3>2 DEF TalksNext, TalksAt, InCall, InTools, Settled
  <2> QED BY <1>2, <1>3, <2>1, <2>2 DEF Continued
<1>8. CASE ToolCalls
  <2>1. PICK c \in 1..MaxCalls : calls' = c /\ Say(<< <<"calls", iteration, c>> >>)
    BY <1>8 DEF ToolCalls
  <2>2. /\ pc = "response" /\ pc' = "tools" /\ next' = 1 /\ UNCHANGED <<iteration, status>>
    BY <1>8 DEF ToolCalls, Goto, resultVars
  <2>3. c \in Nat BY TurnLoopAssumption
  <2> DEFINE t == << <<"calls", iteration, c>> >>
  <2>4. t \in Seq(Items) BY <2>3, ItemTypes, Single DEF IInv
  <2>5. ASSUME NEW s \in Seq(Items), Talks(s) PROVE TalksNext(s \o t)
    <3>1. Conv(s, iteration, 1, 0) /\ status # "completed"
      BY <2>2, <2>5 DEF Talks, TalksAt, InCall, Places
    <3>2. Conv(s \o t, iteration, 1, c) /\ Occurs(s \o t, <<"calls", iteration, c>>)
      BY <1>0, <2>3, <2>4, <3>1, ConvCalls
    <3> HIDE DEF t
    <3> QED BY <2>1, <2>2, <3>1, <3>2 DEF TalksNext, TalksAt, InCall, InTools, Settled
  <2>6. Hears(t) BY <2>1 DEF Say, Hears
  <2> QED BY <2>4, <2>5, <2>6 DEF Continued
<1>9. CASE ToolDenied
  <2>1. /\ pc = "tools" /\ next <= calls /\ pc' = "tools" /\ next' = next + 1
        /\ Say(<<Result(next)>>) /\ UNCHANGED <<iteration, calls, status>>
    BY <1>9 DEF ToolDenied, AtTool, resultVars
  <2> DEFINE one == <<Result(next)>>
  <2>3. one \in Seq(Items) /\ Len(one) = 1 /\ one[1] = Result(next)
    BY <1>0, ItemTypes, Single DEF IInv
  <2>4. Hears(one) BY <2>1 DEF Say, Hears
  <2> HIDE DEF one
  <2>5. \A x \in 1..Len(one) : one[x] = <<"result", iteration, next + x - 1>>
    <3> SUFFICES ASSUME NEW x \in 1..Len(one) PROVE one[x] = <<"result", iteration, next + x - 1>>
      OBVIOUS
    <3>1. x = 1 /\ next + x - 1 = next BY <1>0, <2>3
    <3> QED BY <2>3, <3>1 DEF Result
  <2>6. next + Len(one) <= calls + 1 BY <1>0, <2>1, <2>3
  <2>7. ASSUME NEW s \in Seq(Items), Talks(s) PROVE TalksNext(s \o one)
    <3>1. /\ Conv(s, iteration, next, calls) /\ Occurs(s, <<"calls", iteration, calls>>)
          /\ status # "completed"
      BY <2>1, <2>7 DEF Talks, TalksAt, InTools, Places
    <3>2. Conv(s \o one, iteration, next + Len(one), calls)
      BY <1>0, <2>3, <2>5, <2>6, <3>1, ConvResults
    <3>3. Occurs(s \o one, <<"calls", iteration, calls>>) BY <2>3, <3>1, OccursStill
    <3> QED BY <2>1, <2>3, <3>1, <3>2, <3>3 DEF TalksNext, TalksAt, InCall, InTools, Settled
  <2> QED BY <2>3, <2>4, <2>7 DEF Continued
<1>10. CASE ToolsContinue
  <2>1. /\ pc = "tools" /\ next > calls /\ pc' = "head"
        /\ UNCHANGED <<messages, history, persisted, iteration, status>>
    BY <1>10 DEF ToolsContinue, Goto, resultVars, convVars
  <2>2. ASSUME NEW s \in Seq(Items), Talks(s) PROVE TalksNext(s \o <<>>)
    <3>1. Conv(s, iteration, next, calls) /\ status # "completed"
      BY <2>1, <2>2 DEF Talks, TalksAt, InTools, Places
    <3>2. Conv(s, iteration + 1, 1, 0) BY <1>0, <2>1, <3>1, ConvClose
    <3> QED BY <1>1, <2>1, <3>1, <3>2 DEF TalksNext, TalksAt, InCall, InTools, Settled
  <2> QED BY <1>2, <1>3, <2>1, <2>2 DEF Continued
<1>11. CASE ToolsHandled
  <2>1. /\ pc = "tools" /\ next > calls /\ pc' = "handled" /\ Say(<<Reply>>)
        /\ UNCHANGED <<iteration, status>>
    BY <1>11 DEF ToolsHandled, Goto, resultVars, controlVars
  <2>2. <<Reply>> \in Seq(Items) /\ Mute(<<Reply>>) BY ReplyMute DEF IInv
  <2>3. ASSUME NEW s \in Seq(Items), Talks(s) PROVE TalksNext(s \o <<Reply>>)
    <3>1. Conv(s, iteration, next, calls) /\ status # "completed"
      BY <2>1, <2>3 DEF Talks, TalksAt, InTools, Places
    <3>2. Conv(s, iteration + 1, 1, 0) BY <1>0, <2>1, <3>1, ConvClose
    <3>3. Conv(s \o <<Reply>>, iteration + 1, 1, 0) BY <1>0, <2>2, <3>2, ConvMute
    <3> QED BY <2>1, <3>1, <3>3 DEF TalksNext, TalksAt, InCall, InTools, Settled
  <2>4. Hears(<<Reply>>) BY <2>1 DEF Say, Hears
  <2> QED BY <2>2, <2>3, <2>4 DEF Continued
<1>12. CASE \E handled \in BOOLEAN : GetsResult(handled) BY <1>12, ResultTalks
<1>13. CASE SteerArrives \/ HardAbortRead \/ HardAbortCut
  <2>1. /\ UNCHANGED <<pc, status, messages, persisted, iteration, calls, next>>
        /\ UNCHANGED history \/ HardAbortCut
    BY <1>13 DEF SteerArrives, HardAbortRead, HardAbortCut, resultVars, convVars, controlVars
  <2>2. \A s \in Seq(Items) : Talks(s) => TalksNext(s \o <<>>)
    BY <1>1, <2>1 DEF Talks, TalksNext
  <2> QED BY <1>2, <1>3, <2>1, <2>2 DEF Continued
<1> QED BY <1>4, <1>5, <1>6, <1>7, <1>8, <1>9, <1>10, <1>11, <1>12, <1>13, Steps

LEMMA TalkNext == Talk' <=> TalksNext(messages')
BY DEF Talk, Talks, TalksNext

\* The user message, after a history that has neither calls nor results.
LEMMA UserMute ==
  ASSUME NEW user, user = IF InitialSteering = 0 THEN << <<"user", 0, 0>> >> ELSE <<>>
  PROVE  user \in Seq(Items) /\ Mute(user)
<1>1. <<"user", 0, 0>> \in Items /\ <<"user", 0, 0>>[1] \notin {"calls", "result"}
  BY DEF Items, Kinds
<1>2. << <<"user", 0, 0>> >> \in Seq(Items) /\ Mute(<< <<"user", 0, 0>> >>)
  BY <1>1, MuteSingle
<1> QED BY <1>2, MuteEmpty

LEMMA OldMute == Old \in Seq(Items) /\ Mute(Old)
<1>1. Old \in Seq(Items) /\ Len(Old) = 2 * OldTurns BY OldType, TurnLoopAssumption DEF Old
<1>2. \A x \in 1..2 * OldTurns : Old[x][1] \in {"user", "reply"} BY DEF Old
<1> QED BY <1>1, <1>2 DEF Mute, IsCall, IsResult

LEMMA TalkStep ==
  ASSUME ~MayOverflow, IInv, Places, Steering, Hushed, Talk, [Next]_vars
  PROVE  Talk'
<1>0. messages \in Seq(Items) BY DEF Steering
<1>1. CASE SetupTurn
  <2> DEFINE user == IF InitialSteering = 0 THEN << <<"user", 0, 0>> >> ELSE <<>>
  <2>1. history = Old BY <1>1 DEF SetupTurn, Places
  <2>2. messages' \in {Old \o user, <<>> \o user}
    <3>1. PICK compact \in {FALSE, MayOverflow} :
            LET h == IF compact THEN AfterCompact(history) ELSE history
            IN  \E kept \in IF compact THEN Trims(Assembled(h)) ELSE {Assembled(h)} :
                  messages' = kept \o user
      BY <1>1 DEF SetupTurn
    <3>2. ~compact OBVIOUS
    <3>3. messages' = Assembled(history) \o user BY <3>1, <3>2
    <3> QED BY <2>1, <3>3 DEF Assembled
  <2>3. user \in Seq(Items) /\ Mute(user) BY UserMute
  <2> HIDE DEF user
  <2>4. Mute(messages') BY <2>2, <2>3, OldMute, MuteEmpty, MuteConcat
  <2>5. \A it, n, c : Conv(messages', it, n, c) BY <2>4, MuteConv
  <2>6. pc' \in {"head", "ended"} /\ status' # "completed"
    BY <1>1 DEF SetupTurn, Goto, End, resultVars, Places
  <2>7. TalksNext(messages') BY <2>5, <2>6 DEF TalksNext, TalksAt, InTools
  <2> QED BY <2>7, TalkNext
<1>2. CASE AbortTurn
  <2>1. pc' = "ended" /\ status' = "aborted" BY <1>2 DEF AbortTurn, End
  <2>2. TalksNext(messages') BY <2>1 DEF TalksNext, TalksAt, InCall, InTools, Settled
  <2> QED BY <2>2, TalkNext
<1>3. CASE ~SetupTurn /\ ~AbortTurn
  <2>1. ~CallOverflows BY DEF CallOverflows
  <2>2. PICK t \in Seq(Items) : Hears(t) /\ Continued(t) BY <1>3, <2>1, TalksOn
  <2>3. messages' = messages \o t BY <1>0, <2>2 DEF Hears
  <2>4. TalksNext(messages \o t) BY <1>0, <2>2 DEF Talk, Continued
  <2> QED BY <2>3, <2>4, TalkNext
<1> QED BY <1>1, <1>2, <1>3

LEMMA TalkInit == Init => Talk
BY DEF Init, Talk, Talks, TalksAt, InCall, InTools, Settled

\* A conversation that talks as it should is well formed where that is asked.
LEMMA TalksPaired ==
  ASSUME IInv, NEW s \in Seq(Items), Talks(s), pc = "call" \/ status = "completed"
  PROVE  Paired(s)
<1>1. iteration \in Int /\ iteration + 1 \in Int BY Numbers DEF IInv
<1>2. Conv(s, iteration, 1, 0) \/ Conv(s, iteration + 1, 1, 0)
  BY DEF Talks, TalksAt, InCall
<1> QED BY <1>1, <1>2, ConvPaired

LEMMA AnsweredUncompacted ==
  ASSUME ~MayOverflow PROVE Spec => []EveryCallIsAnswered
<1>1. IInv /\ Places /\ Steering /\ Hushed /\ Talk /\ [Next]_vars => Talk' BY TalkStep
<1>2. Spec => []Talk
  BY <1>1, TalkInit, InvariantHolds, PlacesHold, SteeringHolds, HushedHolds, PTL DEF Spec
<1>3. IInv /\ Steering /\ Talk => EveryCallIsAnswered
  BY TalksPaired DEF EveryCallIsAnswered, Steering, Talk
<1> QED BY <1>2, <1>3, InvariantHolds, SteeringHolds, PTL
-----------------------------------------------------------------------------
(***************************************************************************)
(* A compaction cuts between turns.  What it keeps begins with a message of *)
(* role "user", and no such message lies between a call and its result      *)
(* (Apart): those of an iteration are injected before its calls are made    *)
(* (Latest).  A session that has lost its head would be cut in the middle,  *)
(* so its first message, too, is one of role "user" while a call may        *)
(* overflow (Headed).                                                       *)
(***************************************************************************)
Apart(h) ==
  \A b \in Boundaries(h), i, j \in 1..Len(h) :
    i < b /\ b <= j /\ IsCall(h[i]) /\ IsResult(h[j]) => h[i][2] # h[j][2]

\* Calls are numbered by iterations up to it; those of iteration it are behind
\* everything of role "user".
Latest(h, it) ==
  \A i \in 1..Len(h) : IsCall(h[i]) =>
    h[i][2] \in 1..it /\ (h[i][2] = it => \A b \in Boundaries(h) : b < i)

Sound(h, it) == h \in Seq(Items) /\ Apart(h) /\ Latest(h, it)

Headed(h) == Len(h) > 0 /\ 1 \in Boundaries(h)
HeadedOrEmpty(h) == h = <<>> \/ Headed(h)

\* Nothing of role "user", no call or result of another iteration.
Own(s, it) ==
  \A x \in 1..Len(s) : /\ x \notin Boundaries(s)
                       /\ IsCall(s[x]) \/ IsResult(s[x]) => s[x][2] = it

LEMMA BoundaryKind ==
  ASSUME NEW h, NEW b \in Boundaries(h)
  PROVE  b \in 1..Len(h) /\ ~IsCall(h[b]) /\ ~IsResult(h[b])
BY DEF Boundaries, IsCall, IsResult

LEMMA Sliced ==
  ASSUME NEW h \in Seq(Items), NEW m \in Nat \ {0}, NEW n \in Int, n <= Len(h), m <= n + 1
  PROVE  /\ SubSeq(h, m, n) \in Seq(Items) /\ Len(SubSeq(h, m, n)) = n - m + 1
         /\ \A x \in 1..n - m + 1 : x + m - 1 \in 1..Len(h) /\ SubSeq(h, m, n)[x] = h[x + m - 1]
<1>1. Len(h) \in Nat BY LenProperties
<1>2. \A i \in m..n : h[i] \in Items
  <2> SUFFICES ASSUME NEW i \in m..n PROVE h[i] \in Items OBVIOUS
  <2>1. i \in 1..Len(h) BY <1>1
  <2> QED BY <2>1, ElementOfSeq
<1>3. m \in Int OBVIOUS
<1>4. /\ SubSeq(h, m, n) \in Seq(Items)
      /\ Len(SubSeq(h, m, n)) = IF m <= n THEN n - m + 1 ELSE 0
      /\ \A i \in 1..n - m + 1 : SubSeq(h, m, n)[i] = h[m + i - 1]
  BY <1>2, <1>3, SubSeqProperties
<1>5. ASSUME NEW x \in 1..n - m + 1
      PROVE  x + m - 1 \in 1..Len(h) /\ SubSeq(h, m, n)[x] = h[x + m - 1]
  <2>1. m + x - 1 = x + m - 1 /\ x + m - 1 \in 1..Len(h) BY <1>1
  <2> QED BY <1>4, <2>1
<1>6. Len(SubSeq(h, m, n)) = n - m + 1 BY <1>4
<1> QED BY <1>4, <1>5, <1>6

\* A part of a sound conversation is sound.
LEMMA SoundSlice ==
  ASSUME NEW h, NEW it \in Nat, Sound(h, it), NEW m \in Nat \ {0}, NEW n \in Int, n <= Len(h),
         m <= n + 1
  PROVE  Sound(SubSeq(h, m, n), it)
<1> DEFINE u == SubSeq(h, m, n)
           at(x) == x + m - 1
<1>0. h \in Seq(Items) BY DEF Sound
<1>1. /\ u \in Seq(Items) /\ Len(u) = n - m + 1
      /\ \A x \in 1..n - m + 1 : x + m - 1 \in 1..Len(h) /\ SubSeq(h, m, n)[x] = h[x + m - 1]
  BY <1>0, Sliced
<1>2. \A x \in 1..Len(u) : at(x) \in 1..Len(h) /\ u[x] = h[at(x)] BY <1>1
<1>3. \A x, y \in 1..Len(u) : x < y <=> at(x) < at(y) BY <1>1
<1>4. \A x, y \in 1..Len(u) : x <= y <=> at(x) <= at(y) BY <1>1
<1>5. u \in Seq(Items) BY <1>1
<1> HIDE DEF u, at
<1>6. \A b \in Boundaries(u) : b \in 1..Len(u) /\ at(b) \in Boundaries(h)
  BY <1>2 DEF Boundaries
<1>7. Apart(u)
  <2> SUFFICES ASSUME NEW b \in Boundaries(u), NEW i \in 1..Len(u), NEW j \in 1..Len(u),
                      i < b, b <= j, IsCall(u[i]), IsResult(u[j])
               PROVE  u[i][2] # u[j][2]
    BY DEF Apart
  <2>1. b \in 1..Len(u) /\ at(b) \in Boundaries(h) BY <1>6
  <2>2. at(i) < at(b) /\ at(b) <= at(j) BY <1>3, <1>4, <2>1
  <2>3. /\ at(i) \in 1..Len(h) /\ u[i] = h[at(i)]
        /\ at(j) \in 1..Len(h) /\ u[j] = h[at(j)]
    BY <1>2
  <2>4. IsCall(h[at(i)]) /\ IsResult(h[at(j)]) BY <2>3
  <2>5. h[at(i)][2] # h[at(j)][2] BY <2>1, <2>2, <2>3, <2>4 DEF Sound, Apart
  <2> QED BY <2>3, <2>5
<1>8. Latest(u, it)
  <2> SUFFICES ASSUME NEW i \in 1..Len(u), IsCall(u[i])
               PROVE  u[i][2] \in 1..it /\ (u[i][2] = it => \A b \in Boundaries(u) : b < i)
    BY DEF Latest
  <2>1. at(i) \in 1..Len(h) /\ u[i] = h[at(i)] BY <1>2
  <2>2. IsCall(h[at(i)]) BY <2>1
  <2>3. /\ h[at(i)][2] \in 1..it
        /\ h[at(i)][2] = it => \A b \in Boundaries(h) : b < at(i)
    BY <2>1, <2>2 DEF Sound, Latest
  <2>4. ASSUME u[i][2] = it, NEW b \in Boundaries(u) PROVE b < i
    <3>1. b \in 1..Len(u) /\ at(b) \in Boundaries(h) BY <1>6
    <3>2. at(b) < at(i) BY <2>1, <2>3, <2>4, <3>1
    <3> QED BY <1>3, <3>1, <3>2
  <2> QED BY <2>1, <2>3, <2>4
<1> QED BY <1>5, <1>7, <1>8 DEF Sound, u

\* Where the boundaries of a concatenation come from.
LEMMA BoundariesJoined ==
  ASSUME NEW s \in Seq(Items), NEW t \in Seq(Items), NEW b \in Boundaries(s \o t)
  PROVE  b \in Boundaries(s) \/ (b > Len(s) /\ b - Len(s) \in Boundaries(t))
<1>1. b \in 1..Len(s \o t) /\ (s \o t)[b][1] \in {"user", "steer", "sub"} BY DEF Boundaries
<1>2. CASE b \in 1..Len(s)
  <2>1. (s \o t)[b] = s[b] BY <1>2, Joined
  <2> QED BY <1>1, <1>2, <2>1 DEF Boundaries
<1>3. CASE b > Len(s) /\ b - Len(s) \in 1..Len(t) /\ (s \o t)[b] = t[b - Len(s)]
  BY <1>1, <1>3 DEF Boundaries
<1> QED BY <1>1, <1>2, <1>3, Joined

\* What is said grows a sound conversation: messages that neither call nor
\* answer, before the calls of an iteration; or, in it, its own calls and
\* answers.
LEMMA SoundGrows ==
  ASSUME NEW h, NEW it \in Nat, NEW it1 \in Nat, Sound(h, it), NEW t \in Seq(Items), it <= it1,
         \/ Mute(t) /\ (it < it1 \/ it1 = 0)
         \/ Own(t, it) /\ it1 = it /\ it # 0
  PROVE  Sound(h \o t, it1)
<1> DEFINE u == h \o t
<1>0. h \in Seq(Items) BY DEF Sound
<1>1. /\ u \in Seq(Items) /\ Len(h) \in Nat /\ Len(t) \in Nat
      /\ \A x \in 1..Len(h) : x \in 1..Len(u) /\ u[x] = h[x]
      /\ \A x \in 1..Len(u) : \/ x \in 1..Len(h)
                              \/ x > Len(h) /\ x - Len(h) \in 1..Len(t) /\ u[x] = t[x - Len(h)]
  BY <1>0, Joined
<1>2. \A b \in Boundaries(u) : \/ b \in Boundaries(h)
                               \/ b > Len(h) /\ b - Len(h) \in Boundaries(t)
  BY <1>0, BoundariesJoined
<1> HIDE DEF u
<1>3. \A b \in Boundaries(h) : b \in 1..Len(h) BY DEF Boundaries
<1>4. \A b \in Boundaries(t) : b \in 1..Len(t) BY DEF Boundaries
<1>5. Len(u) \in Nat BY <1>1, LenProperties
\* New results are answers of the current iteration, and then nothing new is
\* of role "user".
<1>6. ASSUME NEW j \in 1..Len(u), j \notin 1..Len(h), IsCall(u[j]) \/ IsResult(u[j])
      PROVE  Own(t, it) /\ it1 = it /\ it # 0 /\ u[j][2] = it /\ j > Len(h)
  <2>1. j > Len(h) /\ j - Len(h) \in 1..Len(t) /\ u[j] = t[j - Len(h)] BY <1>1, <1>6
  <2>2. ~Mute(t) BY <1>6, <2>1 DEF Mute
  <2>3. Own(t, it) /\ it1 = it /\ it # 0 BY <2>2
  <2>4. IsCall(t[j - Len(h)]) \/ IsResult(t[j - Len(h)]) BY <1>6, <2>1
  <2>5. t[j - Len(h)][2] = it BY <2>1, <2>3, <2>4 DEF Own
  <2> QED BY <2>1, <2>3, <2>5
<1>7. ASSUME Own(t, it) PROVE \A b \in Boundaries(u) : b \in Boundaries(h)
  <2>1. \A b : b \notin Boundaries(t) BY <1>4, <1>7 DEF Own
  <2> QED BY <1>2, <2>1
<1>8. ASSUME NEW i \in 1..Len(u), IsCall(u[i]), i \in 1..Len(h)
      PROVE  /\ u[i] = h[i] /\ IsCall(h[i]) /\ h[i][2] \in 1..it
             /\ h[i][2] = it => \A b \in Boundaries(h) : b < i
  <2>1. u[i] = h[i] /\ IsCall(h[i]) BY <1>1, <1>8
  <2> QED BY <1>8, <2>1 DEF Sound, Latest
<1>9. Apart(u)
  <2> SUFFICES ASSUME NEW b \in Boundaries(u), NEW i \in 1..Len(u), NEW j \in 1..Len(u),
                      i < b, b <= j, IsCall(u[i]), IsResult(u[j])
               PROVE  u[i][2] # u[j][2]
    BY DEF Apart
  <2>0. b \in 1..Len(u) BY DEF Boundaries
  <2>1. CASE j \in 1..Len(h)
    <3>1. i \in 1..Len(h) /\ b <= Len(h) BY <1>1, <2>0, <2>1
    <3>2. b \in Boundaries(h) BY <1>1, <1>2, <3>1, <2>0
    <3>3. u[i] = h[i] /\ u[j] = h[j] BY <1>1, <2>1, <3>1
    <3>4. IsCall(h[i]) /\ IsResult(h[j]) BY <3>3
    <3>5. h[i][2] # h[j][2] BY <2>1, <3>1, <3>2, <3>4 DEF Sound, Apart
    <3> QED BY <3>3, <3>5
  <2>2. CASE j \notin 1..Len(h)
    <3>1. Own(t, it) /\ u[j][2] = it BY <1>6, <2>2
    <3>2. b \in Boundaries(h) BY <1>7, <3>1
    <3>3. i \in 1..Len(h) BY <1>1, <1>3, <3>2
    <3>4. u[i] = h[i] /\ (h[i][2] = it => \A c \in Boundaries(h) : c < i) BY <1>8, <3>3
    <3>5. h[i][2] # it
      <4> SUFFICES ASSUME h[i][2] = it PROVE FALSE OBVIOUS
      <4>1. b < i BY <3>2, <3>4
      <4> QED BY <2>0, <4>1
    <3> QED BY <3>1, <3>4, <3>5
  <2> QED BY <2>1, <2>2
<1>10. Latest(u, it1)
  <2> SUFFICES ASSUME NEW i \in 1..Len(u), IsCall(u[i])
               PROVE  u[i][2] \in 1..it1 /\ (u[i][2] = it1 => \A b \in Boundaries(u) : b < i)
    BY DEF Latest
  <2>1. CASE i \in 1..Len(h)
    <3>1. /\ u[i] = h[i] /\ h[i][2] \in 1..it
          /\ h[i][2] = it => \A b \in Boundaries(h) : b < i
      BY <1>8, <2>1
    <3>2. u[i][2] \in 1..it1 BY <3>1
    <3>3. ASSUME u[i][2] = it1 PROVE \A b \in Boundaries(u) : b < i
      <4>1. ~(it < it1 \/ it1 = 0) BY <3>1, <3>3
      <4>2. Own(t, it) /\ it1 = it BY <4>1
      <4>3. \A b \in Boundaries(h) : b < i BY <3>1, <3>3, <4>2
      <4> QED BY <1>7, <4>2, <4>3
    <3> QED BY <3>2, <3>3
  <2>2. CASE i \notin 1..Len(h)
    <3>1. Own(t, it) /\ it1 = it /\ it # 0 /\ u[i][2] = it /\ i > Len(h) BY <1>6, <2>2
    <3>2. \A b \in Boundaries(u) : b \in 1..Len(h) BY <1>3, <1>7, <3>1
    <3>3. \A b \in Boundaries(u) : b < i BY <1>1, <3>1, <3>2
    <3> QED BY <3>1, <3>3
  <2> QED BY <2>1, <2>2
<1>11. u \in Seq(Items) BY <1>1
<1> QED BY <1>9, <1>10, <1>11 DEF Sound, u

\* What is said keeps the head.
LEMMA HeadedGrows ==
  ASSUME NEW h \in Seq(Items), NEW t \in Seq(Items), Headed(h) PROVE Headed(h \o t)
<1>1. 1 \in 1..Len(h) /\ h[1][1] \in {"user", "steer", "sub"} /\ Len(h) > 0
  BY DEF Headed, Boundaries
<1>2. 1 \in 1..Len(h \o t) /\ (h \o t)[1] = h[1] BY <1>1, Joined
<1>3. Len(h \o t) > 0 BY <1>2
<1> QED BY <1>1, <1>2, <1>3 DEF Headed, Boundaries

LEMMA HeadedCut ==
  ASSUME NEW h \in Seq(Items), Headed(h), NEW n \in Nat, n <= Len(h)
  PROVE  HeadedOrEmpty(SubSeq(h, 1, n))
<1>0. 1 \in 1..Len(h) /\ h[1][1] \in {"user", "steer", "sub"} BY DEF Headed, Boundaries
<1> DEFINE u == SubSeq(h, 1, n)
<1>1. 1 \in Nat \ {0} /\ n \in Int /\ n <= Len(h) /\ 1 <= n + 1 OBVIOUS
<1>2. /\ u \in Seq(Items) /\ Len(u) = n - 1 + 1
      /\ \A x \in 1..n - 1 + 1 : x + 1 - 1 \in 1..Len(h) /\ SubSeq(h, 1, n)[x] = h[x + 1 - 1]
  BY <1>1, Sliced
<1>3. Len(u) = n /\ (n # 0 => u[1] = h[1])
  <2>1. n # 0 => 1 \in 1..n - 1 + 1 /\ 1 + 1 - 1 = 1 OBVIOUS
  <2> QED BY <1>2, <2>1
<1>4. u \in Seq(Items) BY <1>2
<1> HIDE DEF u
<1>5. CASE n = 0 BY <1>3, <1>4, <1>5, EmptySeq DEF HeadedOrEmpty, u
<1>6. CASE n # 0
  <2>1. u[1] = h[1] /\ 1 \in 1..Len(u) /\ Len(u) > 0 BY <1>3, <1>6
  <2>2. 1 \in Boundaries(u) BY <1>0, <2>1 DEF Boundaries
  <2> QED BY <2>1, <2>2 DEF HeadedOrEmpty, Headed, u
<1> QED BY <1>5, <1>6

-----------------------------------------------------------------------------
(***************************************************************************)
(* Where a compaction cuts.                                                 *)
(***************************************************************************)
Below(B, b) == {x \in B : x < b}

LEMMA Greatest ==
  ASSUME NEW n \in Nat, NEW T, T \subseteq 0..n, T # {}
  PROVE  \E x \in T : \A y \in T : y <= x
<1> DEFINE U == {n - x : x \in T}
<1>1. U \subseteq Nat /\ U # {}
  <2>1. ASSUME NEW x \in T PROVE n - x \in Nat
    <3>1. x \in 0..n OBVIOUS
    <3> QED BY <3>1
  <2> QED BY <2>1
<1>2. PICK u \in U : \A v \in U : u <= v
  <2> HIDE DEF U
  <2> QED BY <1>1, Least
<1>3. PICK x \in T : u = n - x OBVIOUS
<1>4. \A y \in T : n - x <= n - y BY <1>2, <1>3
<1>5. ASSUME NEW y \in T PROVE y <= x
  <2>1. x \in 0..n /\ y \in 0..n OBVIOUS
  <2> QED BY <1>4, <2>1
<1> QED BY <1>5

\* Of n elements one has k below it, for every k < n: the least of those that
\* have k or more, for its predecessor has one less.
LEMMA Ranked ==
  ASSUME NEW n \in Nat, NEW B, B \subseteq 0..n, NEW k \in Nat, k < Cardinality(B)
  PROVE  \E b \in B : Cardinality(Below(B, b)) = k
<1>1. IsFiniteSet(B)
  <2>1. IsFiniteSet(0..n) BY FS_Interval
  <2> QED BY <2>1, FS_Subset
<1>2. \A b : Below(B, b) \subseteq B BY DEF Below
<1>3. \A b : IsFiniteSet(Below(B, b)) /\ Cardinality(Below(B, b)) \in Nat
  BY <1>1, <1>2, FS_Subset, FS_CardinalityType
<1>4. Cardinality(B) \in Nat BY <1>1, FS_CardinalityType
<1>0. \A b \in B : b \in Nat OBVIOUS
<1> DEFINE T == {b \in B : Cardinality(Below(B, b)) >= k}
<1>5. T # {}
  <2>1. B # {} BY <1>4, FS_EmptySet
  <2>2. PICK m \in B : \A y \in B : y <= m BY <2>1, Greatest
  <2>3. Below(B, m) = B \ {m}
    <3>1. \A x \in B : x < m <=> x # m BY <1>0, <2>2
    <3> QED BY <3>1 DEF Below
  <2>4. Cardinality(B \ {m}) = Cardinality(B) - 1 BY <1>1, <2>2, FS_RemoveElement
  <2>5. Cardinality(Below(B, m)) >= k BY <1>4, <2>3, <2>4
  <2> QED BY <2>2, <2>5
<1>6. T \subseteq B /\ T \subseteq Nat BY <1>0
<1>7. PICK b \in T : \A y \in T : b <= y
  <2> HIDE DEF T
  <2> QED BY <1>5, <1>6, Least
<1>8. b \in B /\ Cardinality(Below(B, b)) >= k OBVIOUS
<1>9. ASSUME Cardinality(Below(B, b)) # k PROVE FALSE
  <2>1. Cardinality(Below(B, b)) > k BY <1>3, <1>8, <1>9
  <2>2. Below(B, b) # {} BY <2>1, FS_EmptySet
  <2>3. Below(B, b) \subseteq 0..n BY <1>2
  <2>4. PICK c \in Below(B, b) : \A y \in Below(B, b) : y <= c BY <2>2, <2>3, Greatest
  <2>5. c \in B /\ c < b BY <2>4 DEF Below
  <2>6. Below(B, c) = Below(B, b) \ {c}
    <3>1. ASSUME NEW x \in B PROVE x < c <=> x < b /\ x # c
      <4>1. x \in Nat /\ b \in Nat /\ c \in Nat BY <1>0, <1>8, <2>5
      <4>2. x < b => x <= c BY <2>4 DEF Below
      <4> QED BY <2>5, <4>1, <4>2
    <3> QED BY <3>1 DEF Below
  <2>7. Cardinality(Below(B, b) \ {c}) = Cardinality(Below(B, b)) - 1
    BY <1>3, <2>4, FS_RemoveElement
  <2>8. Cardinality(Below(B, c)) >= k BY <1>3, <2>1, <2>6, <2>7
  <2>9. c \in T BY <2>5, <2>8
  <2>10. b <= c BY <1>7, <2>9
  <2> QED BY <1>8, <2>5, <2>10
<1> QED BY <1>8, <1>9

\* forceCompression leaves a conversation as it is, or keeps it from the start
\* of a turn on, or one message of role "user".
LEMMA CutsAtBoundary ==
  ASSUME NEW h \in Seq(Items), HeadedOrEmpty(h), Compacted(h) # h
  PROVE  \E b \in Boundaries(h) : \/ Compacted(h) = SubSeq(h, b, Len(h))
                                  \/ Compacted(h) = <<h[b]>>
<1> DEFINE B == Boundaries(h)
           cut == IF Cardinality(B) >= 2 THEN MiddleOf(B) ELSE SafeCut(h, B)
<1>0. Len(h) \in Nat BY LenProperties
<1>1. ~(Len(h) <= 2) /\ Compacted(h) = IF cut > 1 THEN SubSeq(h, cut, Len(h)) ELSE <<h[LastOf(B)]>>
  BY DEF Compacted
<1>2. h # <<>> BY <1>0, <1>1, EmptySeq
<1>3. 1 \in B /\ B \subseteq 0..Len(h) BY <1>0, <1>2 DEF HeadedOrEmpty, Headed, Boundaries
<1> HIDE DEF B
<1>4. LastOf(B) \in B
  <2>1. \E b \in B : \A x \in B : x <= b BY <1>0, <1>3, Greatest
  <2> QED BY <2>1 DEF LastOf
<1>5. cut \in B
  <2>1. CASE Cardinality(B) >= 2
    <3>1. IsFiniteSet(B)
      <4>1. IsFiniteSet(0..Len(h)) BY <1>0, FS_Interval
      <4> QED BY <1>3, <4>1, FS_Subset
    <3>2. Cardinality(B) \in Nat BY <3>1, FS_CardinalityType
    <3>3. Cardinality(B) \div 2 \in Nat /\ Cardinality(B) \div 2 < Cardinality(B) BY <2>1, <3>2
    <3>4. \E b \in B : Cardinality(Below(B, b)) = Cardinality(B) \div 2
      BY <1>0, <1>3, <3>3, Ranked
    <3>5. \E b \in B : Cardinality({x \in B : x < b}) = Cardinality(B) \div 2 BY <3>4 DEF Below
    <3>6. MiddleOf(B) \in B BY <3>5 DEF MiddleOf
    <3> QED BY <2>1, <3>6
  <2>2. CASE ~(Cardinality(B) >= 2)
    <3>1. SafeCut(h, B) = LastOf(B) BY <1>3 DEF SafeCut
    <3> QED BY <1>4, <2>2, <3>1
  <2> QED BY <2>1, <2>2
<1> HIDE DEF cut
<1> QED BY <1>1, <1>4, <1>5 DEF B

\* What is left of a sound conversation.
LEMMA CompactedSound ==
  ASSUME NEW h, NEW it \in Nat, Sound(h, it), HeadedOrEmpty(h)
  PROVE  /\ Sound(Compacted(h), it) /\ HeadedOrEmpty(Compacted(h))
         /\ Compacted(h) = <<>> => h = <<>>
<1>0. h \in Seq(Items) /\ Len(h) \in Nat BY LenProperties DEF Sound
<1>1. CASE Compacted(h) = h BY <1>1
<1>2. CASE Compacted(h) # h
  <2>1. PICK b \in Boundaries(h) : \/ Compacted(h) = SubSeq(h, b, Len(h))
                                   \/ Compacted(h) = <<h[b]>>
    BY <1>0, <1>2, CutsAtBoundary
  <2>2. b \in 1..Len(h) /\ h[b][1] \in {"user", "steer", "sub"} BY DEF Boundaries
  <2>3. PICK n \in {b, Len(h)} : Compacted(h) = SubSeq(h, b, n)
    <3>1. h[b] \in Items BY <1>0, <2>2, ElementOfSeq
    <3>2. <<h[b]>> = SubSeq(h, b, b)
      <4>1. b \in Nat \ {0} /\ b \in Int /\ b <= Len(h) /\ b <= b + 1 BY <1>0, <2>2
      <4>2. /\ SubSeq(h, b, b) \in Seq(Items) /\ Len(SubSeq(h, b, b)) = b - b + 1
            /\ \A x \in 1..b - b + 1 : x + b - 1 \in 1..Len(h) /\ SubSeq(h, b, b)[x] = h[x + b - 1]
        BY <1>0, <4>1, Sliced
      <4>3. Len(SubSeq(h, b, b)) = 1 /\ SubSeq(h, b, b)[1] = h[b]
        <5>1. b - b + 1 = 1 /\ 1 + b - 1 = b BY <4>1
        <5> QED BY <4>2, <5>1
      <4> DEFINE u == SubSeq(h, b, b)
      <4>4. u \in Seq(Items) /\ Len(u) = 1 /\ u[1] = h[b] BY <4>2, <4>3
      <4> HIDE DEF u
      <4>5. <<h[b]>> \in Seq(Items) /\ Len(<<h[b]>>) = 1 /\ <<h[b]>>[1] = h[b] BY <3>1, Single
      <4>6. u = <<h[b]>> BY <4>4, <4>5, SeqEqual
      <4> QED BY <4>6 DEF u
    <3> QED BY <2>1, <3>2
  <2>4. b \in Nat \ {0} /\ n \in Int /\ n <= Len(h) /\ b <= n + 1 /\ b <= n BY <1>0, <2>2
  <2> DEFINE u == SubSeq(h, b, n)
  <2>5. Sound(u, it) BY <2>4, SoundSlice
  <2>6. Len(u) = n - b + 1 /\ \A x \in 1..n - b + 1 : u[x] = h[x + b - 1]
    BY <1>0, <2>4, Sliced
  <2>7. Len(u) > 0 /\ 1 \in 1..Len(u) /\ u[1] = h[b]
    <3>1. 1 \in 1..n - b + 1 /\ 1 + b - 1 = b BY <2>4
    <3> QED BY <2>4, <2>6, <3>1
  <2> HIDE DEF u
  <2>8. 1 \in Boundaries(u) BY <2>2, <2>7 DEF Boundaries
  <2>9. Headed(u) /\ u # <<>> BY <2>7, <2>8, EmptySeq DEF Headed
  <2>10. Compacted(h) = u BY <2>3 DEF u
  <2> QED BY <2>5, <2>9, <2>10 DEF HeadedOrEmpty
<1> QED BY <1>1, <1>2, <1>0

-----------------------------------------------------------------------------
(***************************************************************************)
(* Calls and results stay together.                                         *)
(***************************************************************************)

\* To be there once, behind i.
LEMMA OnceBehind ==
  ASSUME NEW s \in Seq(Items), NEW r, NEW i \in Nat
  PROVE  (Count(s, r) = 1 /\ First(s, r) > i) <=>
           \E j \in 1..Len(s) : j > i /\ s[j] = r /\ \A x \in 1..Len(s) : s[x] = r => x = j
<1>0. DOMAIN s = 1..Len(s) /\ Len(s) \in Nat BY LenProperties
<1>1. ASSUME Count(s, r) = 1, First(s, r) > i
      PROVE  \E j \in 1..Len(s) : j > i /\ s[j] = r /\ \A x \in 1..Len(s) : s[x] = r => x = j
  <2> DEFINE T == {x \in DOMAIN s : s[x] = r}
  <2>1. IsFiniteSet(T)
    <3>1. IsFiniteSet(1..Len(s)) BY <1>0, FS_Interval
    <3>2. T \subseteq 1..Len(s) BY <1>0
    <3> QED BY <3>1, <3>2, FS_Subset
  <2>2. Cardinality(T) = 1 BY <1>1 DEF Count
  <2>3. PICK j : T = {j}
    <3> HIDE DEF T
    <3> QED BY <2>1, <2>2, FS_Singleton
  <2>4. j \in 1..Len(s) /\ s[j] = r /\ \A x \in 1..Len(s) : s[x] = r => x = j BY <1>0, <2>3
  <2>5. Occurs(s, r) BY <1>0, <2>4 DEF Occurs
  <2>6. First(s, r) = j BY <2>4, <2>5, FirstIs
  <2> QED BY <1>1, <2>4, <2>6
<1>2. ASSUME NEW j \in 1..Len(s), j > i, s[j] = r, \A x \in 1..Len(s) : s[x] = r => x = j
      PROVE  Count(s, r) = 1 /\ First(s, r) > i
  <2>1. {x \in DOMAIN s : s[x] = r} = {j} BY <1>0, <1>2
  <2>2. Count(s, r) = 1 BY <2>1, FS_Singleton DEF Count
  <2>3. Occurs(s, r) BY <1>0, <1>2 DEF Occurs
  <2>4. First(s, r) = j BY <1>2, <2>3, FirstIs
  <2> QED BY <1>2, <2>2, <2>4
<1> QED BY <1>1, <1>2

\* What follows the start of a turn has the results of its calls, and the
\* calls of its results.
LEMMA PairedSlice ==
  ASSUME NEW h, NEW it, Sound(h, it), Paired(h), NEW b \in Boundaries(h)
  PROVE  Paired(SubSeq(h, b, Len(h)))
<1> DEFINE u == SubSeq(h, b, Len(h))
           at(x) == x + b - 1
           from(y) == y - b + 1
<1>0. h \in Seq(Items) /\ Len(h) \in Nat /\ DOMAIN h = 1..Len(h) BY LenProperties DEF Sound
<1>1. b \in 1..Len(h) BY DEF Boundaries
<1>2. b \in Nat \ {0} /\ Len(h) \in Int /\ Len(h) <= Len(h) /\ b <= Len(h) + 1 BY <1>0, <1>1
<1>3. /\ u \in Seq(Items) /\ Len(u) = Len(h) - b + 1
      /\ \A x \in 1..Len(h) - b + 1 : x + b - 1 \in 1..Len(h) /\ u[x] = h[x + b - 1]
  BY <1>0, <1>2, Sliced
<1>4. u \in Seq(Items) /\ DOMAIN u = 1..Len(u) /\ Len(u) \in Nat BY <1>3, LenProperties
<1>5. \A x \in 1..Len(u) : at(x) \in 1..Len(h) /\ at(x) >= b /\ u[x] = h[at(x)] /\ from(at(x)) = x
  BY <1>2, <1>3
<1>6. \A y \in b..Len(h) : from(y) \in 1..Len(u) /\ at(from(y)) = y BY <1>2, <1>3
<1>7. \A x, y \in 1..Len(u) : x < y <=> at(x) < at(y) BY <1>2, <1>4
<1> HIDE DEF u, at, from
<1>8. ASSUME NEW i \in 1..Len(u), u[i][1] = "calls", NEW k \in 1..u[i][3]
      PROVE  Count(u, <<"result", u[i][2], k>>) = 1 /\ First(u, <<"result", u[i][2], k>>) > i
  <2> DEFINE r == <<"result", u[i][2], k>>
  <2>1. at(i) \in 1..Len(h) /\ at(i) >= b /\ u[i] = h[at(i)] BY <1>5
  <2>2. Count(h, r) = 1 /\ First(h, r) > at(i)
    <3>1. at(i) \in DOMAIN h /\ h[at(i)][1] = "calls" /\ k \in 1..h[at(i)][3]
          /\ r = <<"result", h[at(i)][2], k>>
      BY <1>0, <1>8, <2>1
    <3> QED BY <3>1 DEF Paired
  <2> HIDE DEF r
  <2>3. at(i) \in Nat BY <1>0, <2>1
  <2>4. PICK j \in 1..Len(h) : /\ j > at(i) /\ h[j] = r
                               /\ \A x \in 1..Len(h) : h[x] = r => x = j
    <3>1. \E j \in 1..Len(h) : j > at(i) /\ h[j] = r /\ \A x \in 1..Len(h) : h[x] = r => x = j
      BY <1>0, <2>2, <2>3, OnceBehind
    <3> QED BY <3>1
  <2>5. j \in b..Len(h) BY <1>0, <1>1, <2>1, <2>3, <2>4
  <2>6. from(j) \in 1..Len(u) /\ at(from(j)) = j BY <1>6, <2>5
  <2>7. u[from(j)] = r /\ from(j) > i BY <1>5, <1>7, <2>4, <2>6, <1>4
  <2>8. \A x \in 1..Len(u) : u[x] = r => x = from(j) BY <1>5, <2>4
  <2>9. i \in Nat BY <1>4
  <2>10. Count(u, r) = 1 /\ First(u, r) > i
    <3>1. \E y \in 1..Len(u) : y > i /\ u[y] = r /\ \A x \in 1..Len(u) : u[x] = r => x = y
      BY <2>6, <2>7, <2>8
    <3> QED BY <1>4, <2>9, <3>1, OnceBehind
  <2> QED BY <2>10 DEF r
<1>9. ASSUME NEW i \in 1..Len(u), u[i][1] = "result"
      PROVE  \E j \in 1..i - 1 : u[j][1] = "calls" /\ u[j][2] = u[i][2] /\ u[j][3] >= u[i][3]
  <2>1. at(i) \in 1..Len(h) /\ at(i) >= b /\ u[i] = h[at(i)] BY <1>5
  <2>2. PICK j \in 1..at(i) - 1 :
          h[j][1] = "calls" /\ h[j][2] = h[at(i)][2] /\ h[j][3] >= h[at(i)][3]
    BY <1>0, <1>9, <2>1 DEF Paired
  <2>3. j \in 1..Len(h) BY <1>0, <2>1
  <2>4. IsCall(h[j]) /\ IsResult(h[at(i)]) BY <1>9, <2>1, <2>2 DEF IsCall, IsResult
  <2>5. ~(j < b) BY <2>1, <2>2, <2>3, <2>4 DEF Sound, Apart
  <2>6. j \in b..Len(h) BY <1>1, <2>3, <2>5
  <2>7. from(j) \in 1..Len(u) /\ at(from(j)) = j BY <1>6, <2>6
  <2>8. u[from(j)] = h[j] BY <1>5, <2>7
  <2>9. j < at(i) BY <1>0, <2>1
  <2>10. from(j) < i BY <1>7, <2>7, <2>9
  <2>11. from(j) \in 1..i - 1 BY <1>4, <2>7, <2>10
  <2> QED BY <2>1, <2>2, <2>8, <2>11
<1>10. Paired(u) BY <1>4, <1>8, <1>9 DEF Paired
<1> QED BY <1>10 DEF u

LEMMA CompactedPaired ==
  ASSUME NEW h, NEW it \in Nat, Sound(h, it), HeadedOrEmpty(h), Paired(h)
  PROVE  Paired(Compacted(h))
<1>0. h \in Seq(Items) BY DEF Sound
<1>1. CASE Compacted(h) = h BY <1>1
<1>2. CASE Compacted(h) # h
  <2>1. PICK b \in Boundaries(h) : \/ Compacted(h) = SubSeq(h, b, Len(h))
                                   \/ Compacted(h) = <<h[b]>>
    BY <1>0, <1>2, CutsAtBoundary
  <2>2. CASE Compacted(h) = SubSeq(h, b, Len(h)) BY <2>2, PairedSlice
  <2>3. CASE Compacted(h) = <<h[b]>>
    <3>1. h[b][1] \in {"user", "steer", "sub"} BY DEF Boundaries
    <3>2. DOMAIN <<h[b]>> = {1} /\ <<h[b]>>[1] = h[b] OBVIOUS
    <3>3. \A i \in DOMAIN <<h[b]>> :
            <<h[b]>>[i][1] # "calls" /\ <<h[b]>>[i][1] # "result"
      BY <3>1, <3>2
    <3>4. Paired(<<h[b]>>) BY <3>3 DEF Paired
    <3> QED BY <2>3, <3>4
  <2> QED BY <2>1, <2>2, <2>3
<1> QED BY <1>1, <1>2

-----------------------------------------------------------------------------
(***************************************************************************)
(* The steps of a turn.                                                     *)
(***************************************************************************)
Cuttable ==
  /\ Sound(history, iteration) /\ Sound(restorePoint, iteration) /\ Sound(snapshot, iteration)
  /\ persisted \in Seq(Items)
  /\ retry \in Nat
  /\ pc = "new" => iteration = 0
  /\ pc = "abort" \/ aborter # "idle" => hardAbort
  /\ ~hardAbort => /\ HeadedOrEmpty(history)
                   /\ history = <<>> => iteration = 0 /\ (pc = "new" \/ InitialSteering > 0)
  /\ iteration = 0 /\ InitialSteering > 0 => Headed(pend)
  /\ pc \in InCall => HeadedOrEmpty(history) /\ (aborter = "read" => HeadedOrEmpty(snapshot))

LEMMA MuteSound ==
  ASSUME NEW s \in Seq(Items), Mute(s), NEW it \in Nat PROVE Sound(s, it)
BY DEF Mute, Sound, Apart, Latest

LEMMA CuttableInit == Init => Cuttable
<1> SUFFICES ASSUME Init PROVE Cuttable OBVIOUS
<1>1. Old \in Seq(Items) /\ Mute(Old) /\ HeadedOrEmpty(Old)
  <2>1. OldTurns \in Nat /\ 2 * OldTurns \in Nat BY TurnLoopAssumption
  <2>2. /\ Old \in Seq(Items) /\ Len(Old) = 2 * OldTurns
        /\ \A x \in 1..Len(Old) : Old[x][1] \in {"user", "reply"}
    <3>1. Old \in Seq(Items) /\ Len(Old) = 2 * OldTurns BY <2>1, OldType DEF Old
    <3>2. \A x \in 1..2 * OldTurns : Old[x][1] \in {"user", "reply"} BY DEF Old
    <3> QED BY <3>1, <3>2
  <2>3. Mute(Old) BY <2>2 DEF Mute, IsCall, IsResult
  <2>4. CASE OldTurns = 0
    <3>1. Old = <<>> BY <2>1, <2>2, <2>4, EmptySeq
    <3> QED BY <2>2, <2>3, <3>1 DEF HeadedOrEmpty
  <2>5. CASE OldTurns # 0
    <3>1. 1 \in 1..2 * OldTurns BY <2>1, <2>5
    <3>2. Old[1] = <<"user", 1, 0>> BY <3>1 DEF Old
    <3>3. 1 \in 1..Len(Old) /\ Len(Old) > 0 BY <2>2, <3>1
    <3>4. Headed(Old) BY <3>2, <3>3 DEF Headed, Boundaries
    <3> QED BY <2>2, <2>3, <3>4 DEF HeadedOrEmpty
  <2> QED BY <2>4, <2>5
<1>2. InitialSteering > 0 => Headed(Initial)
  <2>1. InitialSteering \in Nat BY TurnLoopAssumption
  <2>2. \A n \in 1..InitialSteering : Steer(n) \in Items BY <2>1, SteerItem
  <2>3. /\ Initial \in Seq(Items) /\ Len(Initial) = InitialSteering
        /\ \A x \in 1..InitialSteering : Initial[x] = Steer(x)
    BY <2>1, <2>2, IsASeq DEF Initial
  <2>4. \A n : Steer(n)[1] = "steer" BY DEF Steer
  <2> SUFFICES ASSUME InitialSteering > 0 PROVE Headed(Initial) OBVIOUS
  <2>5. 1 \in 1..Len(Initial) /\ Len(Initial) > 0 BY <2>1, <2>3
  <2>6. Initial[1][1] = "steer" BY <2>3, <2>4, <2>5
  <2> QED BY <2>5, <2>6 DEF Headed, Boundaries
<1>3. Sound(Old, 0) /\ Sound(<<>>, 0) BY <1>1, MuteEmpty, MuteSound
<1> QED BY <1>1, <1>2, <1>3, MuteEmpty DEF Init, Cuttable, InCall

LEMMA RetryStep ==
  ASSUME Cuttable, [Next]_vars PROVE retry' \in Nat
<1> USE DEF controlVars, vars
<1>1. retry \in Nat /\ retry + 1 \in Nat BY DEF Cuttable
<1>2. Coordinator => retry' \in {retry, 0, retry + 1}
  BY DEF Coordinator, SeesHardAbort, AbortTurn, SetupTurn, BeginIteration, ExhaustIterations,
         Finalize, FinalizeFails, FinalizeHandled
<1>3. Llm => retry' \in {retry, 0, retry + 1}
  BY DEF Llm, PrepareCall, CallAnswered, CallCanceled, CallFails, CallTransient, Backoff,
         BackoffAborted, BackoffCanceled, CallOverflows, Answered, ToolCalls
<1>4. Tools => retry' \in {retry, 0, retry + 1}
  BY DEF Tools, ToolDenied, ToolHookAborts, ToolStarts, ToolRespondedByHook, ToolReturns,
         ToolReturnsToHook, ToolsContinue, ToolsHandled, ToolResult
<1>5. SteerArrives \/ Interrupt \/ HardAbortSteps \/ UNCHANGED vars
        => retry' \in {retry, 0, retry + 1}
  BY DEF SteerArrives, Interrupt, HardAbortSteps, HardAbortRequest, HardAbortRead, HardAbortCut
<1> QED BY <1>1, <1>2, <1>3, <1>4, <1>5 DEF Next

-----------------------------------------------------------------------------
LEMMA OwnSingle ==
  ASSUME NEW x \in Items, NEW it, x[1] = "reply" \/ (x[1] \in {"calls", "result"} /\ x[2] = it)
  PROVE  <<x>> \in Seq(Items) /\ Own(<<x>>, it)
<1>1. <<x>> \in Seq(Items) /\ Len(<<x>>) = 1 /\ <<x>>[1] = x BY Single
<1>2. x[1] \notin {"user", "steer", "sub"} BY DEF Items
<1>3. IsCall(x) \/ IsResult(x) => x[2] = it BY DEF IsCall, IsResult
<1> QED BY <1>1, <1>2, <1>3 DEF Own, Boundaries

LEMMA OwnConcat ==
  ASSUME NEW s \in Seq(Items), NEW t \in Seq(Items), NEW it, Own(s, it), Own(t, it)
  PROVE  s \o t \in Seq(Items) /\ Own(s \o t, it)
<1> DEFINE u == s \o t
<1>1. /\ u \in Seq(Items)
      /\ \A x \in 1..Len(s) : u[x] = s[x]
      /\ \A x \in 1..Len(u) : x \in 1..Len(s) \/ (x - Len(s) \in 1..Len(t) /\ u[x] = t[x - Len(s)])
  BY Joined
<1>2. \A b \in Boundaries(u) : b \in Boundaries(s) \/ b - Len(s) \in Boundaries(t)
  BY BoundariesJoined
<1> HIDE DEF u
<1>3. \A x : x \notin Boundaries(s) /\ x \notin Boundaries(t) BY DEF Own, Boundaries
<1>4. \A x : x \notin Boundaries(u) BY <1>2, <1>3
<1>5. ASSUME NEW x \in 1..Len(u), IsCall(u[x]) \/ IsResult(u[x]) PROVE u[x][2] = it
  <2>1. CASE x \in 1..Len(s)
    <3>1. u[x] = s[x] BY <1>1, <2>1
    <3> QED BY <1>5, <2>1, <3>1 DEF Own
  <2>2. CASE x - Len(s) \in 1..Len(t) /\ u[x] = t[x - Len(s)]
    BY <1>5, <2>2 DEF Own
  <2> QED BY <1>1, <2>1, <2>2
<1>6. Own(u, it) BY <1>4, <1>5 DEF Own
<1> QED BY <1>1, <1>6 DEF u

\* A step in which the turn says something of its own.
OwnWords(t) ==
  /\ t \in Seq(Items) /\ Own(t, iteration) /\ iteration # 0
  /\ history' = history \o t /\ persisted' \in Seq(Items)
  /\ UNCHANGED <<restorePoint, snapshot, iteration, hardAbort, aborter>>
  /\ pc' \notin InCall \cup {"new", "abort"}

LEMMA Speaks ==
  ASSUME SubResults = 0, IInv, Places, Cuttable,
         \/ Finalize \/ FinalizeFails \/ ToolCalls \/ ToolDenied \/ ToolsHandled
         \/ \E handled \in BOOLEAN : GetsResult(handled)
  PROVE  \E t : OwnWords(t)
<1> USE DEF Goto, End, InCall, InTools, controlVars, abortVars
<1>0. Typed /\ history \in Seq(Items) /\ persisted \in Seq(Items)
  BY DEF IInv, Cuttable, Sound
<1>1. pc \notin {"new", "head", "abort", "ended"} => iteration # 0 BY DEF Places
<1>2. CASE Finalize \/ FinalizeFails \/ ToolsHandled
  <2>1. Reply \in Items /\ Reply[1] = "reply" BY <1>0, ItemTypes DEF Reply
  <2> DEFINE t == <<Reply>>
  <2>2. t \in Seq(Items) /\ Own(t, iteration) BY <2>1, OwnSingle
  <2>3. /\ history' = history \o t /\ persisted' = persisted \o t
        /\ pc \notin {"new", "head", "abort", "ended"} /\ pc' \in {"ended", "handled"}
        /\ UNCHANGED <<restorePoint, snapshot, iteration, hardAbort, aborter>>
    BY <1>2 DEF Finalize, FinalizeFails, ToolsHandled, Say
  <2> HIDE DEF t
  <2>4. persisted' \in Seq(Items) BY <1>0, <2>2, <2>3, ConcatProperties
  <2> QED BY <1>1, <2>2, <2>3, <2>4 DEF OwnWords
<1>3. CASE ToolCalls
  <2>1. PICK n \in 1..MaxCalls : Say(<< <<"calls", iteration, n>> >>) BY <1>3 DEF ToolCalls
  <2>2. <<"calls", iteration, n>> \in Items BY <1>0, TurnLoopAssumption, ItemTypes
  <2> DEFINE t == << <<"calls", iteration, n>> >>
  <2>3. t \in Seq(Items) /\ Own(t, iteration) BY <2>2, OwnSingle
  <2>4. /\ history' = history \o t /\ persisted' = persisted \o t
        /\ pc = "response" /\ pc' = "tools"
        /\ UNCHANGED <<restorePoint, snapshot, iteration, hardAbort, aborter>>
    BY <1>3, <2>1 DEF ToolCalls, Say
  <2> HIDE DEF t
  <2>5. persisted' \in Seq(Items) BY <1>0, <2>3, <2>4, ConcatProperties
  <2> QED BY <1>1, <2>3, <2>4, <2>5 DEF OwnWords
<1>4. Result(next) \in Items /\ Result(next)[1] = "result" /\ Result(next)[2] = iteration
  BY <1>0, ItemTypes DEF Typed, Result
<1> DEFINE one == <<Result(next)>>
<1>5. one \in Seq(Items) /\ Own(one, iteration) BY <1>4, OwnSingle
<1>6. CASE ToolDenied
  <2>1. /\ history' = history \o one /\ persisted' = persisted \o one
        /\ pc = "tools" /\ pc' = "tools"
        /\ UNCHANGED <<restorePoint, snapshot, iteration, hardAbort, aborter>>
    BY <1>6 DEF ToolDenied, AtTool, Say
  <2> HIDE DEF one
  <2>2. persisted' \in Seq(Items) BY <1>0, <1>5, <2>1, ConcatProperties
  <2> QED BY <1>1, <1>5, <2>1, <2>2 DEF OwnWords
<1>7. CASE \E handled \in BOOLEAN : GetsResult(handled)
  <2>1. PICK handled \in BOOLEAN : GetsResult(handled) BY <1>7
  <2>2. /\ pc \in {"tools", "running"} /\ pc' = "tools" /\ next <= calls
        /\ UNCHANGED <<restorePoint, snapshot, iteration, hardAbort, aborter>>
    BY <2>1 DEF GetsResult, ToolResult
  <2>3. CASE SkipsRest
    <3>1. Say(one \o Skipped) BY <2>1, <2>3 DEF GetsResult, ToolResult
    <3>2. /\ Skipped \in Seq(Items) /\ Len(Skipped) = calls - next
          /\ \A k \in 1..calls - next : Skipped[k] = Result(next + k)
      BY <1>0, <2>2, SkippedType
    <3>3. \A k : Result(k)[1] = "result" /\ Result(k)[2] = iteration BY DEF Result
    <3>4. Own(Skipped, iteration) BY <3>2, <3>3 DEF Own, Boundaries
    <3> DEFINE t == one \o Skipped
    <3> HIDE DEF one
    <3>5. t \in Seq(Items) /\ Own(t, iteration) BY <1>5, <3>2, <3>4, OwnConcat
    <3>6. history' = history \o t /\ persisted' = persisted \o t BY <3>1 DEF Say
    <3> HIDE DEF t
    <3>7. persisted' \in Seq(Items) BY <1>0, <3>5, <3>6, ConcatProperties
    <3> QED BY <1>1, <2>2, <3>5, <3>6, <3>7 DEF OwnWords
  <2>4. CASE ~SkipsRest
    <3>1. SubResult = {<<>>} BY DEF SubResult, Places
    <3>2. /\ history' = history \o one \o <<>>
          /\ persisted' = Append(persisted, Result(next))
      BY <2>1, <2>4, <3>1 DEF GetsResult, ToolResult
    <3> HIDE DEF one
    <3>3. history \o one \in Seq(Items) BY <1>0, <1>5, ConcatProperties
    <3>4. history' = history \o one BY <3>2, <3>3, ConcatEmptySeq
    <3>5. persisted' \in Seq(Items) BY <1>0, <1>4, <3>2, AppendProperties
    <3> QED BY <1>1, <1>5, <2>2, <3>4, <3>5 DEF OwnWords
  <2> QED BY <2>3, <2>4
<1> QED BY <1>2, <1>3, <1>6, <1>7

\* A step that leaves the session alone.
LeavesSession ==
  /\ UNCHANGED <<history, restorePoint, snapshot, iteration, persisted>>
  /\ iteration = 0 => pend' = pend
  /\ pc' \in InCall => pc \in InCall
  /\ pc' = "new" => pc = "new"
  /\ pc = "new" => pc' = "new" \/ hardAbort'
  /\ hardAbort => hardAbort'
  /\ pc' = "abort" => pc = "abort" \/ hardAbort'
  /\ aborter' = aborter \/ (aborter' = "requested" /\ hardAbort')

LEMMA CutSteps ==
  ASSUME SubResults = 0, IInv, Places, Cuttable, [Next]_vars
  PROVE  \/ LeavesSession \/ \E t : OwnWords(t)
         \/ SetupTurn \/ BeginIteration \/ AbortTurn \/ CallOverflows
         \/ HardAbortRead \/ HardAbortCut
<1> USE DEF LeavesSession, InCall, InTools, Goto, End, controlVars, convVars, abortVars
<1>0. pc \notin {"new", "head", "abort", "ended"} => iteration # 0 BY DEF Places
<1>1. CASE Coordinator
  <2>1. CASE SeesHardAbort BY <2>1 DEF SeesHardAbort
  <2>2. CASE ExhaustIterations BY <2>2 DEF ExhaustIterations
  <2>3. CASE FinalizeHandled BY <2>3 DEF FinalizeHandled
  <2> QED BY <1>1, <2>1, <2>2, <2>3, Speaks DEF Coordinator
<1>2. CASE Llm
  <2> USE DEF HookIntervenes
  <2>1. CASE PrepareCall BY <2>1 DEF PrepareCall
  <2>2. CASE CallAnswered BY <2>2 DEF CallAnswered
  <2>3. CASE CallCanceled BY <2>3 DEF CallCanceled
  <2>4. CASE CallFails BY <2>4 DEF CallFails
  <2>5. CASE CallTransient BY <2>5 DEF CallTransient
  <2>6. CASE Backoff BY <2>6 DEF Backoff
  <2>7. CASE BackoffAborted BY <2>7 DEF BackoffAborted
  <2>8. CASE BackoffCanceled BY <2>8 DEF BackoffCanceled
  <2>9. CASE Answered
    <3>1. /\ UNCHANGED <<history, restorePoint, snapshot, iteration, persisted, hardAbort, aborter>>
          /\ pc = "response" /\ pc' \in {"head", "finalize"}
      BY <2>9 DEF Answered
    <3> QED BY <1>0, <3>1
  <2> QED BY <1>2, <2>1, <2>2, <2>3, <2>4, <2>5, <2>6, <2>7, <2>8, <2>9, Speaks DEF Llm
<1>3. CASE Tools
  <2> USE DEF HookIntervenes, AtTool
  <2>1. CASE ToolHookAborts BY <2>1 DEF ToolHookAborts
  <2>2. CASE ToolStarts BY <2>2 DEF ToolStarts
  <2>3. CASE ToolReturnsToHook BY <2>3 DEF ToolReturnsToHook
  <2>4. CASE ToolsContinue BY <2>4 DEF ToolsContinue
  <2>5. CASE ToolRespondedByHook \/ ToolReturns
    <3>1. \E handled \in BOOLEAN : GetsResult(handled)
      BY <2>5 DEF ToolRespondedByHook, ToolReturns, GetsResult, Places
    <3> QED BY <3>1, Speaks
  <2> QED BY <1>3, <2>1, <2>2, <2>3, <2>4, <2>5, Speaks DEF Tools
<1>4. CASE SteerArrives \/ Interrupt \/ HardAbortRequest \/ UNCHANGED vars
  BY <1>4 DEF SteerArrives, Interrupt, HardAbortRequest, vars
<1> QED BY <1>1, <1>2, <1>3, <1>4 DEF Next, HardAbortSteps

LEMMA SoundLater ==
  ASSUME NEW h, NEW it \in Nat, Sound(h, it) PROVE Sound(h, it + 1)
<1>1. h \in Seq(Items) BY DEF Sound
<1>2. h \o <<>> = h BY <1>1, ConcatEmptySeq
<1>3. it + 1 \in Nat /\ it <= it + 1 /\ it < it + 1 OBVIOUS
<1>4. Sound(h \o <<>>, it + 1) BY <1>3, MuteEmpty, SoundGrows
<1> QED BY <1>2, <1>4

\* matchingTurnMessageTail finds the longest tail that the two have.
Matching(h, p, n) == n \in Nat /\ n <= Len(h) /\ n <= Len(p) /\ Suffix(h, n) = Suffix(p, n)

LEMMA TailMatchIs ==
  ASSUME NEW h \in Seq(Items), NEW p \in Seq(Items)
  PROVE  /\ Matching(h, p, TailMatch(h, p))
         /\ \A n : Matching(h, p, n) => n <= TailMatch(h, p)
<1> DEFINE Matches(n) == n <= Len(h) /\ n <= Len(p) /\ Suffix(h, n) = Suffix(p, n)
           T == {n \in 0..Len(p) : Matches(n)}
<1>1. Len(h) \in Nat /\ Len(p) \in Nat BY LenProperties
<1>2. Suffix(h, 0) = <<>> /\ Suffix(p, 0) = <<>>
  <2>1. \A k \in Nat : k - 0 + 1 \in Int /\ k \in Int /\ k < k - 0 + 1 OBVIOUS
  <2> QED BY <1>1, <2>1, SubSeqEmpty DEF Suffix
<1>3. 0 \in T BY <1>1, <1>2
<1>4. T \subseteq 0..Len(p) /\ T # {} BY <1>3
<1>5. \E n \in T : \A m \in T : m <= n
  <2> HIDE DEF T
  <2> QED BY <1>1, <1>4, Greatest
<1>6. \E n \in 0..Len(p) : Matches(n) /\ \A m \in 0..Len(p) : Matches(m) => m <= n BY <1>5
<1>7. TailMatch(h, p) =
        CHOOSE n \in 0..Len(p) : Matches(n) /\ \A m \in 0..Len(p) : Matches(m) => m <= n
  BY DEF TailMatch
<1>8. /\ TailMatch(h, p) \in 0..Len(p) /\ Matches(TailMatch(h, p))
      /\ \A m \in 0..Len(p) : Matches(m) => m <= TailMatch(h, p)
  <2> HIDE DEF Matches
  <2> QED BY <1>6, <1>7
<1>9. Matching(h, p, TailMatch(h, p)) BY <1>1, <1>8 DEF Matching
<1>10. ASSUME NEW n, Matching(h, p, n) PROVE n <= TailMatch(h, p)
  <2>1. n \in 0..Len(p) /\ Matches(n) BY <1>1, <1>10 DEF Matching
  <2> QED BY <1>8, <2>1
<1> QED BY <1>9, <1>10

LEMMA EmptySound == ASSUME NEW it \in Nat PROVE Sound(<<>>, it)
BY MuteEmpty, MuteSound

LEMMA HeadedNotEmpty == ASSUME NEW h, Headed(h) PROVE h # <<>>
BY EmptySeq DEF Headed

LEMMA SetupCuttable ==
  ASSUME IInv, Places, Cuttable, SetupTurn, retry' \in Nat
  PROVE  Cuttable'
<1> DEFINE user == IF InitialSteering = 0 THEN << <<"user", 0, 0>> >> ELSE <<>>
<1>1. PICK compact \in {FALSE, MayOverflow} :
        LET h == IF compact THEN AfterCompact(history) ELSE history
        IN  /\ restorePoint' = IF compact THEN h ELSE Assembled(h)
            /\ history' = h \o user
            /\ persisted' = user
  BY DEF SetupTurn
<1>2. /\ iteration = 0 /\ ~hardAbort /\ HeadedOrEmpty(history) /\ Sound(history, 0)
      /\ Sound(snapshot, 0)
  BY DEF SetupTurn, Cuttable
<1>3. 0 \in Nat OBVIOUS
<1>4. /\ Sound(Compacted(history), 0) /\ HeadedOrEmpty(Compacted(history))
      /\ Compacted(history) = <<>> => history = <<>>
  BY <1>2, <1>3, CompactedSound
<1>5. PICK h \in {history, Compacted(history)} :
        restorePoint' \in {h, <<>>} /\ history' = h \o user /\ persisted' = user
  BY <1>1 DEF AfterCompact, Assembled
<1>6. Sound(h, 0) /\ HeadedOrEmpty(h) /\ h \in Seq(Items) BY <1>2, <1>4 DEF Sound
<1>7. user \in Seq(Items) /\ Mute(user) /\ (InitialSteering = 0 => Headed(user))
  <2>1. CASE InitialSteering = 0
    <3>1. <<"user", 0, 0>> \in Items /\ <<"user", 0, 0>>[1] = "user" BY DEF Items, Kinds
    <3>2. /\ << <<"user", 0, 0>> >> \in Seq(Items) /\ Len(<< <<"user", 0, 0>> >>) = 1
          /\ << <<"user", 0, 0>> >>[1] = <<"user", 0, 0>>
      BY <3>1, Single
    <3>3. user = << <<"user", 0, 0>> >> BY <2>1
    <3> HIDE DEF user
    <3>4. user \in Seq(Items) /\ Len(user) = 1 /\ user[1][1] = "user" BY <3>1, <3>2, <3>3
    <3> QED BY <3>4 DEF Mute, IsCall, IsResult, Headed, Boundaries
  <2>2. CASE InitialSteering # 0 BY <2>2, MuteEmpty
  <2> QED BY <2>1, <2>2
<1> HIDE DEF user
<1>8. Sound(history', 0)
  <2>1. Sound(h \o user, 0) BY <1>3, <1>6, <1>7, SoundGrows
  <2> QED BY <1>5, <2>1
<1>9. Sound(restorePoint', 0) BY <1>3, <1>5, <1>6, EmptySound
<1>10. HeadedOrEmpty(history') /\ (history' = <<>> => InitialSteering > 0)
  <2>1. CASE Headed(h)
    <3>1. Headed(h \o user) BY <1>6, <1>7, <2>1, HeadedGrows
    <3> QED BY <1>5, <3>1, HeadedNotEmpty DEF HeadedOrEmpty
  <2>2. CASE h = <<>>
    <3>1. history' = user BY <1>5, <1>7, <2>2, ConcatEmptySeq
    <3>2. CASE InitialSteering = 0 BY <1>7, <3>1, <3>2, HeadedNotEmpty DEF HeadedOrEmpty
    <3>3. CASE InitialSteering # 0
      <4>1. user = <<>> BY <3>3 DEF user
      <4>2. InitialSteering > 0 BY <3>3, TurnLoopAssumption
      <4> QED BY <3>1, <4>1, <4>2 DEF HeadedOrEmpty
    <3> QED BY <3>2, <3>3
  <2> QED BY <1>6, <2>1, <2>2 DEF HeadedOrEmpty
<1>11. /\ pc' \in {"head", "ended"} /\ iteration' = 0 /\ pend' = pend
       /\ UNCHANGED <<snapshot, aborter, hardAbort>>
  BY <1>2 DEF SetupTurn, Goto, End, controlVars, abortVars
<1>12. persisted' \in Seq(Items) BY <1>5, <1>7
<1>13. InitialSteering > 0 => Headed(pend') BY <1>2, <1>11 DEF Cuttable
<1>14. aborter' = "idle" BY <1>2, <1>11 DEF Cuttable
<1> QED BY <1>2, <1>8, <1>9, <1>10, <1>11, <1>12, <1>13, <1>14 DEF Cuttable, InCall

LEMMA BeginCuttable ==
  ASSUME SubResults = 0, IInv, Places, Hushed, Cuttable, BeginIteration, retry' \in Nat
  PROVE  Cuttable'
<1>0. /\ iteration \in Nat /\ history \in Seq(Items) /\ persisted \in Seq(Items)
      /\ queue \in Seq(Items) /\ Mute(queue) /\ Mute(execPend)
  BY DEF IInv, Typed, Hushed, Cuttable, Sound
<1>1. SubResult = {<<>>} BY DEF SubResult, Places
<1> DEFINE said == pend \o Injects
<1>2. pend \in Seq(Items) /\ Injects \in Seq(Items) /\ Say(pend \o Injects \o <<>>)
  BY <1>1, Begins
<1>3. said \in Seq(Items) BY <1>2, ConcatProperties
<1>4. history' = history \o said /\ persisted' = persisted \o said
  BY <1>2, <1>3, ConcatEmptySeq DEF Say
<1>5. Mute(pend) /\ Mute(Injects)
  <2>1. Mute(Taken) BY <1>0, MuteDequeued
  <2> QED BY <1>0, <2>1, MuteEmpty DEF Places, Injects
<1>6. Mute(said) BY <1>2, <1>5, MuteConcat
<1>7. /\ iteration' = iteration + 1 /\ pc' = "llm" /\ pc = "head" /\ ~hardAbort
      /\ UNCHANGED <<restorePoint, snapshot, hardAbort, aborter>>
  BY DEF BeginIteration, Goto, abortVars
<1>8. aborter' = "idle" BY <1>7 DEF Cuttable
<1>9. Headed(history')
  <2>1. CASE Headed(history)
    <3> HIDE DEF said
    <3> QED BY <1>0, <1>3, <1>4, <2>1, HeadedGrows
  <2>2. CASE history = <<>>
    <3>1. Headed(pend) BY <1>7, <2>2 DEF Cuttable
    <3>2. Headed(said) BY <1>2, <3>1, HeadedGrows
    <3> HIDE DEF said
    <3>3. history' = said BY <1>3, <1>4, <2>2, ConcatEmptySeq
    <3> QED BY <3>2, <3>3
  <2> QED BY <1>7, <2>1, <2>2 DEF Cuttable, HeadedOrEmpty
<1> HIDE DEF said
<1>10. persisted' \in Seq(Items) BY <1>0, <1>3, <1>4, ConcatProperties
<1>11. iteration + 1 \in Nat /\ iteration <= iteration + 1 /\ iteration < iteration + 1
       /\ iteration + 1 # 0
  BY <1>0
<1>12. Sound(history, iteration) /\ Sound(restorePoint, iteration) /\ Sound(snapshot, iteration)
  BY DEF Cuttable
<1>13. Sound(history \o said, iteration + 1)
  BY <1>0, <1>3, <1>6, <1>11, <1>12, SoundGrows
<1>14. Sound(restorePoint, iteration + 1) /\ Sound(snapshot, iteration + 1)
  BY <1>0, <1>12, SoundLater
<1>15. HeadedOrEmpty(history') /\ history' # <<>> BY <1>9, HeadedNotEmpty DEF HeadedOrEmpty
<1> QED BY <1>4, <1>7, <1>8, <1>10, <1>11, <1>13, <1>14, <1>15 DEF Cuttable

LEMMA OverflowCuttable ==
  ASSUME IInv, Places, Cuttable, CallOverflows, retry' \in Nat
  PROVE  Cuttable'
<1> DEFINE h == AfterCompact(history)
           n == Len(h) - TailMatch(h, persisted)
<1>0. iteration \in Nat /\ persisted \in Seq(Items) BY DEF IInv, Typed, Cuttable
<1>1. /\ history' = h /\ restorePoint' = SubSeq(h, 1, n)
      /\ pc = "call" /\ pc' \in {"call", "ended"}
      /\ UNCHANGED <<iteration, pend, persisted, snapshot, hardAbort, aborter>>
  BY DEF CallOverflows, Upto, Goto, End, abortVars
<1>2. Sound(history, iteration) /\ HeadedOrEmpty(history) BY <1>1 DEF Cuttable, InCall
<1>3. /\ Sound(Compacted(history), iteration) /\ HeadedOrEmpty(Compacted(history))
      /\ Compacted(history) = <<>> => history = <<>>
  BY <1>0, <1>2, CompactedSound
<1>4. Sound(h, iteration) /\ HeadedOrEmpty(h) /\ (h = <<>> => history = <<>>)
  BY <1>2, <1>3 DEF AfterCompact
<1> HIDE DEF h
<1>5. h \in Seq(Items) /\ Len(h) \in Nat BY <1>4, LenProperties DEF Sound
<1>6. TailMatch(h, persisted) \in 0..Len(h) BY <1>0, <1>5, TailMatchIs DEF Matching
<1>7. n \in Int /\ n <= Len(h) /\ 1 <= n + 1 /\ 1 \in Nat \ {0} BY <1>5, <1>6
<1> HIDE DEF n
<1>8. Sound(SubSeq(h, 1, n), iteration) BY <1>0, <1>4, <1>7, SoundSlice
<1>9. iteration # 0 BY <1>1 DEF Places
<1>10. ~hardAbort => history # <<>> BY <1>9 DEF Cuttable
<1> QED BY <1>1, <1>4, <1>8, <1>9, <1>10 DEF Cuttable, InCall

LEMMA SpokenCuttable ==
  ASSUME IInv, Places, Cuttable, NEW t, OwnWords(t), retry' \in Nat
  PROVE  Cuttable'
<1>0. iteration \in Nat /\ history \in Seq(Items) BY DEF IInv, Typed, Cuttable, Sound
<1>1. /\ t \in Seq(Items) /\ Own(t, iteration) /\ iteration # 0 /\ history' = history \o t
      /\ iteration <= iteration
  BY <1>0 DEF OwnWords
<1>2. Sound(history, iteration) BY DEF Cuttable
<1>3. Sound(history \o t, iteration) BY <1>0, <1>1, <1>2, SoundGrows
<1>4. ~hardAbort => HeadedOrEmpty(history') /\ history' # <<>>
  <2> SUFFICES ASSUME ~hardAbort PROVE HeadedOrEmpty(history') /\ history' # <<>> OBVIOUS
  <2>1. Headed(history) BY <1>1 DEF Cuttable, HeadedOrEmpty
  <2>2. Headed(history \o t) BY <1>0, <1>1, <2>1, HeadedGrows
  <2> QED BY <1>1, <2>2, HeadedNotEmpty DEF HeadedOrEmpty
<1> QED BY <1>1, <1>3, <1>4 DEF Cuttable, OwnWords

LEMMA CuttableStep ==
  ASSUME SubResults = 0, IInv, Places, Hushed, Cuttable, [Next]_vars
  PROVE  Cuttable'
<1>0. retry' \in Nat BY RetryStep
<1>00. iteration \in Nat BY DEF IInv, Typed
<1>1. CASE LeavesSession BY <1>0, <1>1 DEF LeavesSession, Cuttable
<1>2. CASE \E t : OwnWords(t) BY <1>0, <1>2, SpokenCuttable
<1>3. CASE SetupTurn BY <1>0, <1>3, SetupCuttable
<1>4. CASE BeginIteration BY <1>0, <1>4, BeginCuttable
<1>5. CASE AbortTurn
  <2>1. /\ history' = restorePoint /\ pc = "abort" /\ pc' = "ended"
        /\ UNCHANGED <<iteration, pend, restorePoint, snapshot, persisted, hardAbort, aborter>>
    BY <1>5 DEF AbortTurn, End, controlVars, abortVars
  <2> QED BY <1>0, <2>1 DEF Cuttable, InCall
<1>6. CASE CallOverflows BY <1>0, <1>6, OverflowCuttable
<1>7. CASE HardAbortRead
  <2>1. /\ snapshot' = history /\ aborter = "requested"
        /\ UNCHANGED <<pc, iteration, pend, history, restorePoint, persisted, hardAbort>>
    BY <1>7 DEF HardAbortRead, controlVars, convVars
  <2> QED BY <1>0, <2>1 DEF Cuttable
<1>8. CASE HardAbortCut
  <2>1. /\ history' = IF Len(Old) < Len(snapshot) THEN SubSeq(snapshot, 1, Len(Old)) ELSE history
        /\ aborter = "read" /\ aborter' = "done"
        /\ UNCHANGED <<pc, iteration, pend, snapshot, restorePoint, persisted, hardAbort>>
    BY <1>8 DEF HardAbortCut, Upto, controlVars
  <2>2. /\ Sound(history, iteration) /\ Sound(snapshot, iteration) /\ hardAbort
        /\ pc \in InCall => HeadedOrEmpty(history) /\ HeadedOrEmpty(snapshot)
    BY <2>1 DEF Cuttable
  <2>3. Len(Old) \in Nat /\ snapshot \in Seq(Items) /\ Len(snapshot) \in Nat
    BY <2>2, OldType, LenProperties DEF Sound
  <2>4. Sound(history', iteration) /\ (pc \in InCall => HeadedOrEmpty(history'))
    <3>1. CASE Len(Old) < Len(snapshot)
      <4>1. /\ Len(Old) <= Len(snapshot) /\ 1 <= Len(Old) + 1 /\ Len(Old) \in Int
            /\ 1 \in Nat \ {0}
        BY <2>3, <3>1
      <4>2. Sound(SubSeq(snapshot, 1, Len(Old)), iteration) BY <1>00, <2>2, <4>1, SoundSlice
      <4>3. snapshot # <<>> BY <2>3, <3>1, EmptySeq
      <4>4. pc \in InCall => HeadedOrEmpty(SubSeq(snapshot, 1, Len(Old)))
        BY <2>2, <2>3, <4>1, <4>3, HeadedCut DEF HeadedOrEmpty
      <4> QED BY <2>1, <3>1, <4>2, <4>4
    <3>2. CASE ~(Len(Old) < Len(snapshot)) BY <2>1, <2>2, <3>2
    <3> QED BY <3>1, <3>2
  <2> QED BY <1>0, <2>1, <2>2, <2>4 DEF Cuttable
<1> QED BY <1>1, <1>2, <1>3, <1>4, <1>5, <1>6, <1>7, <1>8, CutSteps

\* What every cut is made in, as long as no SubTurn result is injected.
THEOREM CuttableHolds == ASSUME SubResults = 0 PROVE Spec => []Cuttable
<1>1. IInv /\ Places /\ Hushed /\ Cuttable /\ [Next]_vars => Cuttable' BY CuttableStep
<1> QED BY <1>1, CuttableInit, InvariantHolds, PlacesHold, HushedHolds, PTL DEF Spec

\* An overflow compacts without tearing a call from its results, for any
\* history, steering, interrupt and hard abort in between.  A SubTurn result
\* that comes in between two results of one response is of role "user" too,
\* and a cut there would tear: there are none here.
THEOREM CompactionKeepsPairsHolds ==
  ASSUME SubResults = 0 PROVE Spec => CompactionKeepsPairs
<1>1. ASSUME IInv, Places, Cuttable, [Next]_vars, pc = "call", retry' = retry + 1, Paired(history)
      PROVE  Paired(history')
  <2>1. retry \in Nat /\ iteration \in Nat /\ HeadedOrEmpty(history) /\ Sound(history, iteration)
    BY <1>1 DEF Cuttable, InCall, IInv, Typed
  <2>2. retry' # retry BY <1>1, <2>1
  <2>3. CallOverflows
    <3> USE DEF controlVars, vars
    <3>1. ~Coordinator
      BY <1>1 DEF Coordinator, SeesHardAbort, AbortTurn, SetupTurn, BeginIteration,
         ExhaustIterations, Finalize, FinalizeFails, FinalizeHandled
    <3>2. ~Tools
      BY <1>1 DEF Tools, ToolDenied, ToolHookAborts, ToolStarts, ToolRespondedByHook, ToolReturns,
         ToolReturnsToHook, ToolsContinue, ToolsHandled, AtTool
    <3>3. ~(SteerArrives \/ Interrupt \/ HardAbortSteps \/ UNCHANGED vars)
      BY <2>2 DEF SteerArrives, Interrupt, HardAbortSteps, HardAbortRequest, HardAbortRead,
         HardAbortCut
    <3>4. Llm BY <1>1, <3>1, <3>2, <3>3 DEF Next
    <3> QED BY <1>1, <2>2, <3>4 DEF Llm, PrepareCall, CallAnswered, CallCanceled, CallFails,
            CallTransient, Backoff, BackoffAborted, BackoffCanceled, Answered, ToolCalls
  <2>4. history' \in {history, Compacted(history)} BY <2>3 DEF CallOverflows, AfterCompact
  <2>5. Paired(Compacted(history)) BY <1>1, <2>1, CompactedPaired
  <2> QED BY <1>1, <2>4, <2>5
<1>2. IInv /\ Places /\ Cuttable /\ [Next]_vars =>
        [(pc = "call" /\ retry' = retry + 1 /\ Paired(history)) => Paired(history')]_vars
  BY <1>1
<1> QED BY <1>2, InvariantHolds, PlacesHold, CuttableHolds, PTL DEF Spec, CompactionKeepsPairs
-----------------------------------------------------------------------------
(***************************************************************************)
(* Every call is answered, once, after a compaction too.  The conversation  *)
(* is then rebuilt from the session: from a message of role "user" on, or   *)
(* from where matchingTurnMessageTail finds the messages of the turn begin. *)
(* Either is well formed (Heard), the latter because what is said extends   *)
(* that tail, and a cut leaves it as it is or shortens it to the session.   *)
(***************************************************************************)
TailOf(h, p) == Suffix(h, TailMatch(h, p))

LEMMA SuffixIs ==
  ASSUME NEW h \in Seq(Items), NEW n \in Nat, n <= Len(h)
  PROVE  /\ Suffix(h, n) \in Seq(Items) /\ Len(Suffix(h, n)) = n
         /\ \A x \in 1..n : Len(h) - n + x \in 1..Len(h) /\ Suffix(h, n)[x] = h[Len(h) - n + x]
<1> DEFINE m == Len(h) - n + 1
<1>1. Len(h) \in Nat BY LenProperties
<1>2. /\ m \in Nat \ {0} /\ Len(h) \in Int /\ Len(h) <= Len(h) /\ m <= Len(h) + 1
      /\ Len(h) - m + 1 = n
  BY <1>1
<1>3. \A x \in Nat : x + m - 1 = Len(h) - n + x BY <1>1
<1> HIDE DEF m
<1>4. /\ SubSeq(h, m, Len(h)) \in Seq(Items) /\ Len(SubSeq(h, m, Len(h))) = Len(h) - m + 1
      /\ \A x \in 1..Len(h) - m + 1 :
           x + m - 1 \in 1..Len(h) /\ SubSeq(h, m, Len(h))[x] = h[x + m - 1]
  BY <1>2, Sliced
<1>5. Suffix(h, n) = SubSeq(h, m, Len(h)) BY DEF Suffix, m
<1>6. ASSUME NEW x \in 1..n
      PROVE  Len(h) - n + x \in 1..Len(h) /\ Suffix(h, n)[x] = h[Len(h) - n + x]
  <2>1. x + m - 1 \in 1..Len(h) /\ SubSeq(h, m, Len(h))[x] = h[x + m - 1] BY <1>2, <1>4
  <2>2. x + m - 1 = Len(h) - n + x BY <1>3
  <2> QED BY <1>5, <2>1, <2>2
<1> QED BY <1>2, <1>4, <1>5, <1>6

LEMMA LongestMatch ==
  ASSUME NEW h \in Seq(Items), NEW p \in Seq(Items), NEW m, Matching(h, p, m),
         \A n : Matching(h, p, n) => n <= m
  PROVE  TailMatch(h, p) = m
<1>1. /\ Matching(h, p, TailMatch(h, p))
      /\ \A n : Matching(h, p, n) => n <= TailMatch(h, p)
  BY TailMatchIs
<1>2. TailMatch(h, p) <= m /\ m <= TailMatch(h, p) BY <1>1
<1>3. TailMatch(h, p) \in Nat /\ m \in Nat BY <1>1 DEF Matching
<1> QED BY <1>2, <1>3

LEMMA SuffixGrows ==
  ASSUME NEW h \in Seq(Items), NEW t \in Seq(Items), NEW n \in Nat, n <= Len(h)
  PROVE  Suffix(h \o t, n + Len(t)) = Suffix(h, n) \o t
<1> DEFINE u == h \o t
           a == Suffix(u, n + Len(t))
           c == Suffix(h, n)
           b == c \o t
<1>1. /\ u \in Seq(Items) /\ Len(h) \in Nat /\ Len(t) \in Nat /\ Len(u) = Len(h) + Len(t)
      /\ \A x \in 1..Len(h) : u[x] = h[x]
      /\ \A x \in 1..Len(t) : u[x + Len(h)] = t[x]
  BY Joined
<1>2. /\ c \in Seq(Items) /\ Len(c) = n
      /\ \A x \in 1..n : Len(h) - n + x \in 1..Len(h) /\ c[x] = h[Len(h) - n + x]
  BY SuffixIs
<1> HIDE DEF u, c
<1>3. n + Len(t) \in Nat /\ n + Len(t) <= Len(u) BY <1>1
<1>4. /\ a \in Seq(Items) /\ Len(a) = n + Len(t)
      /\ \A x \in 1..n + Len(t) :
           Len(u) - (n + Len(t)) + x \in 1..Len(u) /\ a[x] = u[Len(u) - (n + Len(t)) + x]
  BY <1>1, <1>3, SuffixIs
<1>4a. c \in Seq(Items) BY <1>2
<1>5. /\ b \in Seq(Items) /\ Len(b) = Len(c) + Len(t)
      /\ \A x \in 1..Len(c) : b[x] = c[x]
      /\ \A x \in 1..Len(b) : \/ x \in 1..Len(c)
                              \/ x > Len(c) /\ x - Len(c) \in 1..Len(t) /\ b[x] = t[x - Len(c)]
  BY <1>4a, Joined
<1> HIDE DEF a, b
<1>6. Len(a) = Len(b) BY <1>2, <1>4, <1>5
<1>7. ASSUME NEW x \in 1..Len(a) PROVE a[x] = b[x]
  <2>1. a[x] = u[Len(u) - (n + Len(t)) + x] BY <1>4
  <2>2. Len(u) - (n + Len(t)) + x = Len(h) - n + x BY <1>1
  <2>3. CASE x \in 1..n
    <3>1. Len(h) - n + x \in 1..Len(h) /\ c[x] = h[Len(h) - n + x] BY <1>2, <2>3
    <3>2. b[x] = c[x] BY <1>2, <1>5, <2>3
    <3> QED BY <1>1, <2>1, <2>2, <3>1, <3>2
  <2>4. CASE x \notin 1..n
    <3>1. x - n \in 1..Len(t) /\ b[x] = t[x - n] BY <1>2, <1>5, <1>6, <2>4
    <3>2. (x - n) + Len(h) = Len(h) - n + x BY <1>1
    <3>3. u[(x - n) + Len(h)] = t[x - n] BY <1>1, <3>1
    <3> QED BY <2>1, <2>2, <3>1, <3>2, <3>3
  <2> QED BY <2>3, <2>4
<1>8. a = b BY <1>4, <1>5, <1>6, <1>7, SeqEqual
<1> QED BY <1>8 DEF a, b, c, u

\* What is said to both extends the tail that they have.
LEMMA TailGrows ==
  ASSUME NEW h \in Seq(Items), NEW p \in Seq(Items), NEW t \in Seq(Items)
  PROVE  TailOf(h \o t, p \o t) = TailOf(h, p) \o t
<1> DEFINE m == TailMatch(h, p)
           k == Len(t)
<1>0. Matching(h, p, m) /\ \A n : Matching(h, p, n) => n <= m BY TailMatchIs
<1> HIDE DEF m
<1>1. /\ m \in Nat /\ m <= Len(h) /\ m <= Len(p) /\ Suffix(h, m) = Suffix(p, m)
      /\ Len(h) \in Nat /\ Len(p) \in Nat /\ k \in Nat
  BY <1>0, LenProperties DEF Matching
<1>2. /\ h \o t \in Seq(Items) /\ Len(h \o t) = Len(h) + k
      /\ p \o t \in Seq(Items) /\ Len(p \o t) = Len(p) + k
  BY ConcatProperties
<1>3. Suffix(h \o t, m + k) = Suffix(h, m) \o t /\ Suffix(p \o t, m + k) = Suffix(p, m) \o t
  BY <1>1, SuffixGrows DEF k
<1> HIDE DEF k
<1>4. Matching(h \o t, p \o t, m + k)
  <2>1. m + k \in Nat /\ m + k <= Len(h) + k /\ m + k <= Len(p) + k BY <1>1
  <2>2. m + k <= Len(h \o t) /\ m + k <= Len(p \o t) BY <1>2, <2>1
  <2>3. Suffix(h \o t, m + k) = Suffix(p \o t, m + k) BY <1>1, <1>3
  <2> QED BY <2>1, <2>2, <2>3 DEF Matching
<1>5. ASSUME NEW n, Matching(h \o t, p \o t, n) PROVE n <= m + k
  <2>1. /\ n \in Nat /\ n <= Len(h) + k /\ n <= Len(p) + k
        /\ Suffix(h \o t, n) = Suffix(p \o t, n)
    BY <1>2, <1>5 DEF Matching
  <2>2. CASE n <= k BY <1>1, <2>1, <2>2
  <2>3. CASE ~(n <= k)
    <3> DEFINE j == n - k
    <3>1. j \in Nat /\ j <= Len(h) /\ j <= Len(p) /\ n = j + k BY <1>1, <2>1, <2>3
    <3> HIDE DEF j
    <3>2. Suffix(h \o t, j + k) = Suffix(h, j) \o t /\ Suffix(p \o t, j + k) = Suffix(p, j) \o t
      BY <3>1, SuffixGrows DEF k
    <3>3. Suffix(h, j) \in Seq(Items) /\ Suffix(p, j) \in Seq(Items) BY <3>1, SuffixIs
    <3>4. Suffix(h, j) \o t = Suffix(p, j) \o t BY <2>1, <3>1, <3>2
    <3>5. Suffix(h, j) = Suffix(p, j) BY <3>3, <3>4, ConcatSimplifications
    <3>6. Matching(h, p, j) BY <3>1, <3>5 DEF Matching
    <3>7. j <= m BY <1>0, <3>6
    <3> QED BY <1>1, <3>1, <3>7
  <2> QED BY <2>2, <2>3
<1>6. TailMatch(h \o t, p \o t) = m + k BY <1>2, <1>4, <1>5, LongestMatch
<1> QED BY <1>3, <1>6 DEF TailOf, m

LEMMA MatchingShorter ==
  ASSUME NEW h \in Seq(Items), NEW p \in Seq(Items), NEW n, Matching(h, p, n),
         NEW k \in Nat, k <= n
  PROVE  Matching(h, p, k)
<1>1. /\ n \in Nat /\ n <= Len(h) /\ n <= Len(p) /\ Suffix(h, n) = Suffix(p, n)
      /\ Len(h) \in Nat /\ Len(p) \in Nat
  BY LenProperties DEF Matching
<1>2. k <= Len(h) /\ k <= Len(p) BY <1>1
<1>3. /\ Suffix(h, k) \in Seq(Items) /\ Len(Suffix(h, k)) = k
      /\ \A x \in 1..k : Suffix(h, k)[x] = h[Len(h) - k + x]
      /\ Suffix(p, k) \in Seq(Items) /\ Len(Suffix(p, k)) = k
      /\ \A x \in 1..k : Suffix(p, k)[x] = p[Len(p) - k + x]
  BY <1>2, SuffixIs
<1>4. /\ \A x \in 1..n : Suffix(h, n)[x] = h[Len(h) - n + x]
      /\ \A x \in 1..n : Suffix(p, n)[x] = p[Len(p) - n + x]
  BY <1>1, SuffixIs
<1>5. ASSUME NEW x \in 1..k PROVE Suffix(h, k)[x] = Suffix(p, k)[x]
  <2> DEFINE y == x + (n - k)
  <2>1. y \in 1..n /\ Len(h) - n + y = Len(h) - k + x /\ Len(p) - n + y = Len(p) - k + x
    BY <1>1
  <2> HIDE DEF y
  <2>2. Suffix(h, n)[y] = h[Len(h) - n + y] /\ Suffix(p, n)[y] = p[Len(p) - n + y]
    BY <1>4, <2>1
  <2>3. h[Len(h) - k + x] = p[Len(p) - k + x] BY <1>1, <2>1, <2>2
  <2> QED BY <1>3, <2>3
<1>6. Suffix(h, k) = Suffix(p, k) BY <1>3, <1>5, SeqEqual
<1> QED BY <1>2, <1>6 DEF Matching

\* The end of a part is the end of the whole.
LEMMA SuffixOfSlice ==
  ASSUME NEW h \in Seq(Items), NEW b \in 1..Len(h), NEW n \in Nat, n <= Len(h) - b + 1
  PROVE  Suffix(SubSeq(h, b, Len(h)), n) = Suffix(h, n)
<1> DEFINE u == SubSeq(h, b, Len(h))
<1>1. Len(h) \in Nat BY LenProperties
<1>2. b \in Nat \ {0} /\ Len(h) \in Int /\ Len(h) <= Len(h) /\ b <= Len(h) + 1 BY <1>1
<1>3. /\ u \in Seq(Items) /\ Len(u) = Len(h) - b + 1
      /\ \A x \in 1..Len(h) - b + 1 : u[x] = h[x + b - 1]
  BY <1>2, Sliced
<1> HIDE DEF u
<1>4. n <= Len(u) /\ n <= Len(h) BY <1>1, <1>3
<1>5. /\ Suffix(h, n) \in Seq(Items) /\ Len(Suffix(h, n)) = n
      /\ \A x \in 1..n : Suffix(h, n)[x] = h[Len(h) - n + x]
      /\ Suffix(u, n) \in Seq(Items) /\ Len(Suffix(u, n)) = n
      /\ \A x \in 1..n : Len(u) - n + x \in 1..Len(u) /\ Suffix(u, n)[x] = u[Len(u) - n + x]
  BY <1>3, <1>4, SuffixIs
<1>6. ASSUME NEW x \in 1..n PROVE Suffix(u, n)[x] = Suffix(h, n)[x]
  <2> DEFINE y == Len(u) - n + x
  <2>1. y \in 1..Len(u) /\ Suffix(u, n)[x] = u[y] BY <1>5
  <2>2. y + b - 1 = Len(h) - n + x BY <1>1, <1>3
  <2> HIDE DEF y
  <2>3. u[y] = h[y + b - 1] BY <1>3, <2>1
  <2> QED BY <1>5, <2>1, <2>2, <2>3
<1>7. Suffix(u, n) = Suffix(h, n) BY <1>5, <1>6, SeqEqual
<1> QED BY <1>7 DEF u

\* A cut leaves the tail, or leaves nothing before it.
LEMMA TailOfCut ==
  ASSUME NEW h \in Seq(Items), NEW p \in Seq(Items), NEW b \in 1..Len(h),
         NEW u, u = SubSeq(h, b, Len(h))
  PROVE  TailOf(u, p) \in {u, TailOf(h, p)}
<1>1. Len(h) \in Nat BY LenProperties
<1>2. b \in Nat \ {0} /\ Len(h) \in Int /\ Len(h) <= Len(h) /\ b <= Len(h) + 1 BY <1>1
<1>3. u \in Seq(Items) /\ Len(u) = Len(h) - b + 1 /\ Len(u) \in Nat /\ Len(u) <= Len(h)
  <2>1. u \in Seq(Items) /\ Len(u) = Len(h) - b + 1 BY <1>2, Sliced
  <2> QED BY <1>1, <2>1
<1> DEFINE m == TailMatch(h, p)
           k == TailMatch(u, p)
<1>4. Matching(h, p, m) /\ \A n : Matching(h, p, n) => n <= m BY TailMatchIs
<1>5. Matching(u, p, k) /\ \A n : Matching(u, p, n) => n <= k BY <1>3, TailMatchIs
<1> HIDE DEF m, k
<1>6. m \in Nat /\ k \in Nat /\ k <= Len(u) BY <1>4, <1>5 DEF Matching
<1>7. \A n \in Nat : n <= Len(u) => Suffix(u, n) = Suffix(h, n) BY <1>3, SuffixOfSlice
<1>8. \A n \in Nat : n <= Len(u) => (Matching(u, p, n) <=> Matching(h, p, n))
  <2> SUFFICES ASSUME NEW n \in Nat, n <= Len(u)
               PROVE  Matching(u, p, n) <=> Matching(h, p, n)
    OBVIOUS
  <2>1. n <= Len(h) /\ Suffix(u, n) = Suffix(h, n) BY <1>1, <1>3, <1>7
  <2> QED BY <2>1 DEF Matching
<1>9. Matching(h, p, k) BY <1>5, <1>6, <1>8
<1>10. k <= m BY <1>4, <1>9
<1>11. CASE m <= Len(u)
  <2>1. Matching(u, p, m) BY <1>4, <1>6, <1>8, <1>11
  <2>2. k = m BY <1>5, <1>6, <1>10, <2>1
  <2>3. Suffix(u, k) = Suffix(h, m) BY <1>6, <1>7, <2>2
  <2> QED BY <2>3 DEF TailOf, m, k
<1>12. CASE ~(m <= Len(u))
  <2>1. Len(u) <= m BY <1>3, <1>6, <1>12
  <2>2. Matching(h, p, Len(u)) BY <1>3, <1>4, <2>1, MatchingShorter
  <2>3. Matching(u, p, Len(u)) BY <1>3, <1>8, <2>2
  <2>4. k = Len(u)
    <3>1. Len(u) <= k BY <1>5, <2>3
    <3>2. k \in Nat /\ k <= Len(u) /\ Len(u) \in Nat BY <1>3, <1>6
    <3> QED BY <3>1, <3>2
  <2>5. Suffix(u, Len(u)) = u
    <3>1. Len(u) - Len(u) + 1 = 1 BY <1>3
    <3> QED BY <1>3, <3>1, SubSeqFull DEF Suffix
  <2> QED BY <2>4, <2>5 DEF TailOf, k
<1> QED BY <1>11, <1>12

-----------------------------------------------------------------------------
LEMMA MuteSlice ==
  ASSUME NEW h \in Seq(Items), Mute(h), NEW m \in Nat \ {0}, NEW n \in Int, n <= Len(h), m <= n + 1
  PROVE  SubSeq(h, m, n) \in Seq(Items) /\ Mute(SubSeq(h, m, n))
<1> DEFINE u == SubSeq(h, m, n)
<1>1. /\ u \in Seq(Items) /\ Len(u) = n - m + 1
      /\ \A x \in 1..n - m + 1 : x + m - 1 \in 1..Len(h) /\ u[x] = h[x + m - 1]
  BY Sliced
<1> HIDE DEF u
<1>2. ASSUME NEW x \in 1..Len(u) PROVE ~IsCall(u[x]) /\ ~IsResult(u[x])
  <2>1. x + m - 1 \in 1..Len(h) /\ u[x] = h[x + m - 1] BY <1>1
  <2> QED BY <2>1 DEF Mute
<1>3. Mute(u) BY <1>2 DEF Mute
<1> QED BY <1>1, <1>3 DEF u

\* What follows the start of a turn is as well formed as the whole.
LEMMA ConvSlice ==
  ASSUME NEW h, NEW it, Sound(h, it), Conv(h, it, 1, 0), NEW b \in Boundaries(h)
  PROVE  SubSeq(h, b, Len(h)) \in Seq(Items) /\ Conv(SubSeq(h, b, Len(h)), it, 1, 0)
<1> DEFINE u == SubSeq(h, b, Len(h))
           at(x) == x + b - 1
           from(y) == y - b + 1
<1>0. h \in Seq(Items) /\ Len(h) \in Nat BY LenProperties DEF Sound
<1>1. b \in 1..Len(h) BY DEF Boundaries
<1>2. b \in Nat \ {0} /\ Len(h) \in Int /\ Len(h) <= Len(h) /\ b <= Len(h) + 1 BY <1>0, <1>1
<1>3. /\ u \in Seq(Items) /\ Len(u) = Len(h) - b + 1
      /\ \A x \in 1..Len(h) - b + 1 : x + b - 1 \in 1..Len(h) /\ u[x] = h[x + b - 1]
  BY <1>0, <1>2, Sliced
<1>4. u \in Seq(Items) /\ Len(u) \in Nat BY <1>3, LenProperties
<1>5. \A x \in 1..Len(u) : at(x) \in 1..Len(h) /\ at(x) >= b /\ u[x] = h[at(x)]
  BY <1>2, <1>3
<1>6. \A y \in b..Len(h) : from(y) \in 1..Len(u) /\ at(from(y)) = y BY <1>2, <1>3
<1>7. \A x, y \in 1..Len(u) : x < y <=> at(x) < at(y) BY <1>2, <1>4
<1>8. \A x, y \in 1..Len(u) : at(x) = at(y) => x = y BY <1>2, <1>4
<1> HIDE DEF u, at, from
<1>9. Within(u, it, 1, 0)
  <2>1. ASSUME NEW i \in 1..Len(u), IsCall(u[i])
        PROVE  u[i][2] < it \/ (u[i][2] = it /\ u[i][3] <= 0)
    <3>1. at(i) \in 1..Len(h) /\ u[i] = h[at(i)] BY <1>5
    <3>2. IsCall(h[at(i)]) BY <2>1, <3>1
    <3>3. h[at(i)][2] < it \/ (h[at(i)][2] = it /\ h[at(i)][3] <= 0)
      BY <3>1, <3>2 DEF Conv, Within
    <3> QED BY <3>1, <3>3
  <2>2. ASSUME NEW i \in 1..Len(u), IsResult(u[i])
        PROVE  u[i][2] < it \/ (u[i][2] = it /\ u[i][3] < 1)
    <3>1. at(i) \in 1..Len(h) /\ u[i] = h[at(i)] BY <1>5
    <3>2. IsResult(h[at(i)]) BY <2>2, <3>1
    <3>3. h[at(i)][2] < it \/ (h[at(i)][2] = it /\ h[at(i)][3] < 1)
      BY <3>1, <3>2 DEF Conv, Within
    <3> QED BY <3>1, <3>3
  <2> QED BY <2>1, <2>2 DEF Within
<1>10. Answers(u, it, 1)
  <2> SUFFICES ASSUME NEW i \in 1..Len(u), IsCall(u[i]), NEW k \in 1..u[i][3]
               PROVE  \/ u[i][2] = it /\ k >= 1
                      \/ \E j \in i + 1 .. Len(u) : u[j] = <<"result", u[i][2], k>>
    BY DEF Answers
  <2>1. at(i) \in 1..Len(h) /\ at(i) >= b /\ u[i] = h[at(i)] BY <1>5
  <2>2. IsCall(h[at(i)]) /\ k \in 1..h[at(i)][3] BY <2>1
  <2>3. CASE h[at(i)][2] = it /\ k >= 1 BY <2>1, <2>3
  <2>4. CASE \E j \in at(i) + 1 .. Len(h) : h[j] = <<"result", h[at(i)][2], k>>
    <3>1. PICK j \in at(i) + 1 .. Len(h) : h[j] = <<"result", h[at(i)][2], k>> BY <2>4
    <3>2. j \in b..Len(h) /\ at(i) < j BY <1>0, <1>2, <2>1
    <3>3. from(j) \in 1..Len(u) /\ at(from(j)) = j BY <1>6, <3>2
    <3>4. i < from(j) BY <1>7, <3>2, <3>3
    <3>5. from(j) \in i + 1 .. Len(u) BY <1>4, <3>3, <3>4
    <3>6. u[from(j)] = h[j] BY <1>5, <3>3
    <3> QED BY <2>1, <3>1, <3>5, <3>6
  <2>5. \/ h[at(i)][2] = it /\ k >= 1
        \/ \E j \in at(i) + 1 .. Len(h) : h[j] = <<"result", h[at(i)][2], k>>
    BY <2>1, <2>2 DEF Conv, Answers
  <2> QED BY <2>3, <2>4, <2>5
<1>11. Called(u)
  <2> SUFFICES ASSUME NEW i \in 1..Len(u), IsResult(u[i])
               PROVE  \E j \in 1 .. i - 1 :
                        IsCall(u[j]) /\ u[j][2] = u[i][2] /\ u[j][3] >= u[i][3]
    BY DEF Called
  <2>1. at(i) \in 1..Len(h) /\ at(i) >= b /\ u[i] = h[at(i)] BY <1>5
  <2>2. IsResult(h[at(i)]) BY <2>1
  <2>3. PICK j \in 1 .. at(i) - 1 :
          IsCall(h[j]) /\ h[j][2] = h[at(i)][2] /\ h[j][3] >= h[at(i)][3]
    BY <2>1, <2>2 DEF Conv, Called
  <2>4. j \in 1..Len(h) /\ j < at(i) BY <1>0, <2>1
  <2>5. ~(j < b) BY <2>1, <2>2, <2>3, <2>4 DEF Sound, Apart
  <2>6. j \in b..Len(h) BY <1>1, <2>4, <2>5
  <2>7. from(j) \in 1..Len(u) /\ at(from(j)) = j BY <1>6, <2>6
  <2>8. from(j) < i BY <1>7, <2>4, <2>7
  <2>9. from(j) \in 1..i - 1 BY <1>4, <2>7, <2>8
  <2>10. u[from(j)] = h[j] BY <1>5, <2>7
  <2> QED BY <2>1, <2>3, <2>9, <2>10
<1>12. Once(u)
  <2> SUFFICES ASSUME NEW i \in 1..Len(u), NEW j \in 1..Len(u), IsResult(u[i]), u[i] = u[j]
               PROVE  i = j
    BY DEF Once
  <2>1. /\ at(i) \in 1..Len(h) /\ u[i] = h[at(i)]
        /\ at(j) \in 1..Len(h) /\ u[j] = h[at(j)]
    BY <1>5
  <2>2. IsResult(h[at(i)]) /\ h[at(i)] = h[at(j)] BY <2>1
  <2>3. at(i) = at(j) BY <2>1, <2>2 DEF Conv, Once
  <2> QED BY <1>8, <2>3
<1> QED BY <1>4, <1>9, <1>10, <1>11, <1>12 DEF Conv, u

LEMMA TailType ==
  ASSUME NEW h \in Seq(Items), NEW p \in Seq(Items) PROVE TailOf(h, p) \in Seq(Items)
<1>1. Matching(h, p, TailMatch(h, p)) BY TailMatchIs
<1> QED BY <1>1, SuffixIs DEF TailOf, Matching

LEMMA TailMute ==
  ASSUME NEW h \in Seq(Items), NEW p \in Seq(Items), Mute(h)
  PROVE  TailOf(h, p) \in Seq(Items) /\ Mute(TailOf(h, p))
<1>1. Matching(h, p, TailMatch(h, p)) BY TailMatchIs
<1> DEFINE m == Len(h) - TailMatch(h, p) + 1
<1>2. Len(h) \in Nat BY LenProperties
<1>3. /\ m \in Nat \ {0} /\ Len(h) \in Int /\ Len(h) <= Len(h) /\ m <= Len(h) + 1
  BY <1>1, <1>2 DEF Matching
<1> HIDE DEF m
<1>4. SubSeq(h, m, Len(h)) \in Seq(Items) /\ Mute(SubSeq(h, m, Len(h))) BY <1>3, MuteSlice
<1> QED BY <1>4 DEF TailOf, Suffix, m

\* Compacted, a session and the tail of the turn in it stay well formed.
LEMMA CompactedConv ==
  ASSUME NEW h, NEW it \in Nat, Sound(h, it), HeadedOrEmpty(h), NEW p \in Seq(Items),
         Conv(h, it, 1, 0), Conv(TailOf(h, p), it, 1, 0)
  PROVE  Conv(Compacted(h), it, 1, 0) /\ Conv(TailOf(Compacted(h), p), it, 1, 0)
<1>0. h \in Seq(Items) BY DEF Sound
<1>1. CASE Compacted(h) = h BY <1>1
<1>2. CASE Compacted(h) # h
  <2>1. PICK b \in Boundaries(h) : \/ Compacted(h) = SubSeq(h, b, Len(h))
                                   \/ Compacted(h) = <<h[b]>>
    BY <1>0, <1>2, CutsAtBoundary
  <2>2. b \in 1..Len(h) /\ ~IsCall(h[b]) /\ ~IsResult(h[b]) BY BoundaryKind
  <2>3. CASE Compacted(h) = SubSeq(h, b, Len(h))
    <3>1. Conv(Compacted(h), it, 1, 0) BY <2>3, ConvSlice
    <3>2. TailOf(Compacted(h), p) \in {Compacted(h), TailOf(h, p)}
      BY <1>0, <2>2, <2>3, TailOfCut
    <3> QED BY <3>1, <3>2
  <2>4. CASE Compacted(h) = <<h[b]>>
    <3>1. h[b] \in Items BY <1>0, <2>2, ElementOfSeq
    <3>2. h[b][1] \notin {"calls", "result"} BY <2>2 DEF IsCall, IsResult
    <3>3. Compacted(h) \in Seq(Items) /\ Mute(Compacted(h)) BY <2>4, <3>1, <3>2, MuteSingle
    <3>4. Mute(TailOf(Compacted(h), p)) BY <3>3, TailMute
    <3> QED BY <3>3, <3>4, MuteConv
  <2> QED BY <2>1, <2>3, <2>4
<1> QED BY <1>1, <1>2

LEMMA SplitAt ==
  ASSUME NEW h \in Seq(Items), NEW b \in Nat \ {0}, NEW m \in Nat, b <= m + 1, m <= Len(h)
  PROVE  SubSeq(h, b, m) \o SubSeq(h, m + 1, Len(h)) = SubSeq(h, b, Len(h))
<1> DEFINE s == SubSeq(h, b, m)
           t == SubSeq(h, m + 1, Len(h))
           u == SubSeq(h, b, Len(h))
           v == s \o t
<1>1. Len(h) \in Nat BY LenProperties
<1>2. /\ m \in Int /\ m + 1 \in Nat \ {0} /\ Len(h) \in Int /\ Len(h) <= Len(h)
      /\ m + 1 <= Len(h) + 1 /\ b <= Len(h) + 1
  BY <1>1
<1>3. s \in Seq(Items) /\ Len(s) = m - b + 1 /\ \A x \in 1..m - b + 1 : s[x] = h[x + b - 1]
  BY <1>2, Sliced
<1>4. /\ t \in Seq(Items) /\ Len(t) = Len(h) - (m + 1) + 1
      /\ \A x \in 1..Len(h) - (m + 1) + 1 : t[x] = h[x + (m + 1) - 1]
  BY <1>2, Sliced
<1>5. /\ u \in Seq(Items) /\ Len(u) = Len(h) - b + 1
      /\ \A x \in 1..Len(h) - b + 1 : u[x] = h[x + b - 1]
  BY <1>2, Sliced
<1> HIDE DEF s, t, u
<1>5a. s \in Seq(Items) /\ t \in Seq(Items) BY <1>3, <1>4
<1>6. /\ v \in Seq(Items) /\ Len(v) = Len(s) + Len(t)
      /\ \A x \in 1..Len(s) : v[x] = s[x]
      /\ \A x \in 1..Len(v) : \/ x \in 1..Len(s)
                              \/ x > Len(s) /\ x - Len(s) \in 1..Len(t) /\ v[x] = t[x - Len(s)]
  BY <1>5a, Joined
<1> HIDE DEF v
<1>7. Len(v) = Len(u) BY <1>1, <1>3, <1>4, <1>5, <1>6
<1>8. ASSUME NEW x \in 1..Len(v) PROVE v[x] = u[x]
  <2>1. u[x] = h[x + b - 1] BY <1>5, <1>7
  <2>2. CASE x \in 1..Len(s) BY <1>3, <1>6, <2>1, <2>2
  <2>3. CASE x > Len(s) /\ x - Len(s) \in 1..Len(t) /\ v[x] = t[x - Len(s)]
    <3>1. t[x - Len(s)] = h[(x - Len(s)) + (m + 1) - 1] BY <1>4, <2>3
    <3>2. (x - Len(s)) + (m + 1) - 1 = x + b - 1 BY <1>3
    <3> QED BY <2>1, <2>3, <3>1, <3>2
  <2> QED BY <1>6, <2>2, <2>3
<1>9. v = u BY <1>5, <1>6, <1>7, <1>8, SeqEqual
<1> QED BY <1>9 DEF s, t, u, v

\* What the conversation is rebuilt to, however much of what was before the
\* turn is kept.
LEMMA RebuiltConv ==
  ASSUME NEW h, NEW it \in Nat, Sound(h, it), NEW p \in Seq(Items),
         Conv(h, it, 1, 0), Conv(TailOf(h, p), it, 1, 0),
         NEW kept \in Trims(Upto(h, Len(h) - TailMatch(h, p)))
  PROVE  kept \o TailOf(h, p) \in Seq(Items) /\ Conv(kept \o TailOf(h, p), it, 1, 0)
<1> DEFINE m == Len(h) - TailMatch(h, p)
           front == SubSeq(h, 1, m)
           tail == TailOf(h, p)
<1>0. h \in Seq(Items) /\ Len(h) \in Nat BY LenProperties DEF Sound
<1>1. Matching(h, p, TailMatch(h, p)) BY <1>0, TailMatchIs
<1>2. m \in Nat /\ m <= Len(h) /\ 1 <= m + 1 /\ Len(h) - TailMatch(h, p) + 1 = m + 1
      /\ 1 \in Nat \ {0} /\ m \in Int
  BY <1>0, <1>1 DEF Matching
<1>3. tail = SubSeq(h, m + 1, Len(h)) BY <1>2 DEF TailOf, Suffix
<1>4. kept \in Trims(front) BY DEF Upto
<1>5. tail \in Seq(Items) BY <1>0, TailType
<1> HIDE DEF m, tail
<1>6. /\ front \in Seq(Items) /\ Len(front) = m - 1 + 1
      /\ \A x \in 1..m - 1 + 1 : x + 1 - 1 \in 1..Len(h) /\ SubSeq(h, 1, m)[x] = h[x + 1 - 1]
  BY <1>0, <1>2, Sliced
<1>7. Len(front) = m /\ \A x \in 1..m : front[x] = h[x]
  <2>1. m - 1 + 1 = m /\ \A x \in 1..m : x + 1 - 1 = x BY <1>2
  <2> QED BY <1>6, <2>1
<1>8. CASE kept = front
  <2>1. front \o tail = SubSeq(h, 1, Len(h)) BY <1>0, <1>2, <1>3, SplitAt
  <2>2. SubSeq(h, 1, Len(h)) = h BY <1>0, SubSeqFull
  <2> QED BY <1>0, <1>8, <2>1, <2>2 DEF tail
<1>9. CASE kept = <<>>
  <2>1. kept \o tail = tail BY <1>5, <1>9, ConcatEmptySeq
  <2> QED BY <1>5, <2>1 DEF tail
<1>10. CASE \E b \in Boundaries(front) : kept = SubSeq(front, b, Len(front))
  <2>1. PICK b \in Boundaries(front) : kept = SubSeq(front, b, Len(front)) BY <1>10
  <2> HIDE DEF front
  <2>2. b \in 1..m /\ front[b][1] \in {"user", "steer", "sub"} BY <1>7 DEF Boundaries
  <2>3. b \in Boundaries(h)
    <3>1. b \in 1..Len(h) /\ front[b] = h[b] BY <1>0, <1>2, <1>7, <2>2
    <3> QED BY <2>2, <3>1 DEF Boundaries
  <2>4. kept = SubSeq(h, b, m)
    <3>1. /\ b \in Nat \ {0} /\ m \in Int /\ m <= Len(front) /\ b <= m + 1 /\ m <= Len(h)
      BY <1>2, <1>7, <2>2
    <3>2. /\ SubSeq(front, b, m) \in Seq(Items) /\ Len(SubSeq(front, b, m)) = m - b + 1
          /\ \A x \in 1..m - b + 1 : x + b - 1 \in 1..Len(front)
                                       /\ SubSeq(front, b, m)[x] = front[x + b - 1]
      BY <1>6, <3>1, Sliced DEF front
    <3>3. /\ SubSeq(h, b, m) \in Seq(Items) /\ Len(SubSeq(h, b, m)) = m - b + 1
          /\ \A x \in 1..m - b + 1 : SubSeq(h, b, m)[x] = h[x + b - 1]
      BY <1>0, <3>1, Sliced
    <3>4. \A x \in 1..m - b + 1 : SubSeq(front, b, m)[x] = SubSeq(h, b, m)[x]
      BY <1>7, <3>2, <3>3
    <3>5. SubSeq(front, b, m) = SubSeq(h, b, m)
      <4> DEFINE s == SubSeq(front, b, m)
                 t == SubSeq(h, b, m)
      <4>1. s \in Seq(Items) /\ t \in Seq(Items) /\ Len(s) = m - b + 1 /\ Len(t) = m - b + 1
            /\ \A x \in 1..m - b + 1 : s[x] = t[x]
        BY <3>2, <3>3, <3>4
      <4> HIDE DEF s, t
      <4>2. s = t BY <4>1, SeqEqual
      <4> QED BY <4>2 DEF s, t
    <3> QED BY <1>7, <2>1, <3>5
  <2>5. b \in Nat \ {0} /\ b <= m + 1 BY <1>2, <2>2
  <2>6. kept \o tail = SubSeq(h, b, Len(h)) BY <1>0, <1>2, <1>3, <2>4, <2>5, SplitAt
  <2>7. SubSeq(h, b, Len(h)) \in Seq(Items) /\ Conv(SubSeq(h, b, Len(h)), it, 1, 0)
    BY <2>3, ConvSlice
  <2> QED BY <2>6, <2>7 DEF tail
<1> QED BY <1>4, <1>8, <1>9, <1>10 DEF Trims
LEMMA CompactedMute ==
  ASSUME NEW h \in Seq(Items), Mute(h), HeadedOrEmpty(h)
  PROVE  Compacted(h) \in Seq(Items) /\ Mute(Compacted(h))
<1>1. CASE Compacted(h) = h BY <1>1
<1>2. CASE Compacted(h) # h
  <2>1. PICK b \in Boundaries(h) : \/ Compacted(h) = SubSeq(h, b, Len(h))
                                   \/ Compacted(h) = <<h[b]>>
    BY <1>2, CutsAtBoundary
  <2>2. b \in 1..Len(h) /\ ~IsCall(h[b]) /\ ~IsResult(h[b]) BY BoundaryKind
  <2>3. CASE Compacted(h) = SubSeq(h, b, Len(h))
    <3>1. b \in Nat \ {0} /\ Len(h) \in Int /\ Len(h) <= Len(h) /\ b <= Len(h) + 1
      BY <2>2, LenProperties
    <3> QED BY <2>3, <3>1, MuteSlice
  <2>4. CASE Compacted(h) = <<h[b]>>
    <3>1. h[b] \in Items BY <2>2, ElementOfSeq
    <3>2. h[b][1] \notin {"calls", "result"} BY <2>2 DEF IsCall, IsResult
    <3> QED BY <2>4, <3>1, <3>2, MuteSingle
  <2> QED BY <2>1, <2>3, <2>4
<1> QED BY <1>1, <1>2

LEMMA TrimsMute ==
  ASSUME NEW h \in Seq(Items), Mute(h), NEW kept \in Trims(h)
  PROVE  kept \in Seq(Items) /\ Mute(kept)
<1>1. CASE kept = h BY <1>1
<1>2. CASE kept = <<>> BY <1>2, MuteEmpty
<1>3. CASE \E b \in Boundaries(h) : kept = SubSeq(h, b, Len(h))
  <2>1. PICK b \in Boundaries(h) : kept = SubSeq(h, b, Len(h)) BY <1>3
  <2>2. b \in 1..Len(h) BY BoundaryKind
  <2>3. b \in Nat \ {0} /\ Len(h) \in Int /\ Len(h) <= Len(h) /\ b <= Len(h) + 1
    BY <2>2, LenProperties
  <2> QED BY <2>1, <2>3, MuteSlice
<1> QED BY <1>1, <1>2, <1>3 DEF Trims

\* What the LLM is shown, the session, and what a compaction would find in it.
Heard ==
  ~hardAbort => /\ messages \in Seq(Items)
                /\ Talks(messages) /\ Talks(history) /\ Talks(TailOf(history, persisted))

LEMMA HeardInit == Init => Heard
BY DEF Init, Heard, Typed, Talks, TalksAt, InCall, InTools, Settled

LEMMA HeardNext ==
  ASSUME messages' \in Seq(Items), TalksNext(messages'), TalksNext(history'),
         TalksNext(TailOf(history', persisted'))
  PROVE  Heard'
BY DEF Heard, Talks, TalksNext, TailOf, TailMatch, Suffix

\* A conversation of an earlier turn, and the message that begins this one.
LEMMA MuteTalks ==
  ASSUME NEW s, Mute(s), pc' \notin InTools PROVE TalksNext(s)
BY MuteConv DEF TalksNext, TalksAt

LEMMA SetupHeard == ASSUME Places, Cuttable, SetupTurn PROVE Heard'
<1> DEFINE user == IF InitialSteering = 0 THEN << <<"user", 0, 0>> >> ELSE <<>>
<1>1. PICK compact \in {FALSE, MayOverflow} :
        LET h == IF compact THEN AfterCompact(history) ELSE history
        IN  /\ \E kept \in IF compact THEN Trims(Assembled(h)) ELSE {Assembled(h)} :
                 messages' = kept \o user
            /\ history' = h \o user
            /\ persisted' = user
  BY DEF SetupTurn
<1>2. history = Old /\ HeadedOrEmpty(Old) BY DEF SetupTurn, Places, Cuttable
<1>3. user \in Seq(Items) /\ Mute(user) BY UserMute
<1> HIDE DEF user
<1>4. /\ Old \in Seq(Items) /\ Mute(Old)
      /\ Compacted(Old) \in Seq(Items) /\ Mute(Compacted(Old))
  BY <1>2, OldMute, CompactedMute
<1>5. PICK h \in {Old, Compacted(Old)} :
        /\ \E kept \in Trims(Assembled(h)) \cup {Assembled(h)} : messages' = kept \o user
        /\ history' = h \o user
        /\ persisted' = user
  BY <1>1, <1>2 DEF AfterCompact
<1>6. h \in Seq(Items) /\ Mute(h) BY <1>4
<1>7. Assembled(h) \in Seq(Items) /\ Mute(Assembled(h)) BY <1>6, MuteEmpty DEF Assembled
<1>8. PICK kept \in Trims(Assembled(h)) \cup {Assembled(h)} : messages' = kept \o user
  BY <1>5
<1>9. kept \in Seq(Items) /\ Mute(kept) BY <1>7, TrimsMute
<1>10. messages' \in Seq(Items) /\ Mute(messages') BY <1>3, <1>8, <1>9, MuteConcat
<1>11. history' \in Seq(Items) /\ Mute(history') BY <1>3, <1>5, <1>6, MuteConcat
<1>12. Mute(TailOf(history', persisted')) BY <1>3, <1>5, <1>11, TailMute
<1>13. pc' \notin InTools BY DEF SetupTurn, Goto, End, InTools
<1> QED BY <1>10, <1>11, <1>12, <1>13, MuteTalks, HeardNext

LEMMA OverflowHeard ==
  ASSUME IInv, Places, Cuttable, Heard, ~hardAbort, CallOverflows PROVE Heard'
<1> DEFINE h == AfterCompact(history)
           s == Assembled(h)
<1>0. /\ iteration \in Nat /\ persisted \in Seq(Items) /\ pc = "call" /\ status # "completed"
      /\ UNCHANGED <<iteration, persisted>> /\ history' = h
  BY DEF IInv, Typed, Cuttable, Places, CallOverflows
<1>1. Sound(history, iteration) /\ HeadedOrEmpty(history) BY <1>0 DEF Cuttable, InCall
<1>2. Conv(history, iteration, 1, 0) /\ Conv(TailOf(history, persisted), iteration, 1, 0)
  BY <1>0 DEF Heard, Talks, TalksAt, InCall
<1>3. Sound(Compacted(history), iteration) BY <1>0, <1>1, CompactedSound
<1>4. /\ Conv(Compacted(history), iteration, 1, 0)
      /\ Conv(TailOf(Compacted(history), persisted), iteration, 1, 0)
  BY <1>0, <1>1, <1>2, CompactedConv
<1>5. /\ Sound(h, iteration) /\ Conv(h, iteration, 1, 0)
      /\ Conv(TailOf(h, persisted), iteration, 1, 0)
  BY <1>1, <1>2, <1>3, <1>4 DEF AfterCompact
<1> HIDE DEF h
<1>6. /\ Sound(<<>>, iteration) /\ Conv(<<>>, iteration, 1, 0)
      /\ Conv(TailOf(<<>>, persisted), iteration, 1, 0)
  <2>1. Mute(TailOf(<<>>, persisted)) BY <1>0, MuteEmpty, TailMute
  <2> QED BY <1>0, <2>1, MuteEmpty, EmptySound, MuteConv
<1>7. /\ Sound(s, iteration) /\ Conv(s, iteration, 1, 0)
      /\ Conv(TailOf(s, persisted), iteration, 1, 0)
  BY <1>5, <1>6 DEF Assembled
<1>8. \/ pc' = "call" /\ status' # "completed" /\ messages' \in Rebuilt(s)
      \/ pc' = "ended" /\ status' # "completed" /\ messages' = TailOf(s, persisted)
  BY <1>0 DEF CallOverflows, Goto, End, resultVars, h, TailOf
<1> HIDE DEF s
<1>9. s \in Seq(Items) BY <1>7 DEF Sound
<1>10. messages' \in Seq(Items) /\ (pc' = "call" => Conv(messages', iteration, 1, 0))
  <2>1. CASE messages' \in Rebuilt(s)
    <3>1. PICK kept \in Trims(Upto(s, Len(s) - TailMatch(s, persisted))) :
            messages' = kept \o TailOf(s, persisted)
      BY <2>1 DEF Rebuilt, TailOf
    <3>2. /\ kept \o TailOf(s, persisted) \in Seq(Items)
          /\ Conv(kept \o TailOf(s, persisted), iteration, 1, 0)
      BY <1>0, <1>7, RebuiltConv
    <3> QED BY <3>1, <3>2
  <2>2. CASE pc' = "ended" /\ messages' = TailOf(s, persisted) BY <1>0, <1>9, <2>2, TailType
  <2> QED BY <1>8, <2>1, <2>2
<1>11. ASSUME NEW u, pc' = "call" => Conv(u, iteration, 1, 0) PROVE TalksNext(u)
  BY <1>0, <1>8, <1>11 DEF TalksNext, TalksAt, InCall, InTools, Settled
<1>12. TalksNext(messages') BY <1>10, <1>11
<1>13. TalksNext(h) /\ TalksNext(TailOf(h, persisted)) BY <1>5, <1>11
<1> QED BY <1>0, <1>10, <1>12, <1>13, HeardNext

LEMMA HeardStep ==
  ASSUME SubResults = 0, IInv, Places, Hushed, Cuttable, Heard, [Next]_vars
  PROVE  Heard'
<1>1. hardAbort => hardAbort'
  <2> USE DEF abortVars
  <2>1. CASE LeavesSession BY <2>1 DEF LeavesSession
  <2>2. CASE \E t : OwnWords(t) BY <2>2 DEF OwnWords
  <2>3. CASE SetupTurn \/ BeginIteration \/ AbortTurn \/ CallOverflows \/ HardAbortRead
             \/ HardAbortCut
    BY <2>3 DEF SetupTurn, BeginIteration, AbortTurn, CallOverflows, HardAbortRead, HardAbortCut
  <2> QED BY <2>1, <2>2, <2>3, CutSteps
<1>2. CASE hardAbort BY <1>1, <1>2 DEF Heard
<1>3. CASE ~hardAbort
  <2>1. /\ messages \in Seq(Items) /\ history \in Seq(Items) /\ persisted \in Seq(Items)
        /\ Talks(messages) /\ Talks(history) /\ Talks(TailOf(history, persisted))
        /\ pc # "abort" /\ aborter = "idle"
    BY <1>3 DEF Heard, Cuttable, Sound
  <2>2. ~AbortTurn /\ ~HardAbortCut BY <2>1 DEF AbortTurn, HardAbortCut
  <2>3. CASE SetupTurn BY <2>3, SetupHeard
  <2>4. CASE CallOverflows BY <1>3, <2>4, OverflowHeard
  <2>5. CASE ~SetupTurn /\ ~CallOverflows
    <3>1. PICK t \in Seq(Items) : Hears(t) /\ Continued(t) BY <2>2, <2>5, TalksOn
    <3>2. messages' = messages \o t /\ history' = history \o t /\ persisted' = persisted \o t
      BY <2>1, <2>2, <3>1 DEF Hears
    <3>3. messages' \in Seq(Items) BY <2>1, <3>2, ConcatProperties
    <3>4. TailOf(history, persisted) \in Seq(Items) BY <2>1, TailType
    <3>5. TailOf(history', persisted') = TailOf(history, persisted) \o t
      BY <2>1, <3>2, TailGrows
    <3>6. /\ TalksNext(messages \o t) /\ TalksNext(history \o t)
          /\ TalksNext(TailOf(history, persisted) \o t)
      BY <2>1, <3>1, <3>4 DEF Continued
    <3> QED BY <3>2, <3>3, <3>5, <3>6, HeardNext
  <2> QED BY <2>3, <2>4, <2>5
<1> QED BY <1>2, <1>3

LEMMA AnsweredCompacted ==
  ASSUME SubResults = 0 PROVE Spec => []EveryCallIsAnswered
<1>1. IInv /\ Places /\ Hushed /\ Cuttable /\ Heard /\ [Next]_vars => Heard' BY HeardStep
<1>2. Spec => []Heard
  BY <1>1, HeardInit, InvariantHolds, PlacesHold, HushedHolds, CuttableHolds, PTL DEF Spec
<1>3. IInv /\ Heard => EveryCallIsAnswered BY TalksPaired DEF EveryCallIsAnswered, Heard
<1> QED BY <1>2, <1>3, InvariantHolds, PTL

\* Whatever mix of denied, skipped, hooked and executed tools, with however
\* many calls in a response, and whatever compactions: what the LLM is shown,
\* and what a completed turn leaves, answers every call once and nothing else.
\* Where the results of SubTurns are injected too, that is so as long as
\* nothing is compacted.
THEOREM EveryCallIsAnsweredHolds ==
  ASSUME ~MayOverflow \/ SubResults = 0 PROVE Spec => []EveryCallIsAnswered
BY AnsweredUncompacted, AnsweredCompacted
-----------------------------------------------------------------------------
(***************************************************************************)
(* Every variable keeps its type.  What a compaction leaves of a            *)
(* conversation is a conversation, wherever its boundaries are: the cut is  *)
(* inside it, for the middle boundary exists.  The other bounds rest on the *)
(* place: a retry is counted where there is one left, a tool is counted     *)
(* where one is under way.                                                  *)
(***************************************************************************)
Flags ==
  /\ status \in {"running", "completed", "aborted", "error"}
  /\ reply \in {"none", "answer", "default", "limit"}
  /\ allHandled \in BOOLEAN
  /\ terminal \in BOOLEAN
  /\ hardAbort \in BOOLEAN
  /\ aborter \in {"idle", "requested", "read", "done"}

Bounds ==
  /\ retry \in 0..MaxRetries
  /\ pc = "backoff" => retry < MaxRetries
  /\ calls \in 0..MaxCalls
  /\ next \in 1..MaxCalls + 1
  /\ arrived <= Steers
  /\ subs <= SubResults

Convs == {messages, history, persisted, restorePoint, snapshot} \subseteq Seq(Items)

LEMMA SliceTyped ==
  ASSUME NEW h \in Seq(Items), NEW b \in 1..Len(h)
  PROVE  SubSeq(h, b, Len(h)) \in Seq(Items) /\ h[b] \in Items
<1>1. Len(h) \in Nat BY LenProperties
<1>2. b \in Nat \ {0} /\ Len(h) \in Int /\ Len(h) <= Len(h) /\ b <= Len(h) + 1 BY <1>1
<1>3. SubSeq(h, b, Len(h)) \in Seq(Items) BY <1>2, Sliced
<1>4. h[b] \in Items BY ElementOfSeq
<1> QED BY <1>3, <1>4

\* forceCompression cuts inside the conversation.
LEMMA CompactedTyped ==
  ASSUME NEW h \in Seq(Items) PROVE Compacted(h) \in Seq(Items)
<1> DEFINE B == Boundaries(h)
           cut == IF Cardinality(B) >= 2 THEN MiddleOf(B) ELSE SafeCut(h, B)
<1>0. Len(h) \in Nat BY LenProperties
<1>1. CASE Len(h) <= 2 BY <1>1 DEF Compacted
<1>2. CASE ~(Len(h) <= 2)
  <2>1. Compacted(h) = IF cut > 1 THEN SubSeq(h, cut, Len(h)) ELSE <<h[LastOf(B)]>>
    BY <1>2 DEF Compacted
  <2>2. B \subseteq 0..Len(h) /\ B \subseteq 1..Len(h) BY <1>0 DEF Boundaries
  <2> HIDE DEF B
  <2>3. B # {} => LastOf(B) \in B
    <3> SUFFICES ASSUME B # {} PROVE LastOf(B) \in B OBVIOUS
    <3>1. \E b \in B : \A x \in B : x <= b BY <1>0, <2>2, Greatest
    <3> QED BY <3>1 DEF LastOf
  <2>4. IsFiniteSet(B)
    <3>1. IsFiniteSet(0..Len(h)) BY <1>0, FS_Interval
    <3> QED BY <2>2, <3>1, FS_Subset
  <2>5. Cardinality(B) \in Nat /\ (B = {} => Cardinality(B) = 0)
    BY <2>4, FS_CardinalityType, FS_EmptySet
  <2>6. cut \in B \/ (B = {} /\ cut = Len(h) \div 2 + 1)
    <3>1. CASE Cardinality(B) >= 2
      <4>1. Cardinality(B) \div 2 \in Nat /\ Cardinality(B) \div 2 < Cardinality(B) BY <2>5, <3>1
      <4>2. \E b \in B : Cardinality(Below(B, b)) = Cardinality(B) \div 2
        BY <1>0, <2>2, <4>1, Ranked
      <4>3. \E b \in B : Cardinality({x \in B : x < b}) = Cardinality(B) \div 2 BY <4>2 DEF Below
      <4>4. MiddleOf(B) \in B BY <4>3 DEF MiddleOf
      <4> QED BY <3>1, <4>4
    <3>2. CASE ~(Cardinality(B) >= 2)
      <4>1. cut = SafeCut(h, B) BY <3>2
      <4> QED BY <2>3, <4>1 DEF SafeCut
    <3> QED BY <3>1, <3>2
  <2> HIDE DEF cut
  <2>7. CASE cut > 1
    <3>1. Len(h) \div 2 + 1 \in 1..Len(h) BY <1>0, <1>2
    <3>2. cut \in 1..Len(h) BY <2>2, <2>6, <3>1
    <3> QED BY <2>1, <2>7, <3>2, SliceTyped
  <2>8. CASE ~(cut > 1)
    <3>1. Len(h) \div 2 + 1 > 1 BY <1>0, <1>2
    <3>2. LastOf(B) \in 1..Len(h) BY <2>2, <2>3, <2>6, <2>8, <3>1
    <3>3. h[LastOf(B)] \in Items BY <3>2, SliceTyped
    <3>4. <<h[LastOf(B)]>> \in Seq(Items) BY <3>3, Single
    <3> QED BY <2>1, <2>8, <3>4
  <2> QED BY <2>7, <2>8
<1> QED BY <1>1, <1>2

LEMMA TrimsTyped ==
  ASSUME NEW h \in Seq(Items), NEW kept \in Trims(h) PROVE kept \in Seq(Items)
<1>1. CASE kept = h \/ kept = <<>> BY <1>1, EmptySeq
<1>2. CASE \E b \in Boundaries(h) : kept = SubSeq(h, b, Len(h))
  <2>1. PICK b \in Boundaries(h) : kept = SubSeq(h, b, Len(h)) BY <1>2
  <2>2. b \in 1..Len(h) BY DEF Boundaries
  <2> QED BY <2>1, <2>2, SliceTyped
<1> QED BY <1>1, <1>2 DEF Trims

\* The end of the session that is this turn's, and what comes before it.
LEMMA PartsTyped ==
  ASSUME NEW h \in Seq(Items), NEW p \in Seq(Items)
  PROVE  /\ Suffix(h, TailMatch(h, p)) \in Seq(Items)
         /\ Upto(h, Len(h) - TailMatch(h, p)) \in Seq(Items)
<1>1. Len(h) \in Nat BY LenProperties
<1>2. PICK n : n = TailMatch(h, p) OBVIOUS
<1>3. n \in Nat /\ n <= Len(h) BY <1>2, TailMatchIs DEF Matching
<1>4. Suffix(h, n) \in Seq(Items) BY <1>3, SuffixIs
<1>5. Len(h) - n \in Int /\ Len(h) - n <= Len(h) /\ 1 <= Len(h) - n + 1 BY <1>1, <1>3
<1>6. SubSeq(h, 1, Len(h) - n) \in Seq(Items)
  <2>1. 1 \in Nat \ {0} OBVIOUS
  <2> QED BY <1>5, <2>1, Sliced
<1> QED BY <1>2, <1>4, <1>6 DEF Upto

LEMMA UptoTyped ==
  ASSUME NEW h \in Seq(Items), NEW n \in Nat, n <= Len(h) PROVE Upto(h, n) \in Seq(Items)
<1>1. 1 \in Nat \ {0} /\ n \in Int /\ 1 <= n + 1 OBVIOUS
<1>2. SubSeq(h, 1, n) \in Seq(Items) BY <1>1, Sliced
<1> QED BY <1>2 DEF Upto

LEMMA AssembledTyped ==
  ASSUME NEW h \in Seq(Items)
  PROVE  Assembled(h) \in Seq(Items) /\ AfterCompact(h) \in Seq(Items)
BY CompactedTyped, EmptySeq DEF Assembled, AfterCompact

LEMMA SayTyped ==
  ASSUME Convs, NEW s \in Seq(Items), Say(s)
  PROVE  {messages', history', persisted'} \subseteq Seq(Items)
<1>1. messages \o s \in Seq(Items) /\ history \o s \in Seq(Items) /\ persisted \o s \in Seq(Items)
  BY ConcatProperties DEF Convs
<1> QED BY <1>1 DEF Say

LEMMA SetupTyped == ASSUME Convs, SetupTurn PROVE Convs'
<1> DEFINE user == IF InitialSteering = 0 THEN << <<"user", 0, 0>> >> ELSE <<>>
<1>1. user \in Seq(Items)
  <2>1. <<"user", 0, 0>> \in Items BY DEF Items, Kinds
  <2> QED BY <2>1, Single, EmptySeq
<1>2. PICK compact \in {FALSE, MayOverflow} :
        LET h == IF compact THEN AfterCompact(history) ELSE history
        IN  /\ restorePoint' = IF compact THEN h ELSE Assembled(h)
            /\ \E kept \in IF compact THEN Trims(Assembled(h)) ELSE {Assembled(h)} :
                 messages' = kept \o user
            /\ history' = h \o user
            /\ persisted' = user
  BY DEF SetupTurn
<1>3. PICK h : h = IF compact THEN AfterCompact(history) ELSE history OBVIOUS
<1>4. h \in Seq(Items) BY <1>3, AssembledTyped DEF Convs
<1>5. Assembled(h) \in Seq(Items) BY <1>4, AssembledTyped
<1>6. PICK kept \in IF compact THEN Trims(Assembled(h)) ELSE {Assembled(h)} :
        messages' = kept \o user
  BY <1>2, <1>3
<1>7. kept \in Seq(Items) BY <1>5, <1>6, TrimsTyped
<1>8. restorePoint' \in Seq(Items) BY <1>2, <1>3, <1>4, <1>5
<1>9. history' = h \o user /\ persisted' = user BY <1>2, <1>3
<1> HIDE DEF user
<1>10. messages' \in Seq(Items) /\ history' \in Seq(Items) /\ persisted' \in Seq(Items)
  BY <1>1, <1>4, <1>6, <1>7, <1>9, ConcatProperties
<1>11. snapshot' \in Seq(Items) BY DEF SetupTurn, abortVars, Convs
<1> QED BY <1>8, <1>10, <1>11 DEF Convs

LEMMA OverflowTyped == ASSUME Convs, CallOverflows PROVE Convs'
<1>1. PICK h : h = AfterCompact(history) OBVIOUS
<1>2. /\ history' = h /\ restorePoint' = Upto(h, Len(h) - TailMatch(h, persisted))
      /\ \/ messages' \in Rebuilt(Assembled(h))
         \/ messages' = Suffix(Assembled(h), TailMatch(Assembled(h), persisted))
      /\ UNCHANGED <<persisted, snapshot>>
  BY <1>1 DEF CallOverflows, abortVars
<1>3. persisted \in Seq(Items) /\ snapshot \in Seq(Items) BY DEF Convs
<1>4. h \in Seq(Items) BY <1>1, AssembledTyped DEF Convs
<1>5. PICK a : a = Assembled(h) OBVIOUS
<1>6. a \in Seq(Items) BY <1>4, <1>5, AssembledTyped
<1>7. restorePoint' \in Seq(Items) BY <1>2, <1>3, <1>4, PartsTyped
<1>8. PICK tail : tail = Suffix(a, TailMatch(a, persisted)) OBVIOUS
<1>9. PICK front : front = Upto(a, Len(a) - TailMatch(a, persisted)) OBVIOUS
<1>10. tail \in Seq(Items) /\ front \in Seq(Items) BY <1>3, <1>6, <1>8, <1>9, PartsTyped
<1>11. CASE messages' \in Rebuilt(a)
  <2>1. PICK kept \in Trims(front) : messages' = kept \o tail
    BY <1>8, <1>9, <1>11 DEF Rebuilt
  <2>2. kept \in Seq(Items) BY <1>10, TrimsTyped
  <2> QED BY <1>2, <1>3, <1>4, <1>7, <1>10, <2>1, <2>2, ConcatProperties DEF Convs
<1>12. CASE messages' = tail
  BY <1>2, <1>3, <1>4, <1>7, <1>10, <1>12 DEF Convs
<1> QED BY <1>2, <1>5, <1>8, <1>11, <1>12

\* The steps in which the turn speaks.
LEMMA SpeaksTyped ==
  ASSUME IInv, Places, Convs,
         \/ BeginIteration \/ Finalize \/ FinalizeFails \/ ToolCalls \/ ToolDenied \/ ToolsHandled
         \/ \E handled \in BOOLEAN : GetsResult(handled)
  PROVE  Convs'
<1>0. Typed BY DEF IInv
<1>1. UNCHANGED <<restorePoint, snapshot>>
  BY DEF BeginIteration, Finalize, FinalizeFails, ToolCalls, ToolDenied, ToolsHandled, GetsResult,
         ToolResult, abortVars
<1>2. restorePoint' \in Seq(Items) /\ snapshot' \in Seq(Items) BY <1>1 DEF Convs
<1>3. ASSUME NEW s \in Seq(Items), Say(s) PROVE Convs'
  BY <1>2, <1>3, SayTyped DEF Convs
<1>4. CASE BeginIteration
  <2>1. PICK sub \in SubResult : Say(pend \o Injects \o sub) BY <1>4, Begins
  <2>2. pend \o Injects \o sub \in Seq(Items) BY <1>4, Begins
  <2> QED BY <1>3, <2>1, <2>2
<1>5. CASE Finalize \/ FinalizeFails \/ ToolsHandled
  <2>1. <<Reply>> \in Seq(Items) BY <1>0, ItemTypes, Single
  <2> QED BY <1>3, <1>5, <2>1 DEF Finalize, FinalizeFails, ToolsHandled
<1>6. CASE ToolCalls
  <2>1. PICK n \in 1..MaxCalls : Say(<< <<"calls", iteration, n>> >>) BY <1>6 DEF ToolCalls
  <2>2. <<"calls", iteration, n>> \in Items BY <1>0, TurnLoopAssumption, ItemTypes
  <2>3. << <<"calls", iteration, n>> >> \in Seq(Items) BY <2>2, Single
  <2> QED BY <1>3, <2>1, <2>3
<1>7. Result(next) \in Items BY <1>0, ItemTypes DEF Typed
<1>8. <<Result(next)>> \in Seq(Items) BY <1>7, Single
<1>9. CASE ToolDenied BY <1>3, <1>8, <1>9 DEF ToolDenied
<1>10. CASE \E handled \in BOOLEAN : GetsResult(handled)
  <2>1. PICK handled \in BOOLEAN : GetsResult(handled) BY <1>10
  <2>2. CASE SkipsRest
    <3>1. Say(<<Result(next)>> \o Skipped) BY <2>1, <2>2 DEF GetsResult, ToolResult
    <3>2. Skipped \in Seq(Items) BY <1>0, <2>1, SkippedType DEF GetsResult
    <3>3. <<Result(next)>> \o Skipped \in Seq(Items) BY <1>8, <3>2, ConcatProperties
    <3> QED BY <1>3, <3>1, <3>3
  <2>3. CASE ~SkipsRest
    <3>1. PICK sub \in SubResult : /\ messages' = messages \o <<Result(next)>> \o sub
                                   /\ history' = history \o <<Result(next)>> \o sub
      BY <2>1, <2>3 DEF GetsResult, ToolResult
    <3>2. sub \in Seq(Items) BY <1>0, SubPlain DEF Places
    <3>3. messages \o <<Result(next)>> \in Seq(Items) /\ history \o <<Result(next)>> \in Seq(Items)
      BY <1>8, ConcatProperties DEF Convs
    <3>4. messages' \in Seq(Items) /\ history' \in Seq(Items)
      BY <3>1, <3>2, <3>3, ConcatProperties
    <3>5. persisted' = Append(persisted, Result(next))
      BY <2>1, <2>3 DEF GetsResult, ToolResult
    <3>6. persisted' \in Seq(Items) BY <1>7, <3>5, AppendProperties DEF Convs
    <3> QED BY <1>2, <3>4, <3>6 DEF Convs
  <2> QED BY <2>2, <2>3
<1> QED BY <1>4, <1>5, <1>6, <1>9, <1>10

LEMMA ConvsStep == ASSUME IInv, Places, Convs, [Next]_vars PROVE Convs'
<1>1. CASE Idles BY <1>1 DEF Idles, Convs
<1>2. CASE SetupTurn BY <1>2, SetupTyped
<1>3. CASE CallOverflows BY <1>3, OverflowTyped
<1>4. CASE \/ BeginIteration \/ Finalize \/ FinalizeFails \/ ToolCalls \/ ToolDenied \/ ToolsHandled
           \/ \E handled \in BOOLEAN : GetsResult(handled)
  BY <1>4, SpeaksTyped
<1>5. CASE (Answered /\ queue # <<>>) \/ ToolsContinue \/ SteerArrives
  BY <1>5 DEF Answered, ToolsContinue, SteerArrives, abortVars, convVars, Convs
<1>6. CASE AbortTurn BY <1>6 DEF AbortTurn, abortVars, Convs
<1>7. CASE HardAbortRead BY <1>7 DEF HardAbortRead, convVars, Convs
<1>8. CASE HardAbortCut
  <2>1. /\ history' = IF Len(Old) < Len(snapshot) THEN Upto(snapshot, Len(Old)) ELSE history
        /\ UNCHANGED <<messages, persisted, restorePoint, snapshot>>
    BY <1>8 DEF HardAbortCut
  <2>2. Len(Old) < Len(snapshot) => Upto(snapshot, Len(Old)) \in Seq(Items)
    <3>1. Len(Old) \in Nat /\ Len(snapshot) \in Nat BY OldType, LenProperties DEF Convs
    <3>2. Len(Old) < Len(snapshot) => Len(Old) <= Len(snapshot) BY <3>1
    <3> QED BY <3>1, <3>2, UptoTyped DEF Convs
  <2> QED BY <2>1, <2>2 DEF Convs
<1> QED BY <1>1, <1>2, <1>3, <1>4, <1>5, <1>6, <1>7, <1>8, Steps

LEMMA FlagsStep == ASSUME Flags, [Next]_vars PROVE Flags'
<1> USE DEF Flags, Goto, End, controlVars, graceVars, abortVars, resultVars
<1>1. CASE Coordinator
  <2>1. CASE SeesHardAbort BY <2>1 DEF SeesHardAbort
  <2>2. CASE AbortTurn BY <2>2 DEF AbortTurn
  <2>3. CASE SetupTurn BY <2>3 DEF SetupTurn
  <2>4. CASE BeginIteration BY <2>4 DEF BeginIteration
  <2>5. CASE ExhaustIterations BY <2>5 DEF ExhaustIterations
  <2>6. CASE Finalize \/ FinalizeFails BY <2>6 DEF Finalize, FinalizeFails
  <2>7. CASE FinalizeHandled BY <2>7 DEF FinalizeHandled
  <2> QED BY <1>1, <2>1, <2>2, <2>3, <2>4, <2>5, <2>6, <2>7 DEF Coordinator
<1>2. CASE Llm
  <2> USE DEF HookIntervenes
  <2>1. CASE PrepareCall BY <2>1 DEF PrepareCall, GracefulPending
  <2>2. CASE CallAnswered BY <2>2 DEF CallAnswered
  <2>3. CASE CallCanceled BY <2>3 DEF CallCanceled
  <2>4. CASE CallFails BY <2>4 DEF CallFails
  <2>5. CASE CallTransient BY <2>5 DEF CallTransient
  <2>6. CASE Backoff BY <2>6 DEF Backoff
  <2>7. CASE BackoffAborted BY <2>7 DEF BackoffAborted
  <2>8. CASE BackoffCanceled BY <2>8 DEF BackoffCanceled
  <2>9. CASE CallOverflows BY <2>9 DEF CallOverflows
  <2>10. CASE Answered BY <2>10 DEF Answered
  <2>11. CASE ToolCalls BY <2>11 DEF ToolCalls
  <2> QED BY <1>2, <2>1, <2>2, <2>3, <2>4, <2>5, <2>6, <2>7, <2>8, <2>9, <2>10, <2>11 DEF Llm
<1>3. CASE Tools
  <2> USE DEF HookIntervenes
  <2>1. CASE ToolDenied BY <2>1 DEF ToolDenied
  <2>2. CASE ToolHookAborts BY <2>2 DEF ToolHookAborts
  <2>3. CASE ToolStarts BY <2>3 DEF ToolStarts
  <2>4. CASE ToolRespondedByHook \/ ToolReturns
    <3>1. PICK handled \in BOOLEAN : ToolResult(handled)
      BY <2>4 DEF ToolRespondedByHook, ToolReturns
    <3>2. allHandled' = (allHandled /\ handled)
          /\ UNCHANGED <<status, reply, terminal, hardAbort, aborter>>
      BY <3>1 DEF ToolResult
    <3> QED BY <3>2
  <2>5. CASE ToolReturnsToHook BY <2>5 DEF ToolReturnsToHook
  <2>6. CASE ToolsContinue BY <2>6 DEF ToolsContinue
  <2>7. CASE ToolsHandled BY <2>7 DEF ToolsHandled
  <2> QED BY <1>3, <2>1, <2>2, <2>3, <2>4, <2>5, <2>6, <2>7 DEF Tools
<1>4. CASE SteerArrives \/ Interrupt \/ UNCHANGED vars BY <1>4 DEF SteerArrives, Interrupt, vars
<1>5. CASE HardAbortSteps
  BY <1>5 DEF HardAbortSteps, HardAbortRequest, HardAbortRead, HardAbortCut
<1> QED BY <1>1, <1>2, <1>3, <1>4, <1>5 DEF Next

\* A step that moves the turn on and counts nothing.
LEMMA BoundsQuiet ==
  ASSUME Bounds, UNCHANGED <<retry, calls, next, arrived, subs>>, pc' # "backoff" \/ pc = "backoff"
  PROVE  Bounds'
BY DEF Bounds

LEMMA SubBounds ==
  ASSUME subs \in Nat, subs <= SubResults, NEW sub \in SubResult
  PROVE  subs + Len(sub) <= SubResults
<1>1. SubResults \in Nat BY TurnLoopAssumption
<1>2. CASE sub = <<>> BY <1>2, EmptySeq
<1>3. CASE subs < SubResults /\ sub = << <<"sub", subs + 1, 0>> >>
  <2>1. Len(sub) = 1 BY <1>3
  <2> QED BY <1>1, <1>3, <2>1
<1> QED BY <1>2, <1>3 DEF SubResult

LEMMA ResultBounds ==
  ASSUME IInv, Places, Bounds, NEW handled \in BOOLEAN, ToolResult(handled), next <= calls
  PROVE  Bounds'
<1>1. /\ pc' = "tools" /\ UNCHANGED <<retry, calls, arrived>>
      /\ next' \in {calls + 1, next + 1}
      /\ subs' = subs \/ \E sub \in SubResult : subs' = subs + Len(sub)
  BY DEF ToolResult, Goto
<1>2. subs' <= SubResults BY <1>1, SubBounds DEF Places, Bounds
<1>3. next' \in 1..MaxCalls + 1
  <2>1. /\ next \in Nat /\ calls \in Nat /\ MaxCalls \in Nat /\ 1 <= next /\ next <= calls
        /\ calls <= MaxCalls
    BY TurnLoopAssumption DEF Bounds
  <2> QED BY <1>1, <2>1
<1> QED BY <1>1, <1>2, <1>3 DEF Bounds

LEMMA BoundsStep == ASSUME IInv, Places, Bounds, [Next]_vars PROVE Bounds'
<1> USE DEF Goto, End, controlVars, inputVars, resultVars
<1>0. /\ MaxRetries \in Nat /\ MaxCalls \in Nat \ {0} /\ Steers \in Nat /\ arrived \in Nat
      /\ retry \in Nat /\ next \in Nat /\ calls \in Nat
  BY TurnLoopAssumption DEF IInv, Typed, Bounds
<1>1. CASE Coordinator
  <2>1. CASE BeginIteration
    <3>1. UNCHANGED <<retry, calls, next, arrived>> /\ pc' = "llm"
      BY <2>1 DEF BeginIteration
    <3>2. PICK sub \in SubResult : subs' = subs + Len(sub) BY <2>1 DEF BeginIteration
    <3>3. subs' <= SubResults BY <3>2, SubBounds DEF Places, Bounds
    <3> QED BY <3>1, <3>3 DEF Bounds
  <2>2. CASE \/ SeesHardAbort \/ AbortTurn \/ SetupTurn \/ ExhaustIterations \/ Finalize
             \/ FinalizeFails \/ FinalizeHandled
    <3>1. UNCHANGED <<retry, calls, next, arrived, subs>> /\ pc' # "backoff"
      BY <2>2 DEF SeesHardAbort, AbortTurn, SetupTurn, ExhaustIterations, Finalize, FinalizeFails,
                  FinalizeHandled
    <3> QED BY <3>1, BoundsQuiet
  <2> QED BY <1>1, <2>1, <2>2 DEF Coordinator
<1>2. CASE Llm
  <2> USE DEF HookIntervenes
  <2>1. CASE PrepareCall
    <3>1. retry' = 0 /\ UNCHANGED <<calls, next, arrived, subs>> /\ pc' # "backoff"
      BY <2>1 DEF PrepareCall
    <3> QED BY <1>0, <3>1 DEF Bounds
  <2>2. CASE CallAnswered \/ CallCanceled \/ CallFails \/ BackoffAborted \/ BackoffCanceled \/ Answered
    <3>1. UNCHANGED <<retry, calls, next, arrived, subs>> /\ pc' # "backoff"
      BY <2>2 DEF CallAnswered, CallCanceled, CallFails, BackoffAborted, BackoffCanceled, Answered
    <3> QED BY <3>1, BoundsQuiet
  <2>3. CASE CallTransient BY <2>3 DEF CallTransient, Bounds
  <2>4. CASE Backoff \/ CallOverflows
    <3>1. /\ retry' = retry + 1 /\ retry < MaxRetries /\ pc' # "backoff"
          /\ UNCHANGED <<calls, next, arrived, subs>>
      BY <2>4 DEF Backoff, CallOverflows, Bounds
    <3>2. retry' \in 0..MaxRetries BY <1>0, <3>1
    <3> QED BY <3>1, <3>2 DEF Bounds
  <2>5. CASE ToolCalls
    <3>1. /\ \E n \in 1..MaxCalls : calls' = n
          /\ next' = 1 /\ pc' = "tools" /\ UNCHANGED <<retry, arrived, subs>>
      BY <2>5 DEF ToolCalls
    <3>2. calls' \in 0..MaxCalls /\ next' \in 1..MaxCalls + 1 BY <1>0, <3>1
    <3> QED BY <3>1, <3>2 DEF Bounds
  <2> QED BY <1>2, <2>1, <2>2, <2>3, <2>4, <2>5 DEF Llm
<1>3. CASE Tools
  <2> USE DEF HookIntervenes, AtTool
  <2>1. CASE ToolDenied
    <3>1. /\ next <= calls /\ next' = next + 1 /\ pc = "tools"
          /\ UNCHANGED <<pc, retry, calls, arrived, subs>>
      BY <2>1 DEF ToolDenied
    <3>2. next' \in 1..MaxCalls + 1
      <4>1. calls <= MaxCalls BY DEF Bounds
      <4> QED BY <1>0, <3>1, <4>1
    <3> QED BY <3>1, <3>2 DEF Bounds
  <2>2. CASE ToolHookAborts \/ ToolStarts \/ ToolReturnsToHook \/ ToolsContinue \/ ToolsHandled
    <3>1. UNCHANGED <<retry, calls, next, arrived, subs>> /\ pc' # "backoff"
      BY <2>2 DEF ToolHookAborts, ToolStarts, ToolReturnsToHook, ToolsContinue, ToolsHandled
    <3> QED BY <3>1, BoundsQuiet
  <2>3. CASE ToolRespondedByHook
    <3>1. PICK handled \in BOOLEAN : ToolResult(handled) BY <2>3 DEF ToolRespondedByHook
    <3>2. next <= calls BY <2>3 DEF ToolRespondedByHook
    <3> QED BY <3>1, <3>2, ResultBounds
  <2>4. CASE ToolReturns
    <3>1. PICK handled \in BOOLEAN : ToolResult(handled) BY <2>4 DEF ToolReturns
    <3>2. next <= calls BY <2>4 DEF ToolReturns, Places
    <3> QED BY <3>1, <3>2, ResultBounds
  <2> QED BY <1>3, <2>1, <2>2, <2>3, <2>4 DEF Tools
<1>4. CASE SteerArrives
  <2>1. arrived < Steers /\ arrived' = arrived + 1 /\ UNCHANGED <<pc, retry, calls, next, subs>>
    BY <1>4 DEF SteerArrives
  <2>2. arrived' <= Steers BY <1>0, <2>1
  <2> QED BY <2>1, <2>2 DEF Bounds
<1>5. CASE Interrupt \/ HardAbortSteps \/ UNCHANGED vars
  <2>1. UNCHANGED <<pc, retry, calls, next, arrived, subs>>
    BY <1>5 DEF Interrupt, HardAbortSteps, HardAbortRequest, HardAbortRead, HardAbortCut, vars
  <2> QED BY <2>1, BoundsQuiet
<1> QED BY <1>1, <1>2, <1>3, <1>4, <1>5 DEF Next

\* Every variable of a turn keeps its type, through every compaction, retry,
\* hook and abort: the counters stay within the limits the configuration and
\* the response set, and each conversation is a sequence of messages.
THEOREM TurnLoopTypes == Spec => []TypeOK
<1>1. Init => Flags /\ Bounds /\ Convs
  <2> SUFFICES ASSUME Init PROVE Flags /\ Bounds /\ Convs OBVIOUS
  <2>1. Flags BY DEF Init, Flags
  <2>2. Bounds BY TurnLoopAssumption DEF Init, Bounds
  <2>3. Convs BY OldType, EmptySeq DEF Init, Convs
  <2> QED BY <2>1, <2>2, <2>3
<1>2. Flags /\ Bounds /\ Convs /\ IInv /\ Places /\ [Next]_vars => Flags' /\ Bounds' /\ Convs'
  BY FlagsStep, BoundsStep, ConvsStep
<1>3. Spec => [](Flags /\ Bounds /\ Convs)
  BY <1>1, <1>2, InvariantHolds, PlacesHold, PTL DEF Spec
<1>4. IInv /\ Places /\ Flags /\ Bounds /\ Convs => TypeOK
  <2> SUFFICES ASSUME IInv, Places, Flags, Bounds, Convs PROVE TypeOK OBVIOUS
  <2>1. pend \in Seq(Items) BY EmptySeq DEF Places, IInv, Typed
  <2>2. {pend, execPend, messages, history, persisted, restorePoint, queue, snapshot}
          \subseteq Seq(Items)
    BY <2>1 DEF IInv, Typed, Convs
  <2>3. arrived \in 0..Steers /\ subs \in 0..SubResults
    BY TurnLoopAssumption DEF IInv, Typed, Places, Bounds
  <2>4. /\ pc \in Pcs /\ iteration \in Nat /\ lateTools \in Nat
        /\ graceful \in {"no", "requested", "used"}
    BY DEF IInv, Typed
  <2> QED BY <2>2, <2>3, <2>4 DEF TypeOK, Flags, Bounds
<1> QED BY <1>3, <1>4, InvariantHolds, PlacesHold, PTL
=============================================================================
