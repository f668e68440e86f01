------------------------------ MODULE TurnLoop ------------------------------
(***************************************************************************)
(* One turn of the agent (pkg/agent): the coordinator runTurn and the      *)
(* pipeline it drives, SetupTurn, CallLLM with its retries, ExecuteTools   *)
(* and Finalize, next to what other goroutines do to the turn meanwhile:   *)
(* steering messages arrive, SubTurns deliver results, a graceful          *)
(* interrupt or a HardAbort is requested.                                  *)
(*                                                                         *)
(* A message is a triple <<kind, a, b>>; what it says is left out.         *)
(*   <<"user"|"reply", i, 0>>  the conversation before this turn           *)
(*   <<"user", 0, 0>>          the message that started the turn           *)
(*   <<"steer", n, 0>>         the n-th steering message                   *)
(*   <<"sub", n, 0>>           the n-th result of a SubTurn (role "user")  *)
(*   <<"calls", i, n>>         the assistant's n tool calls of iteration i *)
(*   <<"result", i, k>>        the answer to the k-th of them              *)
(*   <<"reply", -i, 0>>        the final message, or the summary that      *)
(*                             stands for replies delivered by tools       *)
(* The session keeps history (opts.NoHistory is false).                    *)
(***************************************************************************)
EXTENDS Integers, Sequences, FiniteSets

CONSTANTS
  OldTurns,         \* turns in the history before this one
  InitialSteering,  \* steering messages a Continue has dequeued for the turn
  Steers,           \* bound on steering messages, those included
  SubResults,       \* bound on SubTurn results
  MaxIterations,    \* agent.MaxIterations
  MaxCalls,         \* bound on the tool calls of one LLM response
  MaxRetries,       \* MaxLLMRetries
  DefaultAgent,     \* the turn belongs to the default agent of the registry
  MayAbort,         \* whether HardAbort may be called
  MayInterrupt,     \* whether InterruptGraceful may be called
  MayHook,          \* whether hooks interfere
  MayOverflow,      \* whether the context window may be exceeded
  SteeringAll       \* SteeringMode: TRUE is "all", FALSE "one-at-a-time"

ASSUME TurnLoopAssumption ==
  /\ {OldTurns, InitialSteering, Steers, SubResults, MaxRetries} \subseteq Nat
  /\ {MaxIterations, MaxCalls} \subseteq Nat \ {0}
  /\ InitialSteering <= Steers
  /\ {DefaultAgent, MayAbort, MayInterrupt, MayHook, MayOverflow, SteeringAll} \subseteq BOOLEAN

VARIABLES
  pc,            \* where runTurn is
  status,        \* TurnEndStatus, "running" before
  reply,         \* what runTurn returns as final content
  iteration,     \* ts.iteration
  retry,         \* retries of the current LLM call
  calls, next,   \* number of tool calls under way, the next to be run
  allHandled,    \* exec.allResponsesHandled
  pend,          \* pendingMessages, the local variable of runTurn
  execPend,      \* exec.pendingMessages
  messages,      \* exec.messages, the conversation the LLM sees
  history,       \* the history of the session in the agent's store
  persisted,     \* ts.persistedMessages
  restorePoint,  \* ts.restorePointHistory
  queue,         \* steering messages of the session not yet dequeued
  arrived,       \* steering messages so far
  subs,          \* SubTurn results so far
  graceful,      \* "no", "requested", "used"
  terminal,      \* exec.gracefulTerminal of the current call
  lateTools,     \* history: tools started while an interrupt was pending
  hardAbort,     \* ts.hardAbort
  aborter,       \* where HardAbort is: "idle", "requested", "read", "done"
  snapshot       \* the history HardAbort has read

vars == <<pc, status, reply, iteration, retry, calls, next, allHandled, pend, execPend,
          messages, history, persisted, restorePoint, queue, arrived, subs, graceful,
          terminal, lateTools, hardAbort, aborter, snapshot>>

controlVars == <<iteration, retry, calls, next, allHandled>>
convVars == <<messages, history, persisted>>
inputVars == <<queue, arrived, subs>>
graceVars == <<graceful, terminal, lateTools>>
abortVars == <<hardAbort, aborter, snapshot>>
resultVars == <<status, reply>>

Steer(n) == <<"steer", n, 0>>
Result(k) == <<"result", iteration, k>>
Reply == <<"reply", 0 - iteration, 0>>

\* The conversation before the turn: OldTurns questions and answers.
Old == [i \in 1..2 * OldTurns |-> <<IF i % 2 = 1 THEN "user" ELSE "reply", i, 0>>]

Kinds == {"user", "reply", "steer", "sub", "calls", "result"}
Items == Kinds \X Int \X Nat

Pcs == {"new", "head", "llm", "call", "backoff", "response", "tools", "running",
        "finalize", "handled", "abort", "ended"}

TypeOK ==
  /\ pc \in Pcs
  /\ status \in {"running", "completed", "aborted", "error"}
  /\ reply \in {"none", "answer", "default", "limit"}
  /\ iteration \in Nat
  /\ retry \in 0..MaxRetries
  /\ calls \in 0..MaxCalls
  /\ next \in 1..MaxCalls + 1
  /\ allHandled \in BOOLEAN
  /\ {pend, execPend, messages, history, persisted, restorePoint, queue, snapshot}
       \subseteq Seq(Items)
  /\ arrived \in 0..Steers
  /\ subs \in 0..SubResults
  /\ graceful \in {"no", "requested", "used"}
  /\ terminal \in BOOLEAN
  /\ lateTools \in Nat
  /\ hardAbort \in BOOLEAN
  /\ aborter \in {"idle", "requested", "read", "done"}

Initial == [n \in 1..InitialSteering |-> Steer(n)]

Init ==
  /\ pc = "new"
  /\ status = "running"
  /\ reply = "none"
  /\ iteration = 0
  /\ retry = 0
  /\ calls = 0
  /\ next = 1
  /\ allHandled = FALSE
  /\ pend = Initial
  /\ execPend = Initial
  /\ messages = <<>>
  /\ history = Old
  /\ persisted = <<>>
  /\ restorePoint = Old
  /\ queue = <<>>
  /\ arrived = InitialSteering
  /\ subs = 0
  /\ graceful = "no"
  /\ terminal = FALSE
  /\ lateTools = 0
  /\ hardAbort = FALSE
  /\ aborter = "idle"
  /\ snapshot = <<>>

-----------------------------------------------------------------------------
(***************************************************************************)
(* Sequences of messages.                                                  *)
(***************************************************************************)

\* dequeueLocked takes the head, or everything in mode "all".
Taken == IF SteeringAll THEN queue ELSE SubSeq(queue, 1, IF queue = <<>> THEN 0 ELSE 1)
Untaken == IF SteeringAll \/ queue = <<>> THEN <<>> ELSE Tail(queue)

Suffix(s, n) == SubSeq(s, Len(s) - n + 1, Len(s))
Upto(s, n) == SubSeq(s, 1, n)

\* Added to the conversation, to the session and to persistedMessages.
Say(s) ==
  /\ messages' = messages \o s
  /\ history' = history \o s
  /\ persisted' = persisted \o s

\* matchingTurnMessageTail: how much of the end of h is the end of p.
TailMatch(h, p) ==
  LET Matches(n) == n <= Len(h) /\ n <= Len(p) /\ Suffix(h, n) = Suffix(p, n)
  IN CHOOSE n \in 0..Len(p) : Matches(n) /\ \A m \in 0..Len(p) : Matches(m) => m <= n

\* parseTurnBoundaries: every message of role "user" starts a turn.
Boundaries(h) == {i \in 1..Len(h) : h[i][1] \in {"user", "steer", "sub"}}

\* turns[len(turns)/2], counted from zero.
MiddleOf(B) ==
  CHOOSE b \in B : Cardinality({x \in B : x < b}) = Cardinality(B) \div 2

\* The trimming after a compaction keeps everything, nothing, or what follows
\* the start of a turn.
Trims(h) == {h, <<>>} \cup {SubSeq(h, b, Len(h)) : b \in Boundaries(h)}

LastOf(B) == CHOOSE b \in B : \A x \in B : x <= b

\* findSafeBoundary with at most one boundary.
SafeCut(h, B) == IF B = {} THEN Len(h) \div 2 + 1 ELSE LastOf(B)

\* forceCompression; and as it was before it looked for boundaries.
CompactedInTheMiddle(h) == IF Len(h) <= 2 THEN h ELSE SubSeq(h, Len(h) \div 2 + 1, Len(h))
Compacted(h) ==
  LET B == Boundaries(h)
      cut == IF Cardinality(B) >= 2 THEN MiddleOf(B) ELSE SafeCut(h, B)
  IN IF Len(h) <= 2 THEN h
     ELSE IF cut > 1 THEN SubSeq(h, cut, Len(h))
     ELSE <<h[LastOf(B)]>>

\* The legacy context manager reads, and compacts, the store of the default
\* agent; the store of a routed agent is neither read nor compacted by it.
Assembled(h) == IF DefaultAgent THEN h ELSE <<>>
AfterCompact(h) == IF DefaultAgent THEN Compacted(h) ELSE h

-----------------------------------------------------------------------------
(***************************************************************************)
(* runTurn: setup, the head of the loop, the ends.                         *)
(***************************************************************************)

GracefulPending == graceful = "requested"

End(st, rep) ==
  /\ pc' = "ended"
  /\ status' = st
  /\ reply' = rep

Goto(to) == pc' = to /\ UNCHANGED resultVars

\* The hard abort is looked at in many places; each leads to abortTurn.
SeesHardAbort ==
  /\ hardAbort
  /\ pc \in {"new", "head", "handled"} \/ (pc = "tools" /\ next <= calls) \/ pc = "running"
  /\ Goto("abort")
  /\ UNCHANGED <<controlVars, pend, execPend, convVars, restorePoint, inputVars, graceVars, abortVars>>

\* abortTurn -> restoreSession; and without the restoring.
AbortTurnKeepsHistory ==
  /\ pc = "abort"
  /\ End("aborted", "none")
  /\ UNCHANGED <<controlVars, pend, execPend, convVars, restorePoint, inputVars, graceVars,
                 abortVars>>

AbortTurn ==
  /\ pc = "abort"
  /\ history' = restorePoint
  /\ End("aborted", "none")
  /\ UNCHANGED <<controlVars, pend, execPend, messages, persisted, restorePoint, inputVars,
                 graceVars, abortVars>>

\* SetupTurn: the restore point, a compaction when the budget is exceeded,
\* the user message (a Continue has none).  It fails when no provider can be
\* had for the model selected.
SetupTurn ==
  /\ pc = "new"
  /\ ~hardAbort
  /\ \E compact \in {FALSE, MayOverflow} :
       LET h == IF compact THEN AfterCompact(history) ELSE history
           user == IF InitialSteering = 0 THEN << <<"user", 0, 0>> >> ELSE <<>>
       IN /\ restorePoint' = IF compact THEN h ELSE Assembled(h)
          /\ \E kept \in IF compact THEN Trims(Assembled(h)) ELSE {Assembled(h)} :
               messages' = kept \o user
          /\ history' = h \o user
          /\ persisted' = user
  /\ Goto("head") \/ End("error", "none")
  /\ UNCHANGED <<controlVars, pend, execPend, inputVars, graceVars, abortVars>>

\* A SubTurn result that is waiting may be there in time, or not.
SubResult ==
  IF subs < SubResults THEN {<<>>, << <<"sub", subs + 1, 0>> >>} ELSE {<<>>}

\* The condition of the loop; and with the limit off by one.
MoreIterationsThanMax == iteration <= MaxIterations \/ execPend # <<>> \/ GracefulPending
MoreIterations == iteration < MaxIterations \/ execPend # <<>> \/ GracefulPending

\* The head of the loop: steering that was deposited (or, first of all,
\* polled) and a SubTurn result are injected before the LLM is called.
BeginIteration ==
  /\ pc = "head"
  /\ ~hardAbort
  /\ MoreIterations
  /\ iteration' = iteration + 1
  /\ LET polls == iteration = 0 /\ InitialSteering = 0
         deposited == IF iteration > 0 THEN execPend ELSE IF polls THEN Taken ELSE <<>>
     IN /\ \E sub \in SubResult :
             /\ Say(pend \o deposited \o sub)
             /\ subs' = subs + Len(sub)
        /\ queue' = IF polls THEN Untaken ELSE queue
  /\ pend' = <<>>
  /\ execPend' = <<>>
  /\ Goto("llm")
  /\ UNCHANGED <<retry, calls, next, allHandled, restorePoint, arrived, graceVars, abortVars>>

\* Out of iterations: the tool limit is the answer.
ExhaustIterations ==
  /\ pc = "head"
  /\ ~hardAbort
  /\ ~MoreIterations
  /\ pc' = "finalize"
  /\ reply' = "limit"
  /\ UNCHANGED <<status, controlVars, pend, execPend, convVars, restorePoint, inputVars,
                 graceVars, abortVars>>

\* Finalize: the answer is persisted and returned; it is not asked again
\* whether a hard abort was requested.
Finalize ==
  /\ pc = "finalize"
  /\ Say(<<Reply>>)
  /\ End("completed", reply)
  /\ UNCHANGED <<controlVars, pend, execPend, restorePoint, inputVars, graceVars, abortVars>>

\* Sessions.Save fails.
FinalizeFails ==
  /\ pc = "finalize"
  /\ Say(<<Reply>>)
  /\ End("error", "none")
  /\ UNCHANGED <<controlVars, pend, execPend, restorePoint, inputVars, graceVars, abortVars>>

\* Finalize when tools have delivered everything: no final content.
FinalizeHandled ==
  /\ pc = "handled"
  /\ ~hardAbort
  /\ End("completed", "none")
  /\ UNCHANGED <<controlVars, pend, execPend, convVars, restorePoint, inputVars, graceVars, abortVars>>

-----------------------------------------------------------------------------
(***************************************************************************)
(* CallLLM.                                                                *)
(***************************************************************************)

\* What a hook may make of a step besides letting it pass: abort the turn
\* (an error, nothing restored) or hard-abort it.
HookIntervenes ==
  /\ MayHook
  /\ \/ End("error", "none") /\ UNCHANGED abortVars
     \/ Goto("abort") /\ hardAbort' = TRUE /\ UNCHANGED <<aborter, snapshot>>

\* BeforeLLM, after the graceful terminal has been decided on.  No model may
\* be there for the media of the turn.
PrepareCall ==
  /\ pc = "llm"
  /\ terminal' = GracefulPending
  /\ graceful' = IF GracefulPending THEN "used" ELSE graceful
  /\ retry' = 0
  /\ \/ Goto("call") /\ UNCHANGED abortVars
     \/ End("error", "none") /\ UNCHANGED abortVars
     \/ HookIntervenes
  /\ UNCHANGED <<iteration, calls, next, allHandled, pend, execPend, convVars, restorePoint,
                 inputVars, lateTools>>

\* The provider answers, and AfterLLM has its say.
CallAnswered ==
  /\ pc = "call"
  /\ \/ Goto("response") /\ UNCHANGED abortVars
     \/ HookIntervenes
  /\ UNCHANGED <<controlVars, pend, execPend, convVars, restorePoint, inputVars, graceVars>>

\* A canceled call of a turn with a hard abort.
CallCanceled ==
  /\ pc = "call"
  /\ hardAbort
  /\ Goto("abort")
  /\ UNCHANGED <<controlVars, pend, execPend, convVars, restorePoint, inputVars, graceVars, abortVars>>

\* Any other error, or the retries are used up.
CallFails ==
  /\ pc = "call"
  /\ End("error", "none")
  /\ UNCHANGED <<controlVars, pend, execPend, convVars, restorePoint, inputVars, graceVars, abortVars>>

CallTransient ==
  /\ pc = "call"
  /\ retry < MaxRetries
  /\ Goto("backoff")
  /\ UNCHANGED <<controlVars, pend, execPend, convVars, restorePoint, inputVars, graceVars, abortVars>>

\* Mutant: the retries are not counted.
BackoffUncounted ==
  /\ pc = "backoff"
  /\ Goto("call")
  /\ UNCHANGED <<controlVars, pend, execPend, convVars, restorePoint, inputVars, graceVars, abortVars>>

Backoff ==
  /\ pc = "backoff"
  /\ retry' = retry + 1
  /\ Goto("call")
  /\ UNCHANGED <<iteration, calls, next, allHandled, pend, execPend, convVars, restorePoint,
                 inputVars, graceVars, abortVars>>

\* The sleep is cut short by a hard abort: ControlBreak, but neither
\* abortedByHardAbort nor an error, so the coordinator finalizes.
BackoffAborted ==
  /\ pc = "backoff"
  /\ hardAbort
  /\ pc' = "finalize"
  /\ reply' = "default"
  /\ UNCHANGED <<status, controlVars, pend, execPend, convVars, restorePoint, inputVars,
                 graceVars, abortVars>>

\* The sleep is cut short by the end of the caller's context.
BackoffCanceled ==
  /\ pc = "backoff"
  /\ ~hardAbort
  /\ End("error", "none")
  /\ UNCHANGED <<controlVars, pend, execPend, convVars, restorePoint, inputVars, graceVars, abortVars>>

\* The context window is exceeded: compact, move the restore point to what
\* is left in front of this turn's messages, rebuild the conversation with
\* the messages of the turn and as much before them as fits; these alone may
\* be too many.
Rebuilt(h) ==
  LET tail == TailMatch(h, persisted)
  IN {kept \o Suffix(h, tail) : kept \in Trims(Upto(h, Len(h) - tail))}

CallOverflows ==
  /\ pc = "call"
  /\ MayOverflow
  /\ retry < MaxRetries
  /\ retry' = retry + 1
  /\ LET h == AfterCompact(history) IN
       /\ history' = h
       /\ restorePoint' = Upto(h, Len(h) - TailMatch(h, persisted))
       /\ \/ /\ messages' \in Rebuilt(Assembled(h))
             /\ Goto("call")
          \/ /\ messages' = Suffix(Assembled(h), TailMatch(Assembled(h), persisted))
             /\ End("error", "none")
  /\ UNCHANGED <<iteration, calls, next, allHandled, pend, execPend, persisted, inputVars,
                 graceVars, abortVars>>

\* Mutant: the coordinator's copy is all that gets the steering, and the head
\* of the loop is entered only for what exec holds.
AnsweredUndeposited ==
  /\ pc = "response"
  /\ IF queue # <<>>
     THEN queue' = Untaken /\ Goto("head")
     ELSE pc' = "finalize" /\ reply' = "answer" /\ UNCHANGED <<status, queue>>
  /\ pend' = execPend
  /\ UNCHANGED <<controlVars, execPend, convVars, restorePoint, arrived, subs, graceVars, abortVars>>

\* No tool calls (or none that count): steering that arrived meanwhile keeps
\* the turn going, without the answer; else it is the answer.
Answered ==
  /\ pc = "response"
  /\ IF queue # <<>>
     THEN /\ execPend' = execPend \o Taken
          /\ pend' = execPend'
          /\ queue' = Untaken
          /\ Goto("head")
     ELSE /\ pc' = "finalize"
          /\ reply' = "answer"
          /\ pend' = execPend
          /\ UNCHANGED <<status, execPend, queue>>
  /\ UNCHANGED <<controlVars, convVars, restorePoint, arrived, subs, graceVars, abortVars>>

ToolCalls ==
  /\ pc = "response"
  /\ ~terminal
  /\ \E n \in 1..MaxCalls :
       /\ calls' = n
       /\ Say(<< <<"calls", iteration, n>> >>)
  /\ next' = 1
  /\ allHandled' = TRUE
  /\ pend' = execPend
  /\ Goto("tools")
  /\ UNCHANGED <<iteration, retry, execPend, restorePoint, inputVars, graceVars, abortVars>>

-----------------------------------------------------------------------------
(***************************************************************************)
(* ExecuteTools.                                                           *)
(***************************************************************************)

AtTool == pc = "tools" /\ next <= calls

\* Denied by the turn profile, a hook or an approval.
ToolDenied ==
  /\ AtTool
  /\ ~hardAbort
  /\ Say(<<Result(next)>>)
  /\ next' = next + 1
  /\ allHandled' = FALSE
  /\ UNCHANGED <<pc, resultVars, iteration, retry, calls, pend, execPend, restorePoint,
                 inputVars, graceVars, abortVars>>

\* BeforeTool aborts.
ToolHookAborts ==
  /\ AtTool
  /\ ~hardAbort
  /\ HookIntervenes
  /\ UNCHANGED <<controlVars, pend, execPend, convVars, restorePoint, inputVars, graceVars>>

ToolStarts ==
  /\ AtTool
  /\ ~hardAbort
  /\ lateTools' = IF GracefulPending THEN lateTools + 1 ELSE lateTools
  /\ Goto("running")
  /\ UNCHANGED <<controlVars, pend, execPend, convVars, restorePoint, inputVars, graceful,
                 terminal, abortVars>>

Deposit == execPend \o Taken

\* The calls after the one under way, answered as skipped; and forgotten.
SkippedUnanswered == <<>>
Skipped == [k \in 1..calls - next |-> Result(next + k)]

\* Why they are skipped; and with the interrupt overlooked.
SkipsForSteering == Deposit # <<>>
SkipsRest == Deposit # <<>> \/ GracefulPending

\* A result comes in: steering is polled, and when there is some, or an
\* interrupt, the remaining calls are answered as skipped.  Otherwise a
\* SubTurn result may be added, which persistedMessages does not record.
ToolResult(handled) ==
  /\ execPend' = Deposit
  /\ queue' = Untaken
  /\ allHandled' = (allHandled /\ handled)
  /\ IF SkipsRest
     THEN /\ Say(<<Result(next)>> \o Skipped)
          /\ next' = calls + 1
          /\ UNCHANGED subs
     ELSE /\ \E sub \in SubResult :
               /\ messages' = messages \o <<Result(next)>> \o sub
               /\ history' = history \o <<Result(next)>> \o sub
               /\ subs' = subs + Len(sub)
          /\ persisted' = Append(persisted, Result(next))
          /\ next' = next + 1
  /\ Goto("tools")
  /\ UNCHANGED <<iteration, retry, calls, pend, restorePoint, arrived, graceVars, abortVars>>

\* BeforeTool answers in the tool's place: nothing runs.
ToolRespondedByHook ==
  /\ AtTool
  /\ ~hardAbort
  /\ MayHook
  /\ \E handled \in BOOLEAN : ToolResult(handled)

ToolReturns ==
  /\ pc = "running"
  /\ ~hardAbort
  /\ \E handled \in BOOLEAN : ToolResult(handled)

\* AfterTool aborts.
ToolReturnsToHook ==
  /\ pc = "running"
  /\ ~hardAbort
  /\ HookIntervenes
  /\ UNCHANGED <<controlVars, pend, execPend, convVars, restorePoint, inputVars, graceVars>>

\* After the last tool: another iteration, unless every result was handled
\* and no steering is there.
ToolsContinue ==
  /\ pc = "tools" /\ next > calls
  /\ execPend # <<>> \/ queue # <<>> \/ ~allHandled
  /\ IF execPend = <<>>
     THEN execPend' = Taken /\ queue' = Untaken
     ELSE UNCHANGED <<execPend, queue>>
  /\ allHandled' = FALSE
  /\ Goto("head")
  /\ UNCHANGED <<iteration, retry, calls, next, pend, convVars, restorePoint, arrived, subs,
                 graceVars, abortVars>>

ToolsHandled ==
  /\ pc = "tools" /\ next > calls
  /\ execPend = <<>> /\ queue = <<>> /\ allHandled
  /\ Say(<<Reply>>)
  /\ Goto("handled")
  /\ UNCHANGED <<controlVars, pend, execPend, restorePoint, inputVars, graceVars, abortVars>>

-----------------------------------------------------------------------------
(***************************************************************************)
(* Other goroutines.                                                       *)
(***************************************************************************)

\* Mutant: the queue is a stack.
SteerArrivesInFront ==
  /\ pc # "ended"
  /\ arrived < Steers
  /\ arrived' = arrived + 1
  /\ queue' = <<Steer(arrived + 1)>> \o queue
  /\ UNCHANGED <<pc, resultVars, controlVars, pend, execPend, convVars, restorePoint, subs,
                 graceVars, abortVars>>

SteerArrives ==
  /\ pc # "ended"
  /\ arrived < Steers
  /\ arrived' = arrived + 1
  /\ queue' = Append(queue, Steer(arrived + 1))
  /\ UNCHANGED <<pc, resultVars, controlVars, pend, execPend, convVars, restorePoint, subs,
                 graceVars, abortVars>>

\* InterruptGraceful -> requestGracefulInterrupt.
Interrupt ==
  /\ MayInterrupt
  /\ pc # "ended"
  /\ ~hardAbort
  /\ graceful = "no"
  /\ graceful' = "requested"
  /\ UNCHANGED <<pc, resultVars, controlVars, pend, execPend, convVars, restorePoint, inputVars,
                 terminal, lateTools, abortVars>>

\* HardAbort: request it, then read the history and cut it to its initial
\* length.
HardAbortRequest ==
  /\ MayAbort
  /\ pc # "ended"
  /\ aborter = "idle"
  /\ hardAbort' = TRUE
  /\ aborter' = "requested"
  /\ UNCHANGED <<pc, resultVars, controlVars, pend, execPend, convVars, restorePoint, inputVars,
                 graceVars, snapshot>>

HardAbortRead ==
  /\ aborter = "requested"
  /\ snapshot' = history
  /\ aborter' = "read"
  /\ UNCHANGED <<pc, resultVars, controlVars, pend, execPend, convVars, restorePoint, inputVars,
                 graceVars, hardAbort>>

HardAbortCut ==
  /\ aborter = "read"
  /\ history' = IF Len(Old) < Len(snapshot) THEN Upto(snapshot, Len(Old)) ELSE history
  /\ aborter' = "done"
  /\ UNCHANGED <<pc, resultVars, controlVars, pend, execPend, messages, persisted, restorePoint,
                 inputVars, graceVars, hardAbort, snapshot>>

-----------------------------------------------------------------------------
Coordinator ==
  SeesHardAbort \/ AbortTurn \/ SetupTurn \/ BeginIteration \/ ExhaustIterations
    \/ Finalize \/ FinalizeFails \/ FinalizeHandled

Llm ==
  PrepareCall \/ CallAnswered \/ CallCanceled \/ CallFails \/ CallTransient \/ Backoff
    \/ BackoffAborted \/ BackoffCanceled \/ CallOverflows \/ Answered \/ ToolCalls

Tools ==
  ToolDenied \/ ToolHookAborts \/ ToolStarts \/ ToolRespondedByHook \/ ToolReturns
    \/ ToolReturnsToHook \/ ToolsContinue \/ ToolsHandled

HardAbortSteps == HardAbortRequest \/ HardAbortRead \/ HardAbortCut

Next == Coordinator \/ Llm \/ Tools \/ SteerArrives \/ Interrupt \/ HardAbortSteps

Spec == Init /\ [][Next]_vars

\* The goroutine of the turn runs, and provider and tool calls return: they
\* have timeouts.  Nothing is assumed of what other goroutines do.
LiveSpec == Spec /\ WF_vars(Coordinator \/ Llm \/ Tools)

-----------------------------------------------------------------------------
(***************************************************************************)
(* Properties                                                              *)
(***************************************************************************)

Occurs(s, x) == \E i \in DOMAIN s : s[i] = x
Count(s, x) == Cardinality({i \in DOMAIN s : s[i] = x})
First(s, x) == CHOOSE i \in DOMAIN s : s[i] = x /\ \A j \in DOMAIN s : s[j] = x => i <= j

\* In a conversation every tool call is answered once, after the call, and
\* nothing is answered that was not called.
Paired(s) ==
  /\ \A i \in DOMAIN s : s[i][1] = "calls" =>
       \A k \in 1..s[i][3] :
         LET r == <<"result", s[i][2], k>>
         IN Count(s, r) = 1 /\ First(s, r) > i
  /\ \A i \in DOMAIN s : s[i][1] = "result" =>
       \E j \in 1..i - 1 : s[j][1] = "calls" /\ s[j][2] = s[i][2] /\ s[j][3] >= s[i][3]

\* Whenever the LLM is called, and when a turn completes, the conversation is
\* well formed, whatever mix of denied, skipped, hooked and executed tools
\* came before: a provider rejects a call without its result.  After a hard
\* abort the conversation is thrown away, and nothing is asked of it.
EveryCallIsAnswered ==
  (pc = "call" \/ status = "completed") /\ ~hardAbort => Paired(messages)

\* A steering message that was taken from the queue reaches the conversation
\* before the turn completes.
SteeringIsNotLost ==
  status = "completed" =>
    \A n \in 1..arrived : Occurs(messages, Steer(n)) \/ Occurs(queue, Steer(n))

\* Steering messages reach the LLM in the order they arrived.
SteeringInOrder ==
  \A n, m \in 1..arrived :
    n < m /\ Occurs(messages, Steer(m)) =>
      Occurs(messages, Steer(n)) /\ First(messages, Steer(n)) < First(messages, Steer(m))

\* A turn makes no more iterations than the limit, one for every steering
\* message that came in, and one for a graceful interrupt.
IterationsAreBounded ==
  iteration <= MaxIterations + arrived + (IF graceful = "no" THEN 0 ELSE 1)

\* After a graceful interrupt at most the tool that is about to start runs
\* before the LLM is asked to sum up.
InterruptStopsTools == lateTools <= 1

\* An aborted turn leaves the history as it found it.
AbortRestoresHistory == status = "aborted" => history = Old

\* Compaction cuts between turns: it never tears a call from its results.
CompactionKeepsPairs ==
  [][(pc = "call" /\ retry' = retry + 1 /\ Paired(history)) => Paired(history')]_vars

\* A turn ends once no more steering arrives, whatever fails, overflows or is
\* interrupted: no path through the retries goes round without counting.
TurnEnds == <>(pc = "ended")
=============================================================================
