------------------------------ MODULE Fallback ------------------------------
(* The fallback chain of the model providers (src/pkg/providers): requests   *)
(* walk their list of candidates, skipping those in cooldown                 *)
(* (cooldown.go) and those whose token bucket is empty (ratelimiter.go), and *)
(* mark what became of the one they called.  The tracker and the buckets are *)
(* shared by every turn of every agent; each of their operations is atomic   *)
(* under a mutex, but a request checks, takes a token, calls and marks in    *)
(* four separate steps.                                                      *)
(*                                                                           *)
(* Instants are kept as distances from now, so that time needs no bound: an  *)
(* expiry is the number of ticks left, the last failure its age, up to       *)
(* Window + 1, after which the code no longer tells ages apart.  The counts  *)
(* stop at the length of their table, where the backoff stops growing.       *)
(*                                                                           *)
(* The parts of the specification carry the name of the component, as        *)
(* TimersProof extends this module and CronService.                          *)
EXTENDS Integers, Sequences, FiniteSets

CONSTANTS
  Requests,    \* calls of ExecuteCandidate, each may be made again and again
  Keys,        \* StableKey of the candidates
  Chain,       \* [Requests -> Seq(Keys)]: the candidates, primary first
  Burst,       \* [Keys -> Nat]: bucket size; 0 = no limiter registered (RPM = 0)
  Standard,    \* Standard[n]: ticks of cooldown after the nth error
  Billing,     \* Billing[n]: ticks of disablement after the nth billing error
  Window       \* failureWindow: a longer quiet time resets the counts

(* What calculateStandardCooldown and calculateBillingCooldown compute, in   *)
(* minutes; failureWindow is 1440 of them.                                   *)
StandardCooldown(n) == LET raw == 5 ^ (IF n - 1 < 3 THEN n - 1 ELSE 3)
                       IN IF raw < 60 THEN raw ELSE 60
BillingCooldown(n) == LET raw == 300 * 2 ^ (IF n - 1 < 10 THEN n - 1 ELSE 10)
                      IN IF raw < 1440 THEN raw ELSE 1440

(* A backoff table grows, and the quiet time that resets the counts is no    *)
(* shorter than the longest backoff.                                         *)
Backoff(table, window) ==
  /\ table \in Seq(Nat) /\ Len(table) > 0
  /\ \A i, j \in 1 .. Len(table) : i <= j => table[i] <= table[j]
  /\ \A i \in 1 .. Len(table) : table[i] <= window

ASSUME RequestsAssumption == IsFiniteSet(Requests)
ASSUME ChainAssumption == /\ Chain \in [Requests -> Seq(Keys)]
                          /\ \A q \in Requests : Len(Chain[q]) > 0
ASSUME BurstAssumption == Burst \in [Keys -> Nat]
ASSUME BackoffAssumption == /\ Window \in Nat
                            /\ Backoff(Standard, Window)
                            /\ Backoff(Billing, Window)

VARIABLES
  errors,    \* ErrorCount of a key
  billings,  \* FailureCounts[FailoverBilling] of a key
  cooling,   \* ticks until CooldownEnd
  disabled,  \* ticks until DisabledUntil
  age,       \* ticks since LastFailure
  tokens,    \* tokens of a key's bucket
  pc,        \* where a request is
  at,        \* the candidate it is at, an index of its chain
  ctx        \* its context: "live", "canceled" or "expired"

tracker == <<errors, billings, cooling, disabled, age>>
request == <<pc, at, ctx>>
fallbackVars == <<errors, billings, cooling, disabled, age, tokens, pc, at, ctx>>

Places == {"idle", "check", "acquire", "wait", "call"}

FallbackTypeOK ==
  /\ errors \in [Keys -> 0 .. Len(Standard)]
  /\ billings \in [Keys -> 0 .. Len(Billing)]
  /\ cooling \in [Keys -> Nat]
  /\ disabled \in [Keys -> Nat]
  /\ age \in [Keys -> 0 .. Window + 1]
  /\ tokens \in [Keys -> Nat]
  /\ pc \in [Requests -> Places]
  /\ at \in [Requests -> Nat \ {0}]
  /\ \A q \in Requests : at[q] <= Len(Chain[q])
  /\ ctx \in [Requests -> {"live", "canceled", "expired"}]

FallbackInit ==
  /\ errors = [k \in Keys |-> 0]
  /\ billings = [k \in Keys |-> 0]
  /\ cooling = [k \in Keys |-> 0]
  /\ disabled = [k \in Keys |-> 0]
  /\ age = [k \in Keys |-> Window + 1]
  /\ tokens = Burst
  /\ pc = [q \in Requests |-> "idle"]
  /\ at = [q \in Requests |-> 1]
  /\ ctx = [q \in Requests |-> "live"]

Key(q) == Chain[q][at[q]]
Last(q) == at[q] = Len(Chain[q])
IsAvailable(k) == cooling[k] = 0 /\ disabled[k] = 0

-----------------------------------------------------------------------------
(* The tracker and the bucket.                                               *)

Next1(n, top) == IF n < top THEN n + 1 ELSE n

(* One expiry for both kinds of failure would let a timeout cut a billing    *)
(* disablement short.                                                        *)
MarkFailureOneExpiry(k, reason) ==
  LET e == Next1(errors[k], Len(Standard))
  IN /\ errors' = [errors EXCEPT ![k] = e]
     /\ age' = [age EXCEPT ![k] = 0]
     /\ cooling' = [cooling EXCEPT ![k] = Standard[e]]
     /\ disabled' = [disabled EXCEPT ![k] = IF reason = "billing" THEN Billing[1] ELSE 0]
     /\ UNCHANGED billings

(* MarkFailure: the counts start again after a quiet window; a billing error *)
(* sets only the disablement, any other only the cooldown.                   *)
MarkFailure(k, reason) ==
  LET quiet == age[k] > Window
      e == Next1(IF quiet THEN 0 ELSE errors[k], Len(Standard))
      was == IF quiet THEN 0 ELSE billings[k]
      bill == IF reason = "billing" THEN Next1(was, Len(Billing)) ELSE was
  IN /\ errors' = [errors EXCEPT ![k] = e]
     /\ billings' = [billings EXCEPT ![k] = bill]
     /\ age' = [age EXCEPT ![k] = 0]
     /\ IF reason = "billing"
          THEN disabled' = [disabled EXCEPT ![k] = Billing[bill]] /\ UNCHANGED cooling
          ELSE cooling' = [cooling EXCEPT ![k] = Standard[e]] /\ UNCHANGED disabled

(* MarkSuccess forgives everything but the time of the last failure.         *)
MarkSuccess(k) ==
  /\ errors' = [errors EXCEPT ![k] = 0]
  /\ billings' = [billings EXCEPT ![k] = 0]
  /\ cooling' = [cooling EXCEPT ![k] = 0]
  /\ disabled' = [disabled EXCEPT ![k] = 0]
  /\ UNCHANGED age

(* TryAcquire, or one round of Wait that finds a token.                      *)
TakeToken(k) ==
  \/ Burst[k] = 0 /\ UNCHANGED tokens
  \/ tokens[k] > 0 /\ tokens' = [tokens EXCEPT ![k] = @ - 1]

Saturated(k) == Burst[k] > 0 /\ tokens[k] = 0

Less1(n) == IF n > 0 THEN n - 1 ELSE 0

(* A bucket that is never refilled.                                          *)
TimePassesWithoutRefill ==
  /\ cooling' = [k \in Keys |-> Less1(cooling[k])]
  /\ disabled' = [k \in Keys |-> Less1(disabled[k])]
  /\ age' = [k \in Keys |-> Next1(age[k], Window + 1)]
  /\ UNCHANGED <<errors, billings, tokens>>
  /\ UNCHANGED request

(* A tick: what is left of every expiry shrinks and one token is refilled.   *)
TimePasses ==
  /\ cooling' = [k \in Keys |-> Less1(cooling[k])]
  /\ disabled' = [k \in Keys |-> Less1(disabled[k])]
  /\ age' = [k \in Keys |-> Next1(age[k], Window + 1)]
  /\ tokens' = [k \in Keys |-> Next1(tokens[k], Burst[k])]
  /\ UNCHANGED <<errors, billings>>
  /\ UNCHANGED request

-----------------------------------------------------------------------------
(* A request.                                                                *)

GoTo(q, place) == pc' = [pc EXCEPT ![q] = place]

(* The request returns to its caller.                                        *)
Return(q) ==
  /\ GoTo(q, "idle")
  /\ at' = [at EXCEPT ![q] = 1]
  /\ ctx' = [ctx EXCEPT ![q] = "live"]

(* On to the next candidate, or the aggregate error after the last one.      *)
Advance(q) ==
  IF Last(q) THEN Return(q)
  ELSE /\ GoTo(q, "check")
       /\ at' = [at EXCEPT ![q] = @ + 1]
       /\ UNCHANGED ctx

Begin(q) ==
  /\ pc[q] = "idle"
  /\ GoTo(q, "check")
  /\ UNCHANGED <<at, ctx, tokens>> /\ UNCHANGED tracker

(* The user aborts, or the deadline of the caller passes.                    *)
ContextEnds(q) ==
  /\ pc[q] # "idle" /\ ctx[q] = "live"
  /\ \E end \in {"canceled", "expired"} : ctx' = [ctx EXCEPT ![q] = end]
  /\ UNCHANGED <<pc, at, tokens>> /\ UNCHANGED tracker

(* The head of the loop: only a cancellation stops the chain, an expired     *)
(* deadline does not.                                                        *)
StopCanceled(q) ==
  /\ pc[q] = "check" /\ ctx[q] = "canceled"
  /\ Return(q)
  /\ UNCHANGED tokens /\ UNCHANGED tracker

SkipBlocked(q) ==
  /\ pc[q] = "check" /\ ctx[q] # "canceled"
  /\ ~ IsAvailable(Key(q))
  /\ Advance(q)
  /\ UNCHANGED tracker /\ UNCHANGED tokens

PassCheck(q) ==
  /\ pc[q] = "check" /\ ctx[q] # "canceled"
  /\ IsAvailable(Key(q))
  /\ GoTo(q, "acquire")
  /\ UNCHANGED <<at, ctx, tokens>> /\ UNCHANGED tracker

Acquire(q) ==
  /\ pc[q] \in {"acquire", "wait"}
  /\ TakeToken(Key(q))
  /\ GoTo(q, "call")
  /\ UNCHANGED <<at, ctx>> /\ UNCHANGED tracker

SkipSaturated(q) ==
  /\ pc[q] = "acquire" /\ Saturated(Key(q)) /\ ~ Last(q)
  /\ Advance(q)
  /\ UNCHANGED tracker /\ UNCHANGED tokens

(* The last candidate is waited for.                                         *)
StartWait(q) ==
  /\ pc[q] = "acquire" /\ Saturated(Key(q)) /\ Last(q)
  /\ GoTo(q, "wait")
  /\ UNCHANGED <<at, ctx, tokens>> /\ UNCHANGED tracker

WaitEnds(q) ==
  /\ pc[q] = "wait" /\ ctx[q] # "live"
  /\ Return(q)
  /\ UNCHANGED tokens /\ UNCHANGED tracker

(* run returned no error: the key is forgiven whatever happened to it since  *)
(* this call began.                                                          *)
Succeed(q) ==
  /\ pc[q] = "call"
  /\ MarkSuccess(Key(q))
  /\ Return(q)
  /\ UNCHANGED tokens

(* run failed and the request ends: its context was canceled, or the error   *)
(* is unclassified or not retriable (format, context overflow).              *)
FailForGood(q) ==
  /\ pc[q] = "call"
  /\ Return(q)
  /\ UNCHANGED tokens /\ UNCHANGED tracker

(* A request that tries the candidate again without a new check.             *)
FailOverRetries(q) ==
  /\ pc[q] = "call" /\ ctx[q] # "canceled"
  /\ \E reason \in {"billing", "other"} :
       MarkFailure(Key(q), reason)
  /\ GoTo(q, "acquire")
  /\ UNCHANGED <<at, ctx, tokens>>

(* run failed with a retriable error, a passed deadline among them.          *)
FailOver(q) ==
  /\ pc[q] = "call" /\ ctx[q] # "canceled"
  /\ \E reason \in {"billing", "other"} :
       MarkFailure(Key(q), reason)
  /\ Advance(q)
  /\ UNCHANGED tokens

Progress(q) ==
  \/ StopCanceled(q) \/ SkipBlocked(q) \/ PassCheck(q) \/ Acquire(q)
  \/ SkipSaturated(q) \/ StartWait(q) \/ WaitEnds(q)
  \/ Succeed(q) \/ FailForGood(q) \/ FailOver(q)

FallbackNext == TimePasses \/ \E q \in Requests : Begin(q) \/ ContextEnds(q) \/ Progress(q)

FallbackSpec == FallbackInit /\ [][FallbackNext]_fallbackVars

(* Time passes, a runnable goroutine runs and a provider call ends, in an    *)
(* answer or in the timeout of its HTTP client.                              *)
FallbackFairness == WF_fallbackVars(TimePasses) /\ \A q \in Requests : WF_fallbackVars(Progress(q))
FallbackLiveSpec == FallbackSpec /\ FallbackFairness

-----------------------------------------------------------------------------
(* Ticks until a key is available: CooldownRemaining.                        *)
Remaining(k) == IF cooling[k] > disabled[k] THEN cooling[k] ELSE disabled[k]

(* A failure never lets a key come back earlier than the failures before it  *)
(* had settled: only the clock and a success shorten what remains.  Failures *)
(* of two kinds set two expiries, each recomputed from now with counts that  *)
(* may just have been reset (cooldown.go:49).                                *)
NeverShortened ==
  [][\A k \in Keys : Remaining(k)' < Remaining(k) =>
       \/ TimePasses
       \/ \E q \in Requests : pc[q] = "call" /\ Key(q) = k /\ Succeed(q)]_fallbackVars

(* The requests that are past the check of a key.                            *)
InFlight(k) == {q \in Requests :
                  pc[q] \in {"acquire", "wait", "call"} /\ Key(q) = k}

(* For how long a key may stay blocked, if each request that is past its     *)
(* check fails as late as it can.                                            *)
Patience(k) == Remaining(k) + Window * Cardinality(InFlight(k))

(* A block runs out.  A request that passed the check before the failure     *)
(* waits for a token, calls and fails while the key is blocked, and its      *)
(* failure, of whichever kind, sets a new expiry; but it spends what it      *)
(* passed: without a new check it neither tries nor fails again, and its     *)
(* failure adds no more than the failure window.  So every tick brings the   *)
(* end nearer, however requests, failures and the walks over the candidates  *)
(* interleave (fallback.go:163, cooldown.go:49).                             *)
BlocksRunOut ==
  [][\A k \in Keys : ~ IsAvailable(k) /\ ~ IsAvailable(k)' =>
       /\ Patience(k)' <= Patience(k)
       /\ TimePasses => Patience(k)' < Patience(k)]_fallbackVars

(* Another request takes a token of the key q is at.                         *)
Overtaken(q) ==
  /\ pc[q] = "wait"
  /\ \E p \in Requests \ {q} : pc[p] \in {"acquire", "wait"} /\ Key(p) = Key(q) /\ Acquire(p)

(* Every request comes back, with a response or an error, whatever is        *)
(* blocked, saturated, canceled or expired, unless other requests take the   *)
(* tokens it waits for again and again: Wait has no queue                    *)
(* (ratelimiter.go:43).                                                      *)
EveryRequestReturns ==
  \A q \in Requests :
    <>[][~ Overtaken(q)]_fallbackVars => []<>(pc[q] = "idle")
=============================================================================
