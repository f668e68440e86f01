# TLA+ for Facet Studio

Facet Studio is a Go program that connects chat channels (Telegram, Discord, a
web cockpit, a terminal) to an agent: a loop that sends a conversation to a
language model, runs the tools the model asks for, and sends the answer back.
This directory holds TLA+ models of the parts in which goroutines, locks,
queues, retries and crashes meet, the TLC configurations that check them, and
proofs that TLAPS checks.  Paths below are relative to `src/`.

    tlc -workers 2 -config MCMessageBus.cfg MCMessageBus.tla      # model-check
    tlapm MessageBusProof.tla                                     # prove

## 1. Inventory

| component | state | operations | what is hard | what makes it correct | status |
|---|---|---|---|---|---|
| message bus `pkg/bus/bus.go` | five buffered channels, `closed`, `done`, `publishMu`, a WaitGroup | Publish*, the channel getters, Close | publishers racing Close, back-pressure, cancellation, the timed select | no send on a closed channel; the error tells the truth; Close ends and leaves nothing behind | modelled, proved |
| agent loop `pkg/agent/agent.go`, `steering.go`, `agent_steering.go`, `agent_stop.go` | `activeTurnStates`, `workerSem`, steering queues, `pendingStops` | receive, spawn, enqueue, Continue, /stop, HardAbort, clean-up | check-then-act on sync.Maps, safety nets, panics, shutdown | one turn per session; no orphaned claim; slots given back; the receiving goroutine never stuck | partly; safety proved |
| turn loop `pkg/agent/turn_coord.go`, `pipeline*.go`, `turn_state.go`, `context_budget.go` | the conversation, the session's history, pending steering, interrupt and abort flags, retry counter | runTurn: setup, iterations, LLM call with retries, tools, finalize, abort | steering, interrupts, aborts and compaction at any step | every tool call answered; steering neither lost nor reordered; abort rolls back; the turn ends | partly; safety proved |
| SubTurns `pkg/agent/subturn.go`, model mutex of `instance.go` | child turns, `pendingResults`, a semaphore per SubTurn, an RWMutex per agent | spawn, refuse, deliver, panic, hard abort, change of model | a slot released in two places, delivery to a parent that is gone, recursive read locks | the limit holds; a SubTurn that was asked for ends, and so does a change of the model | partly; the limit proved |
| legacy context manager `context_legacy.go` | history, summary | Assemble, Compact, Clear, background summarisation | summarisation of a history that changes under it | calls and results are cut together | operators of `TurnLoop`; the goroutine is not |
| session store `pkg/memory/jsonl.go` | per session a message file and a metadata file, 64 mutexes | append, truncate, rewrite, compact, promote an alias | crashes and failed writes between two writes, torn lines, two locks at once | what was acknowledged is read back, once, in order | partly; safety proved |
| provider fallback `pkg/providers/fallback.go`, `cooldown.go`, `ratelimiter.go` | counts and expiries per candidate, token buckets | walk the candidates, take a token, mark success or failure | requests that check, wait, call and mark in separate steps; two kinds of expiry | a failure never shortens a block; a block runs out; a request returns | partly; safety proved |
| runtime events `pkg/events` | subscriptions with bounded queues, a worker each | publish, subscribe, dispatch, close one, close all | policies for a full queue with several publishers; Close against publishers and handlers | no send on a closed queue; every event accounted for; Done means done; a close ends | partly; safety proved |
| channel manager `pkg/channels/manager.go` | maps of channels and workers, a queue per worker, config hashes, deferred functions of reloads | start, reload, stop, register, dispatch, deliver | reloads whose deferred functions overlap; calls that outlive a Stop; a worker looked up and used later; a lock held while draining | messages of a channel in order; the lock is given back; no message stuck | partly; order proved |
| cron `pkg/cron/service.go`, `pkg/tools/cron.go` | jobs in memory and in a file, a sleeping loop, clones of clients | add, edit, switch, remove, collect, call, finish, start, stop | edits while a job is collected or runs; crash and reload; lost notifications | a time runs at most once; the file follows; a due job is called | partly; safety proved |
| hooks, commands, tools | - | decisions of a hook; /stop; the cron tool | at every step of a turn | - | as choices and actions of the modules above |
| MCP manager, gateway supervision, shell sessions, OAuth refresh, evolution, seahorse, modules | processes, connections, tokens, a database | start, stop, reconnect, refresh | a process that dies at the wrong moment | - | not modelled, section 7 |
| channel and provider drivers, configuration, web front, installer, media, devices | - | translation, parsing, I/O | remote services | - | not modelled, section 7 |

**How they interact.**  Channels publish inbound messages on the bus; `Run` of
the agent loop receives them, and gives each a worker goroutine or makes it a
steering message of a turn that is under way.  A worker calls `runTurn`, which
reads and writes the session store through the context manager, calls the
providers through the fallback chain, runs tools (of which some spawn SubTurns,
and one edits cron jobs), polls the steering queue, and publishes answers on the
bus, from where the channel manager's dispatcher hands them to the worker of
their channel.  A cron job that is due becomes an inbound message.  Everything
publishes runtime events.  /stop reaches a running turn through
`activeTurnStates` and the turn's `hardAbort` flag.  A reload of the gateway
replaces channels and the cron service while all this goes on.

## 2. Modules

| module | models | checked by | proved in |
|---|---|---|---|
| `BusPromise` | what the bus promises: bounded FIFO queues, each message accepted or rejected once | refined by `MessageBus` | `MessageBusProof` |
| `SessionLog` | what the session store promises: a log of messages per session, operations that happen at once, damage that stays where it was done | refined by `SessionStore` | `SessionStoreProof` |
| `MessageBus` | `publish`, `enterPublish`, `Close` and the readers, a step per lock, atomic or channel operation | `MCMessageBus` | `MessageBusProof` |
| `AgentLoop` | `Run`, worker goroutines, `activeTurnStates`, the steering queue, `Continue`, /stop, panics, shutdown | `MCAgentLoop` | `AgentLoopProof` |
| `TurnLoop` | `runTurn` with `SetupTurn`, `CallLLM`, `ExecuteTools`, `Finalize`, and what other goroutines do to the turn | `MCTurnLoop` | `TurnLoopProof` |
| `SubTurn` | `spawnSubTurn`, `deliverSubTurnResult`, the hard abort of a root, the agent's model mutex | `MCSubTurn` | `SubTurnProof` |
| `SessionStore` | `JSONLStore`: files line by line, metadata, mutexes, failures, crashes | `MCSessionStore` | `SessionStoreProof` |
| `Fallback` | `ExecuteCandidate`, `CooldownTracker`, `RateLimiter`, shared by concurrent requests, with time | `MCFallback` | `TimersProof` |
| `EventBus` | the event bus, its subscriptions, their policies, workers, handlers and Close | `MCEventBus` | `EventBusProof` |
| `ChannelManager` | `StartAll`, `Reload` and its deferred functions, `StopAll`, the dispatcher, the text workers | `MCChannelManager` | `ChannelManagerProof` |
| `CronService` | the loop, the jobs' calls, the tool's edits, Start, Stop, reload and crash | `MCCronService` | `TimersProof` |

The modules meet at narrow interfaces and are not composed into one state
space.  To the bus a reader is anybody who takes the head of a channel.  To
`AgentLoop` a turn is an interval that polls its queue any number of times and
ends with some outcome.  To `TurnLoop` steering, interrupts and aborts arrive at
any moment, and a session is a sequence.  `SessionStore` says what
becomes of that sequence on disk.

**MessageBus.**  `pc[m]` is where the publisher of message `m` stands: `idle`,
`locked` and `admitted` (under `publishMu`), `select` (after `wg.Add`),
`leaving`, `returned`.  The select of `publish` is four actions, one for each
ready case; the timer exists only for the streams whose policy has a timeout.
`closePc[c]` walks through Close: `once`, flag, `done`, `wg.Wait`, the channels
in `CloseOrder`, the drain loop.  A receive is one action, also after the
close.  Statistics and events about dropped messages are left out.

**AgentLoop.**  `pc[m]` is where the worker of message `m` is and `main` where the
receiving goroutine is.  An entry of `activeTurnStates` is `[kind, by]`: a
`pending` placeholder of a worker, a `continue` placeholder, or the `turn`
itself.  Each sync.Map operation is a step, so `Load` followed by `Delete` is
two.  /stop of an unclaimed session takes a worker (`OwnStop*`), /stop of a
claimed one is done by the receiving goroutine (`StopClear`, `StopLookup`,
`StopAbort`, `StopArm`, `StopMark`).  History variable: `robbed`, the sessions
that lost an entry to a goroutine that did not make it.  Taken as one step: the
store of a new turn and its `takePendingStop`.  Left out: provider reload,
`InterruptHard`, `InjectFollowUp`, `InjectSteering`, failure of
`buildContinuationTarget`, and the clash of a system message with a routed
message that carries the main session's own key (an assumption of the module).

**TurnLoop.**  A message is a triple of kind and numbers; what it says is left
out.  `history` is the session's, `messages` the model's view, `persisted` and
`restorePoint` what an abort goes back to.  Steering is where the code keeps it:
in `queue`, in `execPend` (`exec.pendingMessages`), and in `pend` (the local
variable of `runTurn`).  A tool call is denied, answered by a hook, started,
returned, skipped or cut off by an abort.  Compaction is `forceCompression`
with `parseTurnBoundaries`.  Left out: turns without history, streaming, side
questions, a change of model inside a call, summarisation in the background.

**SubTurn.**  `pc[t]` is where turn `t`, or the call of `spawnSubTurn` for it, is.
A root has no `pendingResults`, no `concurrencySem` and no reference to the agent
loop, as `newTurnState` sets none of them; this is why a root's children are not
counted, their results are orphans, and a hard abort reaches no child.  The slot
of a SubTurn is given back by `ReleaseSlot`, and by the deferred function
(`Return`) if a panic skipped that.  `readers` and `writer` are the RWMutex of an
agent: `RLock` waits for a writer that waits.  `Stranded` and `Embraced` name the
two states from which the code has no way out; `SpawnEnds` excepts exactly
these, and `ModelChangeEnds` the second.

**Fallback.**  A request is at `check`, `acquire`, `wait` or `call` of a candidate.
Instants are kept as distances from now (`cooling`, `disabled`, `age`), so that
time needs no bound; ages stop at `Window + 1` and counts at the end of their
table, beyond which the code does not tell them apart.  The tables of the code
are in the module, and `MCFallback` has TLC evaluate that they meet the
assumption the proofs use.

**EventBus.**  The life of a subscription is `phase`: `closing` once its channel is
closed, `closed` once the flag is set under the write lock, `sealed` once its
queue is closed.  A publisher is at `try`, `evict` or `retry` inside the read
lock, or at `block` inside `blockWG`.  `pending` is a history variable: what was
received, less what was counted as dropped, less what was taken.  Events have no
content.

**ChannelManager.**  An instance of a channel and a worker are named
`<<name, generation>>`, a generation being the start or a reload.  `Reload` is one
step, as it holds the lock throughout; what it defers to a goroutine is
`Unregister`, `UnregisterDrained` and `Register`, interleaved with everything,
also with the deferred functions of the next reload.  A look-up of a worker
(`LookUp`) and the send to it (`Enqueue`) are two steps.  A send on a closed queue
and a call on a nil channel end the program (`crashed`).  `call[w]` is what the
worker's goroutine does with the message it has taken: it waits for the limiter
(`wait`), edits a placeholder (`edit`, which asks nobody whether the channel runs),
is between two attempts (`try`), or is in a Send (`send`) that found the channel
running at its beginning and asks no more.  An edit or a Send that reports an
error may have arrived all the same, and is followed by another.  A Stop does not
wait for such a call, and it may fail, which the manager only logs: the instances
in `stuck` go on running beside their successors.  A message stands for one chunk.
Other channels are taken to treat Send and Stop as `telegram.go` does.  History
variables: `log`, what arrived at the service, `late` if its instance was no longer
to deliver it, and `misled`, the channels of which a reload took an instance for
the latest that was not, or could not stop the old one.

**CronService.**  Each service object has its own copy of the jobs, its loop and
its timer; a reload stops one and makes another on the same file, while the
loop of the old one finishes what it has collected and an old tool may still
edit (`Services` are reused once nobody has them).  Times are what is left of
them.  `UpdateJob` is two steps, for the tool gets a clone and writes it back.
The store is a function of the id, so due jobs are collected in any order.
`runs` counts, by schedule, how often the time of a one-time job led to a call.

**SessionStore.**  `file[s]` is a sequence of lines: messages, numbered in the order
they were appended, or `Junk`, a line that does not parse.  `tail[s]` says that
the last line lacks its newline; the next append continues that line
(`Appended`).  Metadata and rewrites are atomic, as `WriteFileAtomic` makes them.
An operation with two writes is two actions, between which it may fail
(`SecondWriteFails`, `PromoteMetaFails`) or the process may die (`Crash`).  Locks
are per shard; promotion takes two, in the order of the keys.  History
variables: `hist`, what the callers were told is stored; `clean`, the sessions
without a failure since the last full rewrite; `unread`, the messages appended
where no reader will find them.  Left out: resolution of keys, scope and alias
lists, the length of a line, `CreatedAt`, messages of transient thoughts, and
callers whose read and rewrite are separated by another writer (the claim on
the session, and `AgentLoop`, are about that).  `Log` maps the store to `SessionLog`:
`log` is `hist`, `damaged` the sessions that are not clean.  An operation appears to
happen with its last write: what it did before is a stutter there, and so are
locks, reads and crashes between operations.

## 3. Runs

| run | instance | shows | states, time |
|---|---|---|---|
| `bus` | four publishers: two on a full inbound channel, one timed, one without a context; two closers; capacity 1 | no send on a closed channel, Close leaves nothing, refinement of `BusPromise`; Close and the publishers it interrupts return | 182 thousand, 21 s |
| `loop` | three chats and a /stop of one session, two slots, queue of two, shutdown | one turn per session unless robbed, a claim has a live owner, claims are handed on by their owner | 507 thousand, 19 s |
| `loop_live` | a chat whose worker may panic, a /stop and a command of one session, a system message; one slot, queue of one | a panic takes only its own claim; every worker returns; the receiving goroutine returns to its select | 156 thousand, 24 s |
| `turn` | two tool calls, two steering messages, a SubTurn result, an interrupt, a hard abort, hooks, one retry | calls answered, steering kept and in order, bounded iterations, interrupt, abort restores | 1.5 million, 18 s |
| `turn_continue` | a continuation with one steering message taken and two to come, overflow and compaction, two retries | compaction keeps calls with results, the turn ends | 332 thousand, 11 s |
| `subturn` | a root that waits for one SubTurn and spawns another; the first spawns two that compete for one slot, one of which may panic; the model is changed once | the limit holds; a SubTurn ends unless stranded or embraced; a change of the model ends unless there is an embrace | 83 thousand, 26 s |
| `store` | a session and its alias, two goroutines, three messages, two failures | one operation per session, nothing else lost, order, exactness without failures, refinement of `SessionLog` | 1.1 million, 53 s |
| `fallback` | two requests walk two candidates in opposite orders, one of them rate limited; every kind of failure, deadlines, cancellation | a block is never shortened; a block runs out, though requests that had passed the check fail late; every request returns unless overtaken for ever | 601 thousand, 60 s |
| `events` | a publisher that may wait and one that may not, a channel subscriber that drops the oldest, a one-time blocking subscriber, closed at any time | no send on a closed queue, events accounted for, Done means done, a close ends | 736 thousand, 58 s |
| `channels` | one channel, two reloads that change it, switch it off, or fail to build, start or stop it; two messages, each edited in or sent, the Send repeated once; the shutdown | order of delivery, the lock is given back, no message stuck | 686 thousand, 85 s |
| `channels_lost` | one reload, one message | the disagreement of section 5 | small |
| `cron` | one job that three edits add, move, switch; two starts of service objects, a crash or a reload between them | at most one call a time, the file follows, a due job is called | 301 thousand, 32 s |

**Bounds.**  Capacity 1 and queues of one or two are reached with two messages,
so "full" happens; a third message is needed for a placeholder to be removed by
a stranger and claimed again.  Two closers are all that `sync.Once`
distinguishes: the first and the rest.  In `turn`, `MaxIterations = 2` with two
steering messages reaches the iterations beyond the limit; two calls a response
give "the first", "the one under way" and "the skipped rest".  In
`store`, three messages are a torn one, one lost on it, and one that must not
be; two failures let one operation fail on what another has left.  In
`fallback` a backoff of two steps has a first, a later and a last one, and the
window is as long as the longest.  In `channels` two reloads make three instances,
so that calls of two that were stopped meet the third, and deferred functions of
one reload meet the other; two messages and one repetition give an order to
violate and a Send that arrives twice.  A third reload is what a registration that
came late needs to mislead one (section 5); with the calls in flight that is
too many states for a run, and left to the theorem, which has any number.  For
the same reason a reload that misleads a channel is the last (`LastMisleads`).  In
`cron` a service that a reload has stopped still acts and writes when the next
one runs; the third edit is needed to switch a job off and on again.  All unbounded counters
have a bound in a constant: `Steers`, `SubResults`, `MaxRetries`, `MaxMessages`,
`MaxFailures`, `Switches`, `MaxReloads`, `MaxTries`, `MaxEdits`, `MaxLoads`.

The safety properties were also tried on larger instances than time allows a
run to have: five messages and three slots for `loop`, three steering messages
and three calls for `turn`, two slots for `subturn`, queues of two for `events`,
three messages or a setting that is never ready for `channels`, four edits, four starts or two jobs for `cron`.  None was violated.  The liveness property of
`cron` was also tried with a third start (1.0 million states), where a crash follows
a reload.

Liveness properties that speak of something that happens once to each of finitely
many actors are stated as `[]<>` of "none of them is half-way", and not as one
leads-to for each: it is the same for these models, as what is awaited is
permanent or begins only again from the start, and TLC checks one formula in place
of one per actor.

Chat messages of one session and the workers of the store are interchangeable
and are declared symmetric, in runs without temporal properties of
fairness.  The two settings of the channel are interchangeable as well; as that
run has liveness properties, `FromA` of `MCChannelManager` picks a
representative instead.  Deadlock is not checked: in every instance the
messages, reloads or edits run out and the program rests in its select.  What
must not wait for ever is stated by liveness properties.

**Fairness.**  `bus`: a goroutine that has entered Publish or Close goes on (the Go
scheduler runs runnable goroutines, and a timer fires); a mutex is weakly fair
because its holders only take bounded steps.  Nothing is assumed of
readers, of the callers' contexts, or that Close is called.  `loop_live`: the
receiving goroutine and every worker go on, and a turn ends (calls of the
provider and of tools have timeouts); nothing of arrivals, polls, panics or the
shutdown.  `turn_continue`: the goroutine of the turn goes on, its provider and
tools return; nothing of the others.  `subturn`: a call of `spawnSubTurn` goes on,
a turn ends, a writer that can lock does; nobody has to spawn, abort, poll or
switch.  `fallback`: time passes and a call of a provider ends, in an answer or
in the timeout of its HTTP client; nobody has to start a request, and a request
that others always overtake at the bucket is excepted, for `Wait` has no queue.
`events`: publishers, workers and a Close that has begun go on, handlers return;
nobody has to publish, read, cancel or close.  `channels`: the dispatcher, the
workers and the deferred functions go on, an edit or a Send returns, with or
without an error, and `sendWithRetry` gives up after `maxRetries` (`WorkerStep`); nobody
has to publish, reload or stop, and no Stop has to succeed.  `cron`: time
passes, the loop goes on and a handler returns; nobody has to edit or restart.
All of it is weak fairness.

**Mutants.**  Each checked property has a mutant in its module, a definition that
stands right before the one it is a faulty version of and is marked as such.

**Types.**  Every module of the system has a type invariant.  It is proved for each
of the nine, for all values of the constants (section 4), so no run spends a
property on it.

## 4. Proofs

`MessageBusProof` proves for every finite set of messages, every set of
closers and every capacity: the type invariant, that nothing is sent on
a closed channel, that the WaitGroup counts the publishers inside, that Close
leaves nothing behind, and that no publisher enters after the flag is up.  (The
types, the WaitGroup's count and the closed door are what the others rest on; no
run spends a property on them.)

None of these is inductive alone.  Take "no send on a closed channel": a
publisher at its select is safe because Close is not past `wg.Wait`, which is so
because `wg` counts that publisher, which nobody can join late because the
flag is raised under the mutex under which a publisher is admitted.  The
invariant `IInv` names these parts: `TypeOK` and the WaitGroup's count; `Mutex` (who
holds `publishMu`, and where they stand); `SingleCloser` (only the winner
of `sync.Once` is past the start); `FlagMatchesCloser` (`closed` and `done` follow
that closer's position); `AdmittedMeansOpen` (the flag cannot change between the
check and `wg.Add`); `PastWait` (nobody is inside after the wait); `CloseProgress`
(which channels are closed and drained, by the cursor).  Each part has a
lemma for its preservation; `Inductive` puts them together and the
theorems follow.  Assumptions: `BusAssumption` in `MessageBus`, which
TLC evaluates in the run `bus`.  `BusKeepsPromise` is the refinement: under the
same invariant each action is a step of `BusPromise` (accept, reject, take,
discard) or leaves its state alone.

`SessionStoreProof` proves `OneOperationPerSession` for every set of goroutines,
sessions and mutexes, every assignment of sessions to mutexes, and every list of
aliases (`SessionStoreAssumption`).  `OneOperationPerSession` says nothing of a
promotion that waits for its second mutex, so the invariant adds what such a
promotion holds, and that an operation holds the mutex of each session it uses
(`Owns`).  The lemma `Others` shows once for all actions that a step takes nothing
from another worker; the lemmas `Starting`, `Returning`, `GoingOn` and
`PromotionLocks` are the four ways in which a step changes what its own worker
owns.  The theorem does not say that promotions end: they need not
(section 5).

On top of this it proves what the files hold, for any number of failures and
crashes.  `Frame` says that the data of a session change only by the goroutine
that holds its mutex; so each session can be taken by itself, and `Data` says of
one: the messages rise along the file, so that no reader sees one twice or out of
order; what callers were told is stored is in the file behind the skipped lines
or was appended to a torn line; a torn last line is no part of what is owed; and
what an operation still has to write is good whether it is written or given up,
which is what a crash or a failed write decides.  A session is `clean` if its file
and metadata agree with `hist` exactly, but for an operation half-way.
`NothingElseIsLost`, `VisibleInOrder` and `ExactWhenClean` follow.

`StoreKeepsLog` is the refinement of `SessionLog`: each action of the store is a
step of the plain logs or a stutter.  It rests on `Data`, which says what an operation
half-way may still do to `hist`: the lines of a pending rewrite are in order, lack
nothing that is owed, and in a clean session are the messages of `hist` exactly
(`Rewriting`); the lines of a pending promotion are those of its alias (`Promoting`).
As operations are excluded per session, nobody changes that in between.  In a clean
session what a reader sees is `hist` itself, as both rise and have the same
messages; so a truncation leaves an end or a beginning of it.

`NoLockIsLeakedHolds` says that a goroutine holds exactly the mutexes that its
operation needs, which is the other half of `Owns`: none stays locked behind a return,
a failed write or a crash.  For this each lock is charged to the operation that
took it (`LocksOf`); a promotion whose two keys are on one mutex takes it once.

`AgentLoopProof` proves, for any messages, sessions, slots and queues, that one
turn of a session runs at a time unless the session was robbed, that a claim
passes to nobody but its owner, that a panic takes only its own entry, and, if no
worker panics, that every claim has a live owner.  What is inductive is where a
worker must own the entry of its session (`Owns`) and where the owner of an entry
can be (`Entries`); a message of the receive loop has a session of its own and is
handled one at a time (`Systems`, from `AgentLoopAssumption`).  Four lemmas cover
all that can happen to the map: a step that leaves it alone, a delete, a claim
by LoadOrStore, and the unconditional store of `registerActiveTurn`.
`SlotsAreUsedHolds` accounts for `workerSem`: the slots in use are those of the workers at
work, so that no path through panics, the wait for a slot with its timeout, or the
bail-outs of a worker loses one or gives one back twice.

`TurnLoopProof` proves two bounds for any limits.  The loop condition of `runTurn`
does not bound the iterations by `MaxIterations`, so the invariant is a ledger
(`Paid`): each iteration beyond the limit is paid with a steering message that
left the queues for good, or with the interrupt, which is used once.  `Late` says
that a turn which has started a tool after an interrupt is at a place from which
no further tool can start.

It also proves what becomes of the conversation, each part from an invariant of
its own over `Places`, which says where in a turn the two copies of pending
steering are empty or the same.  `Restorable`: the history, and the copy of it
that a hard abort has read, begin with the conversation before the turn, and
what the turn wrote lies behind it, so that either cut restores it.  `Steering`:
the messages that arrived are numbered without a gap through the conversation,
`exec.pendingMessages` and the queue; the coordinator's copy can only say a batch
again behind its first time.  `Talk`: while the tools of an iteration run, its
calls from the next one on are open, and everything else in the conversation has
its one result.

The rollback and the two theorems about steering suppose `~MayOverflow`:
`forceCompression` drops the front of the conversation, and with it steering
that was there, and moves the restore point.  What survives a compaction is the
pairing of calls and results, for any number of earlier turns, whatever steering,
interrupts and hard aborts come, as long as no SubTurn result is injected (`SubResults = 0`;
section 5 says what happens else).  `CompactionKeepsPairs` is proved from `Cuttable`:
no message of role "user" stands between a call and its result, the calls of the
current iteration are behind all of them, and the session, and what a hard abort
makes of it, begins with one while a call may overflow; so every place where
`forceCompression` can cut is the start of a turn.  `EveryCallIsAnswered` is proved
with `~MayOverflow` or with `SubResults = 0`.  In the second case the conversation is
rebuilt from the compacted session, from the start of a turn or from where
`matchingTurnMessageTail` finds the turn's own messages.  `Heard` says that the
conversation, the session and that tail of it answer every call: what is said
extends the longest common tail, and a cut leaves the tail as it is or shortens
it to what is left of the session.  The rollback also supposes `DefaultAgent`,
since it does not hold for a routed agent (section 5).

`SubTurnProof` proves that no SubTurn has more children under way than slots, for
any tree of turns.  The semaphore is a count, the holders are a set; the invariant
ties them (`Counted`), says who may and who must hold a slot (`Slotted`), and that
a parent waits for one child at a time (`Waits`), without which the return of a
child could set a parent running that waits for another.  With it
`EmbraceIsForeverHolds` backs the finding of section 5 that nothing leads out of the
embrace: the turns that are in a call contain whoever waits for one of them, so
the reader that the writer waits for is in a call and cannot give its mutex back.
For this argument `WaitingFor` is the least set closed under waiting, and not a
recursive function.  `ReleaseNeverBlocks` follows from `Counted`: who gives a slot back
finds a token to take out.

`HandedOverOnceHolds` is about results: that of a SubTurn which its parent waits for is
returned, that of another is in its parent's channel, in no other and not twice,
until it is read.  The invariant `Handed` says what a result's fate can be at each place
of its SubTurn, and that a channel holds a result exactly if its fate is to be
queued.  `ModelMutexHolds` says that the readers of a model mutex are the turns
inside `runTurn`, through every panic and abort, and that no writer holds it with them.

`TimersProof` is about the two components that count time down, and extends both,
for which the parts of `Fallback`'s specification carry its name.  It proves that no
failure brings the end of a block forward, and that every block runs out, for any
requests, chains, tables and buckets.  A
failure overwrites an expiry, so one must know that the old one was not longer:
the ledger says that what is left of a block and the age of the last failure
together never exceed the backoff of the count.  The counts grow with every
failure, and are reset only after a window that no backoff exceeds
(`BackoffAssumption`, which TLC evaluates, also for the tables of the code).  The same
ledger gives `BlocksEndHolds`: what is left of a block and the age of the last failure
stay within the failure window, whatever kinds of failure are mixed.  `BlocksRunOutHolds`
is about the requests that had passed the check when the block began and fail while
it lasts.  Its measure is `Patience`: what is left of the block, and one failure window
for each of those requests.  A late failure sets an expiry of at most a window and
spends the passage of its request (`FailureSpends`), no request gets past the check
(`BlockedDrains`), and so the measure never grows and falls with every tick.  `BucketsHold`
is about the token buckets, whose tokens stay between nothing and the burst.

Of the cron service it proves that the file is what the running service that
wrote it last holds, and that the time of a one-time job leads to at most one call,
for any jobs, edits, service objects, reloads and crashes.  The second is about
copies: a job is in the file, in the memory of each service, of which a reload
leaves several, and in a client's clone.  Each edit of a time has a number, and
the invariant says of a number: copies that carry it are copies of one job with
one time (`SchedulesOK`); once it was called or collected, the time has come in
every copy (`OneTimeOK`), from which `computeNextRun` makes no next run any more; a
number that a client has reserved is nowhere else yet (`NumbersOK`); it is called
at most once and collected only if not called (`OnceOK`).  `MemOK` and `CopyOK` say
that a job of the running service, or the clone that a client will write back to
it, has a next run after its time only while its call is still pending there.

`EventBusProof` proves that nothing is sent on a closed queue, that every event of
an open subscription is accounted for, and that Done means done, for any
publishers, subscriptions, policies and capacities: from what a publisher
inside the lock or the WaitGroup may rely on (`Reliance`), and the count of the
events in publishers' hands (`Accounted`), which is a cardinality that each step
of a publisher changes by one member.

`ChannelManagerProof` proves that a channel delivers in the order of publication,
for any channels, settings, reloads, queues, messages and repetitions of a Send, but
for calls that outlive a Stop, and unless a reload was misled about the channel or
failed to stop its old instance.  On its way to a worker a message is overtaken by
none (`Flow`, `Queued`).  Several workers of a channel may hold messages, and be in a
call, at once: the older worker holds the older ones (`Older`), for a new worker
begins with an empty queue (`Born`, `Routed`) and what the dispatcher holds is later
than all that has passed it.  One instance runs (`One`), one worker serves it
(`Serves`), and a call of any other is late (`Calling`).  Nothing that has arrived, in
time or late, is later than what that worker has in hand or in its queue (`Ahead`):
its own calls come one after the other, a repeated one is of the same message, and a
late one is of an older worker.  So what it delivers follows all that was delivered
(`Ordered`).

`HolderLeavesHolds` is the safety half of `LockIsReleased`.  StopAll and the deferred
`UnregisterChannel` wait for workers while they hold `Manager.mu`; the invariant
`AtLock` says that each of them was started and has a closed queue, whatever reloads,
registrations and sends of the dispatcher fall in between.  That such a worker ends,
and with it the wait, is the liveness half, which TLC checks.

The type invariants are `BusTypeOK`, `AgentLoopTypes`, `TurnLoopTypes`, `SubTurnTypes`,
`StoreTypes`, `FallbackTypes`, `CronTypes`, `EventBusTypes` and `ChannelManagerTypes`.
Most rest on the invariants
above, as a bound is seldom a matter of types: no queue exceeds its capacity,
for only who has looked may append; a retry is counted where one is left; and what
`forceCompression` leaves of a conversation is one because the middle
boundary it cuts at exists.

Only model-checked: liveness, that is, everything that says that something ends
(`CloseTerminates`, `PublishReturns`, `WorkersReturn`, `MainReturns`, `TurnEnds`,
`SpawnEnds`, `ModelChangeEnds`, `EveryRequestReturns`, `CloseEnds`, `LockIsReleased`,
`EveryMessageSettles`, `DueJobRuns`).  `StartedHasWorker` is false.  Of steering and
the rollback after a compaction nothing is claimed; no run with `MayOverflow`
checks them.

Some proofs need induction over data, for which the library's theorems cannot be
used here.  Where a sequence is the matter it is replaced by the least element
of a set of positions, or the greatest (`SessionStoreProof`, `TurnLoopProof`,
`TimersProof`), which the well-foundedness of the naturals gives.  What a reader
of a session sees is the recursive function `Kept` for this reason, and not
`SelectSeq`, whose definition is recursive and unknown to the prover.

## 5. What the models found

One run is expected to violate its property:

| run | property | what happens |
|---|---|---|
| `channels_lost` | `StartedHasWorker` | `compareChannels` lists a changed channel as removed and as added.  `Reload` starts an instance (the new one, or, as in the trace, the old one again when its factory fails) and a worker, and its deferred `UnregisterChannel` then closes and deletes the worker the map has by now, the one just started (`manager.go:2000`, `:2039`); `RegisterChannel` puts only the instance back.  The channel runs without a worker, and its messages are dropped.  `manager.go:2138` says of a channel without a worker "should not happen" |

What follows was seen in the models, each with a small instance, and is the
reason why some properties are stated with an exception.

Agent loop and turns:

- the safety net at the end of a worker (`agent.go:259`, and `:239`, `:287`) deletes
  any placeholder it finds, also of the message that claimed the session just
  then; a third message claims again and two turns run, against `agent.go:77` and
  `:197-198`.  `robbed` marks these sessions;
- a message queued between the last look at the queue (`agent_steering.go:74`) and
  the release of the claim is not processed until another message comes, against
  `steering_test.go:850`;
- steering that arrives during a direct answer is held in `pendingMessages` and in
  `exec.pendingMessages`, and both are injected (`turn_coord.go:207`, against
  `:185-186`);
- a hard abort that cuts a backoff short (`pipeline_llm.go:415`), or comes after the
  last check, ends in a final response appended after the rollback, against
  `steering_test.go:1668` and `:1680`;
- a pending stop is armed after its target has passed the check, and stops a
  later message (`agent_stop.go:30-33`);
- a panic inside a continuation leaves its placeholder for good: with `Panics`
  in the instance `loop`, `ClaimHasLiveOwner` is violated (`agent.go:248`); the
  theorem has `Panics = {}` as hypothesis;
- the history of a routed agent is read from the default agent's store and
  becomes the restore point: with `DefaultAgent = FALSE`,
  `AbortRestoresHistory` is violated (`context_legacy.go:27`);
- a SubTurn result between two tool results counts as the start of a turn, where
  compaction cuts: with `SubResults = 1` and `MayOverflow = TRUE`,
  `CompactionKeepsPairs` is violated (`pipeline_execute.go:774`).

SubTurns:

- `newTurnState` gives a root neither an agent loop nor a channel for results, so
  the cascade of a hard abort visits no child, against `steering.go:504-506`, and
  every result for a root is an orphan;
- nobody calls Finish for a SubTurn, so a delivery to a SubTurn that has returned
  blocks for ever once its channel is full (`Stranded`), against
  `subturn.go:573-576`;
- `runTurn` takes the model mutex for reading, as its waiting parent did
  (`turn_coord.go:19`).  A writer that asks in between (`agent_command.go:305`,
  `instance.go:697`) makes the child wait for the writer, the writer for the
  parent and the parent for the child, and no timeout or abort is looked at
  (`Embraced`).

Session store:

- an append after a torn one continues the torn line: it succeeds, and the
  joined line is skipped as corrupt by every reader (`jsonl.go:623`, against
  `:63-64`);
- `lockSessionPair` orders two locks by key, but the locks are shards of a hash:
  two promotions can take the same two in opposite orders (`jsonl.go:370`, against
  `:230-231`);
- `jsonl.go:822` says that the next Compact corrects an interrupted one, but
  Compact returns at once when skip is 0, which the interrupted one has written;
  only truncation or a rewrite corrects it;
- a promotion that dies between its two writes leaves the messages without the
  summary, and is not tried again, as the session now has content; the messages
  appended next are hidden if the old metadata skipped lines (`InVain`).

Fallback:

- a deadline that has passed is retriable: the request goes on down the chain, and
  every remaining candidate is put into cooldown for a timeout of the caller's;
- a success that comes late clears the block a newer failure has set
  (`cooldown.go:68`); `NeverShortened` excepts a success;
- a request at a bucket whose tokens others always take waits until its context
  ends: `Wait` has no queue (`ratelimiter.go:43`).

Runtime events:

- two publishers that find a DropOldest queue full evict two events for one
  (`subscription.go:455`), against the comment at `:53`; both are counted;
- the program publishes with `PublishNonBlocking` only, so the Block policy of
  `evolution_bridge.go:247` drops.

Channel manager:

- a registration of an older reload that runs late (`manager.go:2024`) puts its
  stopped instance back into the map; the next reload stops that one, and the
  instance that runs goes on beside its successor, so that messages overtake
  each other.  A reload that cannot make a new instance starts whichever it
  finds.  `misled` marks these channels;
- Stop does not wait for a Send or an edit that is under way (`telegram.go:194`, called
  at `manager.go:1937`): a call of the stopped instance can arrive after its
  successor has delivered a later message; an edit is even begun through an
  instance that was stopped before, as preSend asks nobody (`manager.go:498`).
  `DeliveredInOrder` excepts what is `late`;
- the error of a Stop is only logged (`manager.go:1937`), and the instance that did not
  stop delivers beside its successor; `misled` marks these channels as well;
- a Send that reports an error and arrived all the same is repeated
  (`manager.go:1592`), as is an edit by a Send, and the message arrives twice;
- a channel that is enabled and has no instance makes the next reload call Stop
  or Start on nil, a panic in the gateway's goroutine (`crashed`);
- the dispatcher keeps the context of `StartAll`, which a reload replaces, so that
  StopAll after a reload does not stop it, and it may send on a queue that is
  closed;
- StopAll cancels the context before it waits for the workers, which may drop
  what they were to drain, against `manager.go:1402`;
- a Start that fails commits the new hash all the same, and is not tried again.

Cron:

- `UpdateJob` writes a clone back whose next run is older than what the service
  has by then (`service.go:470`; `service_test.go:224` expects the next run to be preserved);
- a one-time job that is rescheduled while it runs is removed when that run ends;
- a job whose process dies between collection and call does not run: the file
  has no next run for it any more;
- the loop of a service that a reload has stopped, and a tool of a turn that began
  before the reload, write the whole file from their old memory; what the new
  service saved meanwhile is gone (`FileFollows` excepts it by `savedBy`).

## 6. What a continuation would do

1. The summarisation goroutine (`context_legacy.go:249`) against turns, Clear and
   promotion, on top of `SessionStore`'s operations.
2. The fate of every accepted message across `AgentLoop`: messages that `Continue`
   has dequeued when `runAgentLoop` fails (`steering.go:397`), stops that are armed
   late (`agent_stop.go:32`), system messages on a session of routed messages
   (`agent.go:189`).
3. The sequence of turns of a session: a call that a hook left unanswered
   (`pipeline_execute.go:429`), a rollback that meets a turn still writing
   (`steering.go:544`).
4. The media workers and streams of the channel manager.
5. Proofs: what becomes of steering and of the restore point in a compaction.

Further hazards of the modelled code: a path through publish that forgets
`wg.Done` (`bus.go:150`), about which only the theorem `BusWaitGroup` is; a session
that /clear has emptied is promoted into again (`jsonl_backend.go:92`); a line too
long for the scanner makes a session unreadable (`jsonl.go:500`).

## 7. Not modelled

The models take the parts in which several actors meet over shared state inside
this program, which is a small share of its lines.  Most of the rest is
I/O or presentation, where an action would be a call with an arbitrary outcome
and a property would hold by construction:

- drivers of channels and providers, web search, media, audio, devices:
  translation to and from services whose behaviour is not in the repository;
- the web cockpit, command line, installer, updater: handlers over files and
  processes, pages and dialogues;
- configuration, migration, credentials, authentication: parsing and conversion
  of files, and token exchange with remote services;
- seahorse and the evolution of skills: SQL and texts of a model; their
  transactions are SQLite's, their decisions the model's;
- MCP, modules, process supervision: what happens on a reconnect or a dead child
  is decided by an SDK or the operating system.

Of the components that are modelled, these operations are left out.  Agent loop:
reload of providers, `InterruptHard`, `InjectFollowUp`, `InjectSteering`.  Turn loop:
side questions, turns without history, streaming, a change of model inside a
call.  SubTurns: their ephemeral session.  Session store: key resolution,
metadata of scope and aliases, migration.  Fallback: the chain for images, which
checks no cooldown, and the patterns that classify an error.  Events: filters,
priorities, statistics.  Channel manager: media queues, `SendMessage` and its kin,
the janitor of placeholders, streams, the HTTP server.  Cron: cron expressions (a
period stands for them), a file that cannot be written, the command line that
edits the same file.

Out of the prover's reach, and therefore of TLC only: liveness under fairness,
ENABLED, and what a RECURSIVE operator computes.
