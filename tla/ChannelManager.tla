--------------------------- MODULE ChannelManager ---------------------------
(* The channel manager (src/pkg/channels/manager.go): one worker with a      *)
(* queue per channel, a dispatcher that routes the bus's outbound messages   *)
(* to the workers, StartAll, StopAll, and the hot reload that replaces       *)
(* channels while messages flow.                                             *)
(*                                                                           *)
(* A generation is the start of the program (0) or a Reload.  At most one    *)
(* instance of a channel and one worker for it are made in a generation, so  *)
(* <<name, generation>> names either.                                        *)
EXTENDS Integers, Sequences, FiniteSets

CONSTANTS
  Names,        \* channel names
  Settings,     \* the configurations of an enabled channel; its hash tells them apart
  Incomplete,   \* those that are enabled but not ready: a missing token
  MaxReloads,   \* bound on the reloads
  MaxMessages,  \* bound on the outbound messages
  QueueSize,    \* capacity of a worker's queue
  MaxTries      \* how often a Send is repeated (maxRetries)

ASSUME ConstantsAssumption ==
  /\ Incomplete \subseteq Settings
  /\ MaxReloads \in Nat /\ MaxMessages \in Nat
  /\ QueueSize \in Nat \ {0} /\ MaxTries \in Nat

Gens == 0 .. MaxReloads
None == -1           \* no entry in a map
Off == "off"         \* a channel that is not enabled
Free == <<>>

VARIABLES
  phase,      \* "new", "serving", "stopping", "stopped"; "crashed" after a panic
  mu,         \* who waits inside Manager.mu: Free, StopAll or <<generation, name>>
  gen,        \* the latest generation
  hashes,     \* Manager.channelHashes
  channels,   \* Manager.channels: generation of the instance
  workers,    \* Manager.workers: generation of the worker
  up,         \* the instances that run, as <<name, generation>>
  misled,     \* history: the names of which a reload stopped or started the wrong instance,
              \* or failed to stop the old one
  worker,     \* channelWorker, by name and generation
  call,       \* what the worker's goroutine does with the message it has taken
  todo,       \* the deferred functions of each Reload that are still to run
  canceled,   \* the dispatch contexts canceled, by generation
  task,       \* Manager.dispatchTask: the context it would cancel
  outbound,   \* the bus's outbound channel
  dispatch,   \* the dispatcher: "idle", "taken", "send" or "stopped", with what it holds
  published,  \* how many messages have been published
  log         \* the messages delivered, late when the instance was no longer to deliver them

life == <<phase, mu, gen, misled, hashes, task>>
maps == <<channels, workers, up>>
traffic == <<outbound, dispatch, published>>
delivery == <<call, log>>
vars == <<phase, mu, gen, misled, hashes, channels, workers, up, worker, call, todo,
          canceled, task, outbound, dispatch, published, log>>

Idle == [at |-> "idle"]
NoWorker == [state |-> "none", serves |-> None, queue |-> <<>>, closed |-> FALSE]
NoCall == [at |-> "none"]
NewWorker(instance) == [NoWorker EXCEPT !.state = "run", !.serves = instance]
Serving == phase \notin {"new", "crashed"}
Registered == {<<n, workers[n]>> : n \in {n \in Names : workers[n] # None}}

Instances == Names \X Gens
Maybe == Gens \cup {None}
Message == [to : Names, id : 1 .. MaxMessages]
Worker == [state : {"none", "run", "end"}, serves : Maybe, queue : Seq(Message), closed : BOOLEAN]
UnderWay == {"edit", "send"}   \* calls of the instance, on the network
Call == {NoCall} \cup [at : {"wait", "try"} \cup UnderWay, msg : Message,
                       tries : 0 .. MaxTries, late : BOOLEAN]
Delivered == [to : Names, id : 1 .. MaxMessages, late : BOOLEAN]

TypeOK ==
  /\ phase \in {"new", "serving", "stopping", "stopped", "crashed"}
  /\ mu \in {Free, <<"StopAll">>} \/ mu \in Gens \X Names
  /\ gen \in Gens /\ task \in Maybe /\ canceled \subseteq Gens
  /\ hashes \in [Names -> Settings \cup {Off}]
  /\ channels \in [Names -> Maybe] /\ workers \in [Names -> Maybe]
  /\ up \subseteq Instances /\ misled \subseteq Names
  /\ worker \in [Instances -> Worker] /\ call \in [Instances -> Call]
  /\ todo \in [Gens -> [unregister : SUBSET Names, register : SUBSET Instances]]
  /\ outbound \in Seq(Message) /\ log \in Seq(Delivered) /\ published \in 0 .. MaxMessages
  /\ dispatch.at \in {"idle", "taken", "send", "stopped"}
  /\ \A w \in Instances : Len(worker[w].queue) <= QueueSize

(* NewManager: a channel that is ready has an instance, unless its factory   *)
(* fails.                                                                    *)
Init ==
  /\ hashes \in [Names -> Settings \cup {Off}]
  /\ channels \in [Names -> {None, 0}]
  /\ \A n \in Names : hashes[n] \in Incomplete \cup {Off} => channels[n] = None
  /\ phase = "new" /\ mu = Free /\ gen = 0
  /\ workers = [n \in Names |-> None]
  /\ up = {} /\ misled = {}
  /\ worker = [w \in Instances |-> NoWorker] /\ call = [w \in Instances |-> NoCall]
  /\ todo = [g \in Gens |-> [unregister |-> {}, register |-> {}]]
  /\ canceled = {} /\ task = None
  /\ outbound = <<>> /\ dispatch = Idle /\ published = 0
  /\ log = <<>>

-----------------------------------------------------------------------------
(* Starting, reloading and stopping.                                         *)

(* The workers of the channels that started, under the context of g.        *)
StartWorkers(g, started, instance) ==
  /\ workers' = [n \in Names |-> IF n \in started THEN g ELSE workers[n]]
  /\ worker' = [w \in Instances |->
       IF w[2] = g /\ w[1] \in started THEN NewWorker(instance[w[1]]) ELSE worker[w]]

(* Any channel may fail to start; if all do, the program ends.               *)
StartAll ==
  /\ phase = "new"
  /\ LET known == {n \in Names : channels[n] # None}
     IN \E started \in SUBSET known :
          /\ known # {} => started # {}
          /\ StartWorkers(0, started, channels)
          /\ up' = {<<n, 0>> : n \in started}
  /\ phase' = "serving" /\ task' = 0
  /\ UNCHANGED <<mu, gen, misled, hashes, channels, todo, canceled, traffic, delivery>>

(* compareChannels: a changed channel is in both.                            *)
Removed(new) == {n \in Names : hashes[n] # Off /\ new[n] # hashes[n]}
Added(new) == {n \in Names : new[n] # Off /\ new[n] # hashes[n]}

(* A Stop or Start on a nil channel, in the gateway's main goroutine.        *)
Crash ==
  /\ phase' = "crashed"
  /\ UNCHANGED <<mu, gen, misled, hashes, task, maps, worker, todo, canceled, traffic, delivery>>

(* The instances after initChannels: a factory may fail, and a channel that  *)
(* is not ready has none made, so that its old one stays in the map.         *)
AfterInit(made) == [n \in Names |-> IF n \in made THEN gen + 1 ELSE channels[n]]

(* Only the channels that are gone would be stopped.                         *)
StopsTheGone(new) == {<<n, channels[n]>> : n \in {n \in Removed(new) : new[n] = Off}}

Stops(new) == {<<n, channels[n]>> : n \in Removed(new)}

(* A Reload that cancels the context it replaces.                            *)
CancelTask == task' = gen + 1 /\ canceled' = canceled \cup {task}

(* The context of the latest reload takes the place of the one before, which *)
(* is not canceled.                                                          *)
ReplaceTask == task' = gen + 1 /\ UNCHANGED canceled

(* The registration of an older reload, late, can hide the instance that     *)
(* runs, and the next reload then stops the wrong one; and a reload that has *)
(* no new instance starts the one it finds in the map.                       *)
Misled(new, after) ==
  {n \in Removed(new) : \E c \in up : c[1] = n /\ c[2] # channels[n]}
    \cup {n \in Added(new) : after[n] # gen + 1}

(* Stop does not wait for the calls of an instance that are under way.       *)
Overtake(stopped) ==
  call' = [w \in Instances |->
    IF call[w].at \in UnderWay /\ <<w[1], worker[w].serves>> \in stopped
    THEN [call[w] EXCEPT !.late = TRUE] ELSE call[w]]

(* Stop what is removed, start what is added, and leave the maps to the      *)
(* deferred functions.  The error of a Stop is only logged, and an instance  *)
(* that is stuck goes on running.                                            *)
Replace(new, after, started, stuck) ==
  /\ channels' = after
  /\ up' = (up \ (Stops(new) \ stuck)) \cup {<<n, after[n]>> : n \in started}
  /\ Overtake(Stops(new) \ stuck)
  /\ StartWorkers(gen + 1, started, after)
  /\ todo' = [todo EXCEPT ![gen + 1] =
       [unregister |-> Removed(new), register |-> {<<n, after[n]>> : n \in started}]]
  /\ misled' = misled \cup Misled(new, after) \cup {c[1] : c \in stuck}
  /\ ReplaceTask
  /\ gen' = gen + 1 /\ hashes' = new
  /\ UNCHANGED <<phase, mu, traffic, log>>

(* Reload, under the lock; a channel without an instance ends the program.   *)
Reload ==
  /\ phase = "serving" /\ mu = Free /\ gen < MaxReloads
  /\ \E new \in [Names -> Settings \cup {Off}] :
     \E made \in SUBSET {n \in Added(new) : new[n] \notin Incomplete} :
       LET after == AfterInit(made)
       IN IF \/ \E n \in Removed(new) : channels[n] = None
             \/ \E n \in Added(new) : after[n] = None
          THEN Crash
          ELSE \E started \in SUBSET Added(new), stuck \in SUBSET (Stops(new) \cap up) :
                 Replace(new, after, started, stuck)

Close(ws) ==
  worker' = [w \in Instances |->
               [worker[w] EXCEPT !.closed = @ \/ w \in ws]]

Forget(n) ==
  /\ workers' = [workers EXCEPT ![n] = None]
  /\ channels' = [channels EXCEPT ![n] = None]

(* An UnregisterChannel that waits for a worker whose queue it left open.    *)
UnregisterLeavesOpen(g, n) ==
  /\ Serving /\ mu = Free /\ n \in todo[g].unregister
  /\ IF workers[n] = None
     THEN /\ Forget(n)
          /\ todo' = [todo EXCEPT ![g].unregister = @ \ {n}]
          /\ UNCHANGED mu
     ELSE mu' = <<g, n>> /\ UNCHANGED <<channels, workers, todo>>
  /\ UNCHANGED <<phase, gen, misled, hashes, task, up, worker, canceled, traffic, delivery>>

(* UnregisterChannel, in Reload's goroutine: it closes the queue of whatever *)
(* worker the map now has and waits for it, holding the lock.  A queue that  *)
(* StopAll has closed makes it panic, which ends the goroutine.              *)
Unregister(g, n) ==
  /\ Serving /\ mu = Free /\ n \in todo[g].unregister
  /\ \/ /\ workers[n] = None
        /\ Forget(n)
        /\ todo' = [todo EXCEPT ![g].unregister = @ \ {n}]
        /\ UNCHANGED <<mu, worker>>
     \/ /\ workers[n] # None /\ worker[<<n, workers[n]>>].closed
        /\ todo' = [todo EXCEPT ![g] = [unregister |-> {}, register |-> {}]]
        /\ UNCHANGED <<mu, worker, channels, workers>>
     \/ /\ workers[n] # None /\ ~ worker[<<n, workers[n]>>].closed
        /\ Close({<<n, workers[n]>>})
        /\ mu' = <<g, n>>
        /\ UNCHANGED <<channels, workers, todo>>
  /\ UNCHANGED <<phase, gen, misled, hashes, task, up, canceled, traffic, delivery>>

UnregisterDrained(g, n) ==
  /\ Serving /\ mu = <<g, n>>
  /\ worker[<<n, workers[n]>>].state = "end"
  /\ Forget(n)
  /\ todo' = [todo EXCEPT ![g].unregister = @ \ {n}]
  /\ mu' = Free
  /\ UNCHANGED <<phase, gen, misled, hashes, task, up, worker, canceled, traffic, delivery>>

(* RegisterChannel, once the goroutine has unregistered what it had to.      *)
Register(g) ==
  /\ Serving /\ mu = Free /\ todo[g].unregister = {}
  /\ \E c \in todo[g].register :
       /\ channels' = [channels EXCEPT ![c[1]] = c[2]]
       /\ todo' = [todo EXCEPT ![g].register = @ \ {c}]
  /\ UNCHANGED <<life, workers, up, worker, canceled, traffic, delivery>>

(* StopAll cancels the latest context, closes the queues, waits for the      *)
(* workers and stops the channels.                                           *)
StopAll ==
  /\ phase = "serving" /\ mu = Free
  /\ phase' = "stopping" /\ mu' = <<"StopAll">>
  /\ canceled' = canceled \cup {task} /\ task' = None
  /\ Close(Registered)
  /\ UNCHANGED <<gen, misled, hashes, maps, todo, traffic, delivery>>

StopAllDrained ==
  /\ phase = "stopping"
  /\ \A w \in Registered : worker[w].state = "end"
  /\ \E stopped \in SUBSET {<<n, channels[n]>> : n \in Names} :
       up' = up \ stopped /\ Overtake(stopped)
  /\ phase' = "stopped" /\ mu' = Free
  /\ UNCHANGED <<gen, misled, hashes, channels, workers, worker, todo, canceled, task,
                 traffic, log>>

-----------------------------------------------------------------------------
(* Messages.  They are numbered in the order of their publication.           *)

Publish(n) ==
  /\ Serving /\ published < MaxMessages
  /\ published' = published + 1
  /\ outbound' = Append(outbound, [to |-> n, id |-> published'])
  /\ UNCHANGED <<life, maps, worker, todo, canceled, dispatch, delivery>>

(* dispatchLoop: the next message, unless its context, that of StartAll, is  *)
(* canceled; with both ready either may be chosen.                           *)
Take ==
  /\ Serving /\ dispatch.at = "idle" /\ outbound # <<>>
  /\ dispatch' = [at |-> "taken", msg |-> Head(outbound)]
  /\ outbound' = Tail(outbound)
  /\ UNCHANGED <<life, maps, worker, todo, canceled, published, delivery>>

(* The worker is looked up under the lock ...                                *)
LookUp ==
  /\ Serving /\ mu = Free /\ dispatch.at = "taken"
  /\ LET n == dispatch.msg.to
     IN dispatch' = IF channels[n] = None \/ workers[n] = None THEN Idle
                    ELSE [at |-> "send", msg |-> dispatch.msg, to |-> <<n, workers[n]>>]
  /\ UNCHANGED <<life, maps, worker, todo, canceled, outbound, published, delivery>>

(* ... and sent to after it: by then its queue may be closed, which ends the *)
(* program.                                                                  *)
Enqueue ==
  /\ Serving /\ dispatch.at = "send"
  /\ LET w == dispatch.to
     IN IF worker[w].closed
        THEN /\ phase' = "crashed"
             /\ UNCHANGED <<worker, dispatch>>
        ELSE /\ Len(worker[w].queue) < QueueSize
             /\ worker' = [worker EXCEPT ![w].queue = Append(@, dispatch.msg)]
             /\ dispatch' = Idle
             /\ UNCHANGED phase
  /\ UNCHANGED <<mu, gen, misled, hashes, task, maps, todo, canceled, outbound,
                 published, delivery>>

DispatcherStops ==
  /\ Serving /\ 0 \in canceled /\ dispatch.at \in {"idle", "send"}
  /\ dispatch' = [at |-> "stopped"]
  /\ UNCHANGED <<life, maps, worker, todo, canceled, outbound, published, delivery>>

(* runWorker takes the next message; sendWithRetry waits for the limiter.    *)
Dequeue(w) ==
  /\ Serving /\ worker[w].state = "run" /\ call[w] = NoCall /\ worker[w].queue # <<>>
  /\ worker' = [worker EXCEPT ![w].queue = Tail(@)]
  /\ call' = [call EXCEPT ![w] =
       [at |-> "wait", msg |-> Head(worker[w].queue), tries |-> 0, late |-> FALSE]]
  /\ UNCHANGED <<life, maps, todo, canceled, traffic, log>>

Served(w) == <<w[1], worker[w].serves>>

(* The context ends the wait for the limiter or the next attempt, or preSend *)
(* leaves out what a stream has shown.                                       *)
GivesUp(w) ==
  /\ Serving
  /\ \/ call[w].at = "wait"
     \/ call[w].at = "try" /\ call[w].tries > 0 /\ w[2] \in canceled
  /\ call' = [call EXCEPT ![w] = NoCall]
  /\ UNCHANGED <<life, maps, worker, todo, canceled, traffic, log>>

(* preSend edits the placeholder, and nobody asks whether the channel runs.  *)
BeginEdit(w) ==
  /\ Serving /\ call[w].at = "wait"
  /\ call' = [call EXCEPT ![w].at = "edit", ![w].late = Served(w) \notin up]
  /\ UNCHANGED <<life, maps, worker, todo, canceled, traffic, log>>

(* Send asks once, at its beginning.                                         *)
BeginSend(w) ==
  /\ Serving /\ call[w].at \in {"wait", "try"}
  /\ call' = IF Served(w) \in up
             THEN [call EXCEPT ![w].at = "send", ![w].late = FALSE]
             ELSE [call EXCEPT ![w] = NoCall]
  /\ UNCHANGED <<life, maps, worker, todo, canceled, traffic, log>>

Land(w) == log' = Append(log, [to |-> w[1], id |-> call[w].msg.id, late |-> call[w].late])

(* An edit that fails, whether or not it arrived, is followed by a Send,     *)
(* unless a stream has shown the message.                                    *)
EditReturns(w) ==
  /\ Serving /\ call[w].at = "edit"
  /\ Land(w) \/ UNCHANGED log
  /\ \/ call' = [call EXCEPT ![w] = NoCall]
     \/ call' = [call EXCEPT ![w].at = "try"]
  /\ UNCHANGED <<life, maps, worker, todo, canceled, traffic>>

(* A Send that reports an error may have arrived all the same.  It is        *)
(* repeated unless the error is permanent.                                   *)
SendReturns(w) ==
  /\ Serving /\ call[w].at = "send"
  /\ Land(w) \/ UNCHANGED log
  /\ \/ call' = [call EXCEPT ![w] = NoCall]
     \/ /\ call[w].tries < MaxTries
        /\ call' = [call EXCEPT ![w].at = "try", ![w].tries = @ + 1]
  /\ UNCHANGED <<life, maps, worker, todo, canceled, traffic>>

(* A closed queue that is empty, or the context, whichever select finds.     *)
WorkerEnds(w) ==
  /\ Serving /\ worker[w].state = "run" /\ call[w] = NoCall
  /\ \/ worker[w].queue = <<>> /\ worker[w].closed
     \/ w[2] \in canceled
  /\ worker' = [worker EXCEPT ![w].state = "end"]
  /\ UNCHANGED <<life, maps, todo, canceled, traffic, delivery>>

-----------------------------------------------------------------------------
DispatcherStep == Take \/ LookUp \/ Enqueue \/ DispatcherStops
DeferredStep(g) ==
  \/ \E n \in Names : Unregister(g, n) \/ UnregisterDrained(g, n)
  \/ Register(g)
WorkerStep(w) ==
  \/ Dequeue(w) \/ GivesUp(w) \/ BeginEdit(w) \/ BeginSend(w)
  \/ EditReturns(w) \/ SendReturns(w) \/ WorkerEnds(w)

Next ==
  \/ StartAll \/ Reload \/ StopAll \/ StopAllDrained
  \/ \E n \in Names : Publish(n)
  \/ DispatcherStep
  \/ \E g \in Gens : DeferredStep(g)
  \/ \E w \in Instances : WorkerStep(w)

Spec == Init /\ [][Next]_vars

(* Runnable goroutines run, and a Send returns: sendWithRetry gives up after *)
(* a bounded number of attempts.  Nobody has to publish, reload or stop.     *)
Fairness ==
  /\ WF_vars(DispatcherStep) /\ WF_vars(StopAllDrained)
  /\ \A g \in Gens : WF_vars(DeferredStep(g))
  /\ \A w \in Instances : WF_vars(WorkerStep(w))

LiveSpec == Spec /\ Fairness

-----------------------------------------------------------------------------
(* A channel delivers its messages in the order they were published, also    *)
(* when its instance is replaced while the old worker still has messages,    *)
(* when a failed Send is repeated, and when the deferred functions of        *)
(* several reloads overlap: the old instance is down before the new one is   *)
(* up (manager.go:1936).  Only a call that Stop did not wait for, or an edit *)
(* through an instance that was stopped before, arrives after a later        *)
(* message.  Excepted is a channel of which a reload has taken an old        *)
(* instance for the latest, or could not stop the old one.                   *)
DeliveredInOrder ==
  \A i, j \in DOMAIN log :
    i < j /\ log[i].to = log[j].to /\ log[i].to \notin misled /\ ~ log[j].late
      => log[i].id <= log[j].id

(* Whoever waits for a worker holding the manager's lock, which stops the    *)
(* dispatcher and every reload, gets out again (manager.go:2039, 1407).      *)
LockIsReleased == []<>(mu = Free \/ phase = "crashed")

Waiting(id) ==
  \/ \E i \in DOMAIN outbound : outbound[i].id = id
  \/ dispatch.at \in {"taken", "send"} /\ dispatch.msg.id = id
  \/ \E w \in Instances :
       \/ call[w] # NoCall /\ call[w].msg.id = id
       \/ \E i \in DOMAIN worker[w].queue : worker[w].queue[i].id = id

(* While the program serves, every message leaves the manager: delivered,    *)
(* given up, or for a channel without a worker.  No reload, no slow channel  *)
(* and no worker that lost its place in the map holds one up for ever        *)
(* (manager.go:1650).                                                        *)
EveryMessageSettles ==
  []<>(\A id \in 1 .. MaxMessages : Waiting(id) => phase # "serving")

(* The fallback of SendToChannel for a channel without a worker "should not  *)
(* happen" (manager.go:2138), and dispatchLoop drops the messages of such a  *)
(* channel: once no deferred function is left, a registered channel that     *)
(* runs has a worker.                                                        *)
StartedHasWorker ==
  (phase = "serving" /\ \A g \in Gens : todo[g] = [unregister |-> {}, register |-> {}])
    => \A n \in Names : <<n, channels[n]>> \in up => workers[n] # None
=============================================================================
