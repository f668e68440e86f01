------------------------- MODULE ChannelManagerProof -------------------------
(* Messages of a channel are delivered in the order of their publication,    *)
(* for any channels, settings, queue sizes, messages, repeated Sends and     *)
(* reloads, unless a reload took an old instance of the channel for the      *)
(* latest or failed to stop it, and but for the calls that outlive a Stop.   *)
(*                                                                           *)
(* A message is overtaken by none on its way to a worker (Flow).  Several    *)
(* workers of a channel can hold messages, the older worker the older ones   *)
(* (Older): a new worker begins with none, and what the dispatcher brings is *)
(* later than everything.  One of them at most serves the instance that runs *)
(* (One, Serves), and no message delivered is later than what that one holds *)
(* (Ahead): its own calls are in order, and a call that outlived the Stop of *)
(* its instance, which is late (Calling), is an older worker's.              *)
(*                                                                           *)
(* And whoever waits inside Manager.mu waits for workers that have a closed  *)
(* queue and were started, so that they end (AtLock).                        *)
EXTENDS ChannelManager, SequenceTheorems, TLAPS

Typed ==
  /\ gen \in Gens
  /\ channels \in [Names -> Maybe] /\ workers \in [Names -> Maybe]
  /\ up \subseteq Instances
  /\ worker \in [Instances -> Worker] /\ call \in [Instances -> Call]
  /\ todo \in [Gens -> [unregister : SUBSET Names, register : SUBSET Instances]]
  /\ outbound \in Seq(Message) /\ log \in Seq(Delivered) /\ published \in 0 .. MaxMessages

Fresh ==
  phase = "new" =>
    /\ gen = 0 /\ up = {} /\ log = <<>> /\ \A w \in Instances : worker[w].state = "none"
    /\ \A n \in Names : channels[n] \in {None, 0} /\ (hashes[n] = Off => channels[n] = None)

Reliable == Names \ misled

One ==
  \A c \in up : c[1] \in Reliable =>
    /\ hashes[c[1]] # Off /\ c[2] <= gen
    /\ \A d \in up : d[1] = c[1] => d = c
    /\ \A w \in Instances : w[1] = c[1] /\ worker[w].state # "none" => w[2] <= c[2]

Serves ==
  \A w \in Instances :
    worker[w].state # "none" /\ w[1] \in Reliable => worker[w].serves = w[2]

Calling ==
  \A w \in Instances :
    call[w].at \in UnderWay /\ w[1] \in Reliable => (call[w].late <=> w \notin up)

\* The messages a worker has taken or has still to take.
Queue(w) == {worker[w].queue[i].id : i \in 1 .. Len(worker[w].queue)}
Taken(w) == IF call[w].at = "none" THEN {} ELSE {call[w].msg.id}
Has(w) == Queue(w) \cup Taken(w)

Born ==
  /\ \A w \in Instances :
       /\ worker[w].state = "none" => Has(w) = {}
       /\ worker[w].state # "none" =>
            w[2] <= gen /\ (workers[w[1]] # None => w[2] <= workers[w[1]])
  /\ \A w \in Registered : worker[w].state # "none"

\* The way of a message: outbound, the dispatcher's hands, a worker, the log.
Increasing(s) == \A i, j \in 1 .. Len(s) : i < j => s[i].id < s[j].id
Held == dispatch.at \in {"taken", "send"}
Before(id) == id <= published /\ \A i \in 1 .. Len(outbound) : id < outbound[i].id
Passed(id) == Before(id) /\ (Held => id < dispatch.msg.id)

Later(w, v) == v[1] = w[1] /\ w[2] < v[2]

Routed ==
  /\ Held => dispatch.msg \in Message
  /\ dispatch.at = "send" =>
       /\ dispatch.to \in Instances /\ worker[dispatch.to].state # "none"
       /\ \A v \in Instances : Later(dispatch.to, v) => Has(v) = {}

Flow ==
  /\ Increasing(outbound) /\ \A i \in 1 .. Len(outbound) : outbound[i].id <= published
  /\ Held => Before(dispatch.msg.id)
  /\ \A i \in 1 .. Len(log) : Passed(log[i].id)

Sorted(w) == Increasing(worker[w].queue) /\ \A a \in Taken(w), b \in Queue(w) : a < b

Queued == \A w \in Instances : Sorted(w) /\ \A a \in Has(w) : Passed(a)

Older == \A v, w \in Instances : Later(v, w) => \A a \in Has(v), b \in Has(w) : a < b

Ahead ==
  \A c \in up : c[1] \in Reliable =>
    \A i \in 1 .. Len(log), a \in Has(c) : log[i].to = c[1] => log[i].id <= a

Ordered ==
  \A i, j \in 1 .. Len(log) :
    i < j /\ log[i].to = log[j].to /\ log[i].to \in Reliable /\ ~ log[j].late
      => log[i].id <= log[j].id

IInv ==
  /\ Typed /\ Fresh /\ One /\ Serves /\ Calling /\ Born
  /\ Routed /\ Flow /\ Queued /\ Older /\ Ahead /\ Ordered

-----------------------------------------------------------------------------
LEMMA Empties == <<>> \in Seq(Message) /\ <<>> \in Seq(Delivered) /\ Len(<<>>) = 0
  BY EmptySeq

LEMMA NoWorkerType == NoWorker \in Worker
<1>1. None \in Maybe BY DEF Maybe
<1> QED BY <1>1, Empties DEF NoWorker, Worker

\* A worker with an empty queue that is in no call.
LEMMA HasNothing ==
  ASSUME NEW w, worker[w].queue = <<>>, call[w].at = "none"
  PROVE  Has(w) = {} /\ Sorted(w)
BY Empties DEF Has, Queue, Taken, Sorted, Increasing

LEMMA IInvInit == Init => IInv
<1> SUFFICES ASSUME Init PROVE IInv OBVIOUS
<1> USE Empties
<1>1. 0 \in Gens /\ None \in Maybe /\ Gens \subseteq Maybe
  BY ConstantsAssumption DEF Gens, Maybe
<1>2. Typed
  <2>1. channels \in [Names -> Maybe] BY <1>1 DEF Init
  <2>2. worker \in [Instances -> Worker] BY NoWorkerType DEF Init
  <2>3. published \in 0 .. MaxMessages BY ConstantsAssumption DEF Init
  <2>4. call \in [Instances -> Call] BY DEF Init, Call
  <2> QED BY <1>1, <2>1, <2>2, <2>3, <2>4 DEF Init, Typed
<1>3. Fresh BY DEF Init, Fresh, NoWorker
<1>4. One BY DEF Init, One
<1>5. Serves BY DEF Init, Serves, NoWorker
<1>6. \A w \in Instances : Has(w) = {} /\ Sorted(w) /\ worker[w].state = "none" /\ call[w].at = "none"
  <2> SUFFICES ASSUME NEW w \in Instances
               PROVE  Has(w) = {} /\ Sorted(w) /\ worker[w].state = "none" /\ call[w].at = "none"
    OBVIOUS
  <2>1. worker[w].queue = <<>> /\ worker[w].state = "none" /\ call[w].at = "none"
    BY DEF Init, NoWorker, NoCall
  <2> QED BY <2>1, HasNothing
<1>7. Calling BY <1>6 DEF Calling, UnderWay
<1>8. Born BY <1>6 DEF Init, Born, Registered
<1>9. Routed BY DEF Init, Routed, Held, Idle
<1>10. Flow BY DEF Init, Flow, Held, Idle, Increasing
<1>11. Queued /\ Older BY <1>6 DEF Queued, Older
<1>12. Ahead BY DEF Init, Ahead
<1>13. Ordered BY DEF Init, Ordered
<1> QED BY <1>2, <1>3, <1>4, <1>5, <1>7, <1>8, <1>9, <1>10, <1>11, <1>12, <1>13 DEF IInv

-----------------------------------------------------------------------------
\* A step that brings no worker a message and starts nothing keeps all that is
\* not said of the log.
LEMMA Fewer ==
  ASSUME IInv, UNCHANGED <<gen, misled, hashes, traffic>>, up' \subseteq up, Calling',
         phase' # "new",
         \A n \in Names : workers'[n] \in {workers[n], None},
         \A w \in Instances :
           /\ Has(w)' \subseteq Has(w) /\ Sorted(w)'
           /\ worker'[w].serves = worker[w].serves
           /\ worker'[w].state = "none" <=> worker[w].state = "none"
  PROVE  Fresh' /\ One' /\ Serves' /\ Born' /\ Routed' /\ Queued' /\ Older'
<1>1. Fresh' BY DEF Fresh
<1>2. One' BY DEF IInv, One, Reliable
<1>3. Serves' BY DEF IInv, Serves, Reliable
<1>4. Born'
  <2>1. Registered' \subseteq Registered /\ Registered \subseteq Instances
    BY DEF Registered, IInv, Typed, Instances, Maybe
  <2>2. \A w \in Registered' : worker'[w].state # "none" BY <2>1 DEF IInv, Born
  <2> QED BY <2>2 DEF IInv, Born, Instances
<1>5. Routed' BY DEF IInv, Routed, Held, Later, traffic
<1>6. Queued' BY DEF IInv, Queued, Held, Before, Passed, traffic
<1>7. Older'
  <2> SUFFICES ASSUME NEW v \in Instances, NEW w \in Instances, Later(v, w),
                      NEW a \in Has(v)', NEW b \in Has(w)'
               PROVE  a < b
    BY DEF Older, Later
  <2> QED BY DEF IInv, Older
<1> QED BY <1>1, <1>2, <1>3, <1>4, <1>5, <1>6, <1>7

\* And a step that delivers none keeps the rest.
LEMMA Quiet ==
  ASSUME IInv, Typed', UNCHANGED <<gen, misled, hashes, traffic, log>>, up' \subseteq up, Calling',
         phase' # "new",
         \A n \in Names : workers'[n] \in {workers[n], None},
         \A w \in Instances :
           /\ Has(w)' \subseteq Has(w) /\ Sorted(w)'
           /\ worker'[w].serves = worker[w].serves
           /\ worker'[w].state = "none" <=> worker[w].state = "none"
  PROVE  IInv'
<1>1. Fresh' /\ One' /\ Serves' /\ Born' /\ Routed' /\ Queued' /\ Older' BY Fewer
<1>2. Flow' BY DEF IInv, Flow, Held, Increasing, Before, Passed, traffic
<1>3. Ahead'
  <2>1. up \subseteq Instances BY DEF IInv, Typed
  <2> QED BY <2>1 DEF IInv, Ahead, Reliable
<1>4. Ordered' BY DEF IInv, Ordered, Reliable
<1> QED BY <1>1, <1>2, <1>3, <1>4 DEF IInv

\* A worker that has the messages it had.
LEMMA SameMessages ==
  ASSUME IInv, NEW w \in Instances, worker'[w].queue = worker[w].queue,
         call'[w].at = "none" <=> call[w].at = "none",
         call[w].at # "none" => call'[w].msg = call[w].msg
  PROVE  Has(w)' = Has(w) /\ Sorted(w)'
<1>1. Queue(w)' = Queue(w) /\ Taken(w)' = Taken(w) BY DEF Queue, Taken
<1>2. Sorted(w) BY DEF IInv, Queued
<1> QED BY <1>1, <1>2 DEF Has, Sorted, Increasing

LEMMA CloseType ==
  ASSUME Typed, NEW ws, Close(ws)
  PROVE  /\ worker' \in [Instances -> Worker]
         /\ \A w \in Instances :
              /\ worker'[w].queue = worker[w].queue /\ worker'[w].serves = worker[w].serves
              /\ worker'[w].state = worker[w].state
<1>1. ASSUME NEW w \in Instances
      PROVE  LET c == [worker[w] EXCEPT !.closed = @ \/ w \in ws]
             IN /\ c \in Worker /\ c.queue = worker[w].queue /\ c.serves = worker[w].serves
                /\ c.state = worker[w].state
  <2>1. worker[w] \in Worker BY DEF Typed
  <2> QED BY <2>1 DEF Worker
<1>2. \A w \in Instances : worker'[w] = [worker[w] EXCEPT !.closed = @ \/ w \in ws]
  BY DEF Close
<1>3. worker' \in [Instances -> Worker] BY <1>1 DEF Close
<1> QED BY <1>1, <1>2, <1>3

LEMMA ForgetType ==
  ASSUME Typed, NEW n \in Names, Forget(n)
  PROVE  /\ channels' \in [Names -> Maybe] /\ workers' \in [Names -> Maybe]
         /\ \A m \in Names : workers'[m] \in {workers[m], None}
BY DEF Typed, Forget, Maybe

\* The calls under way of an instance that stops are late from then on.
LEMMA OvertakeType ==
  ASSUME IInv, NEW stopped, Overtake(stopped)
  PROVE  /\ call' \in [Instances -> Call]
         /\ \A w \in Instances :
              /\ call'[w].at = call[w].at
              /\ call[w].at # "none" => call'[w].msg = call[w].msg
              /\ call[w].at \in UnderWay /\ w[1] \in Reliable =>
                   (call'[w].late <=> (w \notin up \/ w \in stopped))
<1> DEFINE made == [at : {"wait", "try"} \cup UnderWay, msg : Message,
                    tries : 0 .. MaxTries, late : BOOLEAN]
<1>1. \A w \in Instances : call[w] = NoCall \/ call[w] \in made BY DEF IInv, Typed, Call
<1>2. \A w \in Instances : call[w].at \in UnderWay => call[w] \in made
  BY <1>1 DEF NoCall, UnderWay
<1>3. ASSUME NEW w \in Instances, call[w] \in made
      PROVE  LET c == [call[w] EXCEPT !.late = TRUE]
             IN c \in made /\ c.at = call[w].at /\ c.msg = call[w].msg /\ c.late = TRUE
  BY <1>3
<1>4. \A w \in Instances :
        call'[w] = IF call[w].at \in UnderWay /\ <<w[1], worker[w].serves>> \in stopped
                   THEN [call[w] EXCEPT !.late = TRUE] ELSE call[w]
  BY DEF Overtake
<1>5. \A w \in Instances : call[w] \in Call BY DEF IInv, Typed
<1>6. \A c \in made : c \in Call BY DEF Call
<1> HIDE DEF made
<1>7. \A w \in Instances : call'[w] \in Call BY <1>2, <1>3, <1>4, <1>5, <1>6
<1>8. call' \in [Instances -> Call] BY <1>7 DEF Overtake
<1>9. ASSUME NEW w \in Instances
      PROVE  /\ call'[w].at = call[w].at
             /\ call[w].at # "none" => call'[w].msg = call[w].msg
  BY <1>2, <1>3, <1>4
<1>10. ASSUME NEW w \in Instances, call[w].at \in UnderWay, w[1] \in Reliable
       PROVE  call'[w].late <=> (w \notin up \/ w \in stopped)
  <2>1. worker[w].state # "none"
    <3>1. call[w].at # "none" BY <1>10 DEF UnderWay
    <3>2. Has(w) # {} BY <3>1 DEF Has, Taken
    <3> QED BY <3>2 DEF IInv, Born
  <2>2. <<w[1], worker[w].serves>> = w BY <1>10, <2>1 DEF IInv, Serves, Instances
  <2>3. call[w].late <=> w \notin up BY <1>10 DEF IInv, Calling
  <2>4. CASE w \in stopped
    <3>1. call'[w] = [call[w] EXCEPT !.late = TRUE] BY <1>4, <1>10, <2>2, <2>4
    <3>2. call'[w].late = TRUE BY <1>2, <1>3, <1>10, <3>1
    <3> QED BY <2>4, <3>2
  <2>5. CASE w \notin stopped
    <3>1. call'[w] = call[w] BY <1>4, <2>2, <2>5
    <3> QED BY <2>3, <2>5, <3>1
  <2> QED BY <2>4, <2>5
<1> QED BY <1>8, <1>9, <1>10

LEMMA StoppingKeeps ==
  ASSUME IInv, StopAll \/ StopAllDrained \/ Crash PROVE IInv'
<1> USE DEF life, maps, traffic, delivery
<1>1. CASE StopAll
  <2>1. Close(Registered) /\ phase' = "stopping"
        /\ UNCHANGED <<gen, misled, hashes, channels, workers, up, call, todo, traffic, log>>
    BY <1>1 DEF StopAll
  <2>2. Typed' BY <2>1, CloseType DEF IInv, Typed
  <2>3. \A w \in Instances : worker'[w].queue = worker[w].queue /\ worker'[w].serves = worker[w].serves
                               /\ worker'[w].state = worker[w].state
    BY <2>1, CloseType DEF IInv
  <2>4. \A w \in Instances : Has(w)' = Has(w) /\ Sorted(w)' BY <2>1, <2>3, SameMessages
  <2>5. Calling' BY <2>1 DEF IInv, Calling, Reliable
  <2> QED BY <2>1, <2>2, <2>3, <2>4, <2>5, Quiet
<1>2. CASE StopAllDrained
  <2>1. phase' = "stopped"
        /\ UNCHANGED <<gen, misled, hashes, channels, workers, worker, todo, traffic, log>>
    BY <1>2 DEF StopAllDrained
  <2>2. PICK stopped : up' = up \ stopped /\ Overtake(stopped) BY <1>2 DEF StopAllDrained
  <2>3. Typed' BY <2>1, <2>2, OvertakeType DEF IInv, Typed
  <2>4. \A w \in Instances : Has(w)' = Has(w) /\ Sorted(w)'
    BY <2>1, <2>2, OvertakeType, SameMessages
  <2>5. Calling' BY <2>1, <2>2, OvertakeType DEF Calling, Reliable
  <2> QED BY <2>1, <2>2, <2>3, <2>4, <2>5, Quiet
<1>3. CASE Crash
  <2>1. phase' = "crashed"
        /\ UNCHANGED <<gen, misled, hashes, channels, workers, up, worker, call, todo, traffic, log>>
    BY <1>3 DEF Crash
  <2>2. Typed' BY <2>1 DEF IInv, Typed
  <2>3. \A w \in Instances : Has(w)' = Has(w) /\ Sorted(w)' BY <2>1, SameMessages
  <2>4. Calling' BY <2>1 DEF IInv, Calling, Reliable
  <2> QED BY <2>1, <2>2, <2>3, <2>4, Quiet
<1> QED BY <1>1, <1>2, <1>3

LEMMA DeferredKeeps ==
  ASSUME IInv, NEW g \in Gens, DeferredStep(g) PROVE IInv'
<1> USE DEF life, maps, traffic, delivery
<1>1. ASSUME NEW n \in Names, Unregister(g, n) \/ UnregisterDrained(g, n) PROVE IInv'
  <2>1. /\ UNCHANGED <<phase, gen, misled, hashes, up, call, traffic, log>> /\ phase # "new"
        /\ Forget(n) \/ UNCHANGED <<channels, workers>>
        /\ UNCHANGED worker \/ \E ws : Close(ws)
    BY <1>1 DEF Unregister, UnregisterDrained, Serving
  <2>2. todo' \in [Gens -> [unregister : SUBSET Names, register : SUBSET Instances]]
    <3>1. /\ todo[g] \in [unregister : SUBSET Names, register : SUBSET Instances]
          /\ \/ UNCHANGED todo
             \/ todo' = [todo EXCEPT ![g].unregister = @ \ {n}]
             \/ todo' = [todo EXCEPT ![g] = [unregister |-> {}, register |-> {}]]
      BY <1>1 DEF IInv, Typed, Unregister, UnregisterDrained
    <3> QED BY <3>1 DEF IInv, Typed
  <2>3. /\ channels' \in [Names -> Maybe] /\ workers' \in [Names -> Maybe]
        /\ \A m \in Names : workers'[m] \in {workers[m], None}
    BY <2>1, ForgetType DEF IInv, Typed
  <2>4. /\ worker' \in [Instances -> Worker]
        /\ \A w \in Instances :
             /\ worker'[w].queue = worker[w].queue /\ worker'[w].serves = worker[w].serves
             /\ worker'[w].state = worker[w].state
    BY <2>1, CloseType DEF IInv, Typed
  <2>5. Typed' BY <2>1, <2>2, <2>3, <2>4 DEF IInv, Typed
  <2>6. \A w \in Instances : Has(w)' = Has(w) /\ Sorted(w)' BY <2>1, <2>4, SameMessages
  <2>7. Calling' BY <2>1 DEF IInv, Calling, Reliable
  <2> QED BY <2>1, <2>3, <2>4, <2>5, <2>6, <2>7, Quiet
<1>2. CASE Register(g)
  <2>1. /\ UNCHANGED <<phase, gen, misled, hashes, workers, up, worker, call, traffic, log>>
        /\ phase # "new"
    BY <1>2 DEF Register, Serving
  <2>2. PICK c \in todo[g].register :
          /\ channels' = [channels EXCEPT ![c[1]] = c[2]]
          /\ todo' = [todo EXCEPT ![g].register = @ \ {c}]
    BY <1>2 DEF Register
  <2>3. todo[g] \in [unregister : SUBSET Names, register : SUBSET Instances] BY DEF IInv, Typed
  <2>4. c[1] \in Names /\ c[2] \in Maybe BY <2>3 DEF Instances, Maybe
  <2>5. Typed' BY <2>1, <2>2, <2>3, <2>4 DEF IInv, Typed
  <2>6. \A w \in Instances : Has(w)' = Has(w) /\ Sorted(w)' BY <2>1, SameMessages
  <2>7. Calling' BY <2>1 DEF IInv, Calling, Reliable
  <2> QED BY <2>1, <2>5, <2>6, <2>7, Quiet
<1> QED BY <1>1, <1>2 DEF DeferredStep

LEMMA WorkerEndsKeeps == ASSUME IInv, NEW w \in Instances, WorkerEnds(w) PROVE IInv'
<1> USE DEF life, maps, delivery
<1>1. /\ worker' = [worker EXCEPT ![w].state = "end"] /\ worker[w].state = "run" /\ phase # "new"
      /\ UNCHANGED <<phase, gen, misled, hashes, channels, workers, up, call, todo, traffic, log>>
  BY DEF WorkerEnds, Serving
<1>2. /\ worker' \in [Instances -> Worker]
      /\ \A v \in Instances :
           /\ worker'[v].queue = worker[v].queue /\ worker'[v].serves = worker[v].serves
           /\ worker'[v].state = "none" <=> worker[v].state = "none"
  BY <1>1 DEF IInv, Typed, Worker
<1>3. Typed' BY <1>1, <1>2 DEF IInv, Typed, traffic
<1>4. \A v \in Instances : Has(v)' = Has(v) /\ Sorted(v)' BY <1>1, <1>2, SameMessages
<1>5. Calling' BY <1>1 DEF IInv, Calling, Reliable
<1> QED BY <1>1, <1>2, <1>3, <1>4, <1>5, Quiet

-----------------------------------------------------------------------------
\* The new workers, whose queues are empty and who are in no call.
LEMMA Started ==
  ASSUME IInv, NEW g \in Gens, NEW started \in SUBSET Names, NEW instance \in [Names -> Maybe],
         StartWorkers(g, started, instance)
  PROVE  /\ workers' \in [Names -> Maybe] /\ worker' \in [Instances -> Worker]
         /\ \A n \in Names : workers'[n] = IF n \in started THEN g ELSE workers[n]
         /\ \A w \in Instances :
              IF w[2] = g /\ w[1] \in started
              THEN worker'[w].queue = <<>> /\ worker'[w].serves = instance[w[1]]
                   /\ worker'[w].state = "run"
              ELSE worker'[w] = worker[w]
<1>1. workers' \in [Names -> Maybe] BY DEF IInv, Typed, StartWorkers, Maybe
<1>2. ASSUME NEW k \in Maybe
      PROVE NewWorker(k) \in Worker /\ NewWorker(k).queue = <<>> /\ NewWorker(k).serves = k
            /\ NewWorker(k).state = "run"
  BY <1>2, Empties DEF NewWorker, NoWorker, Worker
<1>3. \A w \in Instances : w[1] \in Names BY DEF Instances
<1>4. \A w \in Instances :
        worker'[w] = IF w[2] = g /\ w[1] \in started THEN NewWorker(instance[w[1]]) ELSE worker[w]
  BY DEF StartWorkers
<1>5. worker' \in [Instances -> Worker]
  BY <1>2, <1>3 DEF StartWorkers, IInv, Typed
<1>6. \A n \in Names : workers'[n] = IF n \in started THEN g ELSE workers[n] BY DEF StartWorkers
<1> QED BY <1>1, <1>2, <1>3, <1>4, <1>5, <1>6

\* Nobody is disturbed by a generation of workers that begin with nothing.
LEMMA StartedKeeps ==
  ASSUME IInv, NEW g \in Gens, NEW started \in SUBSET Names, NEW instance \in [Names -> Maybe],
         StartWorkers(g, started, instance), UNCHANGED <<traffic, log>>,
         gen <= g, gen' = g,
         \A w \in Instances : w[2] = g => worker[w].state = "none",
         \A w \in Instances :
           /\ call'[w].at = "none" <=> call[w].at = "none"
           /\ call[w].at # "none" => call'[w].msg = call[w].msg
  PROVE  /\ Born' /\ Routed' /\ Flow' /\ Queued' /\ Older'
         /\ \A w \in Instances : Has(w)' = Has(w) /\ (worker[w].state = "none" => Has(w)' = {})
<1>1. \A w \in Instances :
        IF w[2] = g /\ w[1] \in started
        THEN worker'[w].queue = <<>> /\ worker'[w].state = "run"
        ELSE worker'[w] = worker[w]
  <2>1. \A w \in Instances :
          worker'[w] = IF w[2] = g /\ w[1] \in started
                       THEN NewWorker(instance[w[1]]) ELSE worker[w]
    BY DEF StartWorkers
  <2>2. \A k : NewWorker(k).queue = <<>> /\ NewWorker(k).state = "run"
    BY DEF NewWorker, NoWorker
  <2> QED BY <2>1, <2>2
<1>2. ASSUME NEW w \in Instances
      PROVE  Has(w)' = Has(w) /\ Sorted(w)'
  <2>1. CASE w[2] = g /\ w[1] \in started
    <3>1. Has(w) = {} BY <2>1 DEF IInv, Born
    <3>2. call[w].at = "none" BY <3>1 DEF Has, Taken
    <3>3. worker'[w].queue = <<>> /\ call'[w].at = "none" BY <1>1, <2>1, <3>2
    <3>4. Queue(w)' = {} /\ Taken(w)' = {} BY <3>3, Empties DEF Queue, Taken
    <3>5. Increasing(worker'[w].queue) BY <3>3, Empties DEF Increasing
    <3> QED BY <3>1, <3>4, <3>5 DEF Has, Sorted, Increasing
  <2>2. CASE ~ (w[2] = g /\ w[1] \in started)
    <3>1. worker'[w] = worker[w] BY <1>1, <2>2
    <3> QED BY <3>1, SameMessages
  <2> QED BY <2>1, <2>2
<1>3. \A w \in Instances : worker[w].state = "none" => Has(w)' = {} BY <1>2 DEF IInv, Born
<1>4. \A n \in Names : workers'[n] = IF n \in started THEN g ELSE workers[n] BY Started
<1>5. \A w \in Registered' : worker'[w].state # "none"
  <2> SUFFICES ASSUME NEW n \in Names, workers'[n] # None,
                      NEW w, w = <<n, workers'[n]>>
               PROVE  worker'[w].state # "none"
    BY DEF Registered
  <2>1. CASE n \in started
    <3>1. w \in Instances /\ w[2] = g /\ w[1] \in started BY <1>4, <2>1 DEF Instances
    <3> QED BY <1>1, <3>1
  <2>2. CASE n \notin started
    <3>1. w \in Registered /\ w \in Instances /\ w[1] = n
      BY <1>4, <2>2 DEF Registered, Instances, IInv, Typed, Maybe
    <3>2. worker'[w] = worker[w] BY <1>1, <2>2, <3>1
    <3> QED BY <3>1, <3>2 DEF IInv, Born
  <2> QED BY <2>1, <2>2
<1>6. Born'
  <2> SUFFICES ASSUME NEW w \in Instances
               PROVE  /\ worker'[w].state = "none" => Has(w)' = {}
                      /\ worker'[w].state # "none" =>
                           w[2] <= gen' /\ (workers'[w[1]] # None => w[2] <= workers'[w[1]])
    BY <1>5 DEF Born
  <2>1. w[1] \in Names /\ w[2] \in Int /\ gen \in Int /\ g \in Int
    BY DEF IInv, Typed, Instances, Gens
  <2>2. workers'[w[1]] = IF w[1] \in started THEN g ELSE workers[w[1]] BY <1>4, <2>1
  <2>3. CASE w[2] = g /\ w[1] \in started BY <1>1, <2>1, <2>2, <2>3
  <2>4. CASE ~ (w[2] = g /\ w[1] \in started)
    <3>1. worker'[w] = worker[w] BY <1>1, <2>4
    <3>2. worker[w].state # "none" =>
            w[2] <= gen /\ (workers[w[1]] # None => w[2] <= workers[w[1]])
      BY DEF IInv, Born
    <3> QED BY <1>3, <2>1, <2>2, <3>1, <3>2
  <2> QED BY <2>3, <2>4
<1>7. Routed'
  <2>1. \A w \in Instances : worker[w].state # "none" => worker'[w].state # "none" BY <1>1
  <2> QED BY <1>2, <2>1 DEF IInv, Routed, Held, Later, traffic
<1>8. Flow' BY DEF IInv, Flow, Held, Increasing, Before, Passed, traffic
<1>9. Queued' BY <1>2 DEF IInv, Queued, Held, Before, Passed, traffic
<1>10. Older'
  <2> SUFFICES ASSUME NEW v \in Instances, NEW w \in Instances, Later(v, w),
                      NEW a \in Has(v)', NEW b \in Has(w)'
               PROVE  a < b
    BY DEF Older, Later
  <2> QED BY <1>2 DEF IInv, Older
<1> QED BY <1>2, <1>3, <1>6, <1>7, <1>8, <1>9, <1>10

LEMMA StartAllKeeps == ASSUME IInv, StartAll PROVE IInv'
<1>1. PICK started \in SUBSET {n \in Names : channels[n] # None} :
        /\ StartWorkers(0, started, channels)
        /\ up' = {<<n, 0>> : n \in started}
  BY DEF StartAll
<1>2. /\ phase = "new" /\ phase' = "serving"
      /\ UNCHANGED <<gen, misled, hashes, channels, todo, traffic, call, log>>
  BY DEF StartAll, delivery
<1>3. 0 \in Gens BY ConstantsAssumption DEF Gens
<1>4. /\ workers' \in [Names -> Maybe] /\ worker' \in [Instances -> Worker]
      /\ \A w \in Instances :
           IF w[2] = 0 /\ w[1] \in started
           THEN worker'[w].queue = <<>> /\ worker'[w].serves = channels[w[1]]
                /\ worker'[w].state = "run"
           ELSE worker'[w] = worker[w]
  BY <1>1, <1>3, Started DEF IInv, Typed
<1>5. /\ log = <<>> /\ \A w \in Instances : worker[w].state = "none"
      /\ \A n \in started : channels[n] = 0 /\ hashes[n] # Off
  BY <1>1, <1>2 DEF IInv, Fresh
<1>6. Typed'
  <2>1. up' \subseteq Instances BY <1>1, <1>3 DEF Instances
  <2> QED BY <1>2, <1>4, <2>1 DEF IInv, Typed, traffic
<1>7. Fresh' BY <1>2 DEF Fresh
<1>8. One'
  <2>1. gen \in Nat BY DEF IInv, Typed, Gens
  <2>2. \A w \in Instances : worker'[w].state # "none" => w[2] = 0 BY <1>4, <1>5
  <2> QED BY <1>1, <1>2, <1>5, <2>1, <2>2 DEF One
<1>9. Serves' BY <1>2, <1>4, <1>5 DEF IInv, Serves, Reliable
<1>10. \A w \in Instances : call[w].at = "none"
  BY <1>5 DEF IInv, Born, Has, Taken
<1>11. Calling' BY <1>2, <1>10 DEF Calling, UnderWay
<1>12. gen = 0 BY <1>2 DEF IInv, Fresh
<1>13. Born' /\ Routed' /\ Flow' /\ Queued' /\ Older'
  <2>1. started \in SUBSET Names /\ channels \in [Names -> Maybe] BY DEF IInv, Typed
  <2>2. gen <= 0 /\ gen' = 0 BY <1>2, <1>12
  <2> QED BY <1>1, <1>2, <1>3, <1>5, <2>1, <2>2, StartedKeeps
<1>14. Ahead' BY <1>2, <1>5, Empties DEF Ahead
<1>15. Ordered' BY <1>2 DEF IInv, Ordered, Reliable
<1> QED BY <1>6, <1>7, <1>8, <1>9, <1>11, <1>13, <1>14, <1>15 DEF IInv

LEMMA ReloadCases ==
  ASSUME Reload
  PROVE  \/ Crash
         \/ /\ phase = "serving" /\ mu = Free /\ gen < MaxReloads
            /\ \E new \in [Names -> Settings \cup {Off}] :
               \E made \in SUBSET {n \in Added(new) : new[n] \notin Incomplete},
                  started \in SUBSET Added(new), stuck \in SUBSET (Stops(new) \cap up) :
                 /\ \A n \in Added(new) : AfterInit(made)[n] # None
                 /\ Replace(new, AfterInit(made), started, stuck)
<1>1. /\ phase = "serving" /\ mu = Free /\ gen < MaxReloads
      /\ \E new \in [Names -> Settings \cup {Off}] :
         \E made \in SUBSET {n \in Added(new) : new[n] \notin Incomplete} :
           IF \/ \E n \in Removed(new) : channels[n] = None
              \/ \E n \in Added(new) : AfterInit(made)[n] = None
           THEN Crash
           ELSE \E started \in SUBSET Added(new), stuck \in SUBSET (Stops(new) \cap up) :
                  Replace(new, AfterInit(made), started, stuck)
  BY DEF Reload
<1>2. PICK new \in [Names -> Settings \cup {Off}] :
        \E made \in SUBSET {n \in Added(new) : new[n] \notin Incomplete} :
           IF \/ \E n \in Removed(new) : channels[n] = None
              \/ \E n \in Added(new) : AfterInit(made)[n] = None
           THEN Crash
           ELSE \E started \in SUBSET Added(new), stuck \in SUBSET (Stops(new) \cap up) :
                  Replace(new, AfterInit(made), started, stuck)
  BY <1>1
<1>3. PICK made \in SUBSET {n \in Added(new) : new[n] \notin Incomplete} :
        IF \/ \E n \in Removed(new) : channels[n] = None
           \/ \E n \in Added(new) : AfterInit(made)[n] = None
        THEN Crash
        ELSE \E started \in SUBSET Added(new), stuck \in SUBSET (Stops(new) \cap up) :
               Replace(new, AfterInit(made), started, stuck)
  BY <1>2
<1> QED BY <1>1, <1>3

LEMMA ReloadKeeps == ASSUME IInv, Reload PROVE IInv'
<1> SUFFICES ASSUME phase = "serving", gen < MaxReloads,
                    NEW new \in [Names -> Settings \cup {Off}],
                    NEW made \in SUBSET {n \in Added(new) : new[n] \notin Incomplete},
                    NEW started \in SUBSET Added(new), NEW stuck \in SUBSET (Stops(new) \cap up),
                    \A n \in Added(new) : AfterInit(made)[n] # None,
                    Replace(new, AfterInit(made), started, stuck)
             PROVE IInv'
  BY ReloadCases, StoppingKeeps
<1> SUFFICES ASSUME channels' = AfterInit(made),
                    up' = (up \ (Stops(new) \ stuck))
                            \cup {<<n, AfterInit(made)[n]>> : n \in started},
                    Overtake(Stops(new) \ stuck),
                    StartWorkers(gen + 1, started, AfterInit(made)),
                    todo' = [todo EXCEPT ![gen + 1] =
                               [unregister |-> Removed(new),
                                register |-> {<<n, AfterInit(made)[n]>> : n \in started}]],
                    misled' = misled \cup Misled(new, AfterInit(made)) \cup {c[1] : c \in stuck},
                    gen' = gen + 1, hashes' = new, UNCHANGED <<phase, traffic, log>>
             PROVE IInv'
  BY DEF Replace
<1> DEFINE after == AfterInit(made)
           stopped == Stops(new) \ stuck
<1>1. gen + 1 \in Gens /\ gen \in Gens BY ConstantsAssumption DEF IInv, Typed, Gens
<1>2. after \in [Names -> Maybe] BY <1>1 DEF AfterInit, IInv, Typed, Maybe
<1>3. started \subseteq Names /\ Removed(new) \subseteq Names BY DEF Added, Removed
<1>4. /\ workers' \in [Names -> Maybe] /\ worker' \in [Instances -> Worker]
      /\ \A w \in Instances :
           IF w[2] = gen + 1 /\ w[1] \in started
           THEN worker'[w].queue = <<>> /\ worker'[w].serves = after[w[1]]
                /\ worker'[w].state = "run"
           ELSE worker'[w] = worker[w]
  <2>1. StartWorkers(gen + 1, started, after) /\ started \in SUBSET Names BY <1>3
  <2> DEFINE g == gen + 1
  <2>2. g \in Gens BY <1>1
  <2>3. StartWorkers(g, started, after) BY <2>1
  <2> HIDE DEF after, g
  <2>4. workers' \in [Names -> Maybe] /\ worker' \in [Instances -> Worker]
    BY <1>2, <2>1, <2>2, <2>3, Started
  <2>5. \A w \in Instances :
           IF w[2] = g /\ w[1] \in started
           THEN worker'[w].queue = <<>> /\ worker'[w].serves = after[w[1]]
                /\ worker'[w].state = "run"
           ELSE worker'[w] = worker[w]
    BY <1>2, <2>1, <2>2, <2>3, Started
  <2> QED BY <2>4, <2>5 DEF g
<1>5. /\ call' \in [Instances -> Call]
      /\ \A w \in Instances :
           /\ call'[w].at = call[w].at
           /\ call[w].at # "none" => call'[w].msg = call[w].msg
           /\ call[w].at \in UnderWay /\ w[1] \in Reliable =>
                (call'[w].late <=> (w \notin up \/ w \in stopped))
  <2>1. Overtake(stopped) OBVIOUS
  <2> HIDE DEF stopped
  <2> QED BY <2>1, OvertakeType
<1>6. \A w \in Instances : worker[w].state # "none" => w[2] <= gen BY DEF IInv, Born
<1>7. /\ Born' /\ Routed' /\ Flow' /\ Queued' /\ Older'
      /\ \A w \in Instances : Has(w)' = Has(w) /\ (worker[w].state = "none" => Has(w)' = {})
  <2> DEFINE g == gen + 1
  <2>1. StartWorkers(g, started, after) /\ started \in SUBSET Names BY <1>3
  <2>2. g \in Gens /\ gen <= g /\ gen' = g BY <1>1 DEF Gens
  <2>3. \A w \in Instances : w[2] = g => worker[w].state = "none"
    BY <1>1, <1>6 DEF Gens
  <2> HIDE DEF after, g
  <2>4. /\ Born' /\ Routed' /\ Flow' /\ Queued' /\ Older'
        /\ \A w \in Instances : Has(w)' = Has(w) /\ (worker[w].state = "none" => Has(w)' = {})
    BY <1>2, <1>5, <2>1, <2>2, <2>3, StartedKeeps
  <2> QED BY <2>4
<1>8. \A n \in started : after[n] \in Maybe BY <1>2, <1>3
<1>9. \A n \in started : n \notin misled' => after[n] = gen + 1
  BY DEF Misled
<1>10. Reliable' \subseteq Reliable /\ \A n \in Reliable' : n \notin misled'
  BY DEF Reliable
<1>11. ASSUME NEW c \in up, c \in up', c[1] \notin misled'
       PROVE  c[1] \notin Removed(new) /\ c[1] \notin Added(new)
  <2>1. c \in Instances BY DEF IInv, Typed
  <2>2. c = <<c[1], c[2]>> /\ c[1] \in Names BY <2>1 DEF Instances
  <2>3. c[1] \in Reliable BY <1>11, <2>2 DEF Reliable
  <2>4. hashes[c[1]] # Off /\ c[2] <= gen BY <2>3 DEF IInv, One
  <2>5. CASE c \in stopped /\ c[1] \in started
    <3>1. c = <<c[1], after[c[1]]>> BY <1>11, <2>5
    <3>2. c[2] = gen + 1 BY <1>9, <1>11, <2>2, <2>5, <3>1
    <3> QED BY <1>1, <2>4, <3>2 DEF Gens
  <2>6. CASE c[1] \in Removed(new)
    <3>1. c[2] = channels[c[1]] BY <1>11, <2>6 DEF Misled
    <3>2. c \in Stops(new) BY <2>2, <2>6, <3>1 DEF Stops
    <3>3. c \notin stuck BY <1>11
    <3> QED BY <1>11, <2>5, <3>2, <3>3
  <2> QED BY <2>2, <2>4, <2>6 DEF Removed, Added
<1>12. \A n \in started : <<n, after[n]>> \in Instances
  BY <1>2, <1>3 DEF Maybe, Instances
<1>13. Typed'
  <2>1. up' \subseteq Instances BY <1>12 DEF IInv, Typed
  <2>2. todo' \in [Gens -> [unregister : SUBSET Names, register : SUBSET Instances]]
    BY <1>1, <1>3, <1>12 DEF IInv, Typed
  <2> QED BY <1>1, <1>2, <1>4, <1>5, <2>1, <2>2 DEF IInv, Typed, traffic
<1>14. ASSUME NEW c \in up', c[1] \in Reliable'
       PROVE  \/ /\ c \in up /\ c \notin stopped /\ c[1] \in Reliable /\ c[1] \notin started
                 /\ hashes'[c[1]] = hashes[c[1]]
              \/ c[1] \in started /\ c = <<c[1], gen + 1>>
  <2>1. c \in Instances BY <1>13 DEF Typed
  <2>2. c[1] \in Names BY <2>1 DEF Instances
  <2>3. c[1] \notin misled' /\ c[1] \in Reliable BY <1>10, <1>14
  <2>4. CASE c \in up
    <3>1. c[1] \notin Removed(new) /\ c[1] \notin Added(new) BY <1>11, <2>3, <2>4
    <3>2. hashes[c[1]] # Off BY <2>3, <2>4 DEF IInv, One
    <3>3. new[c[1]] = hashes[c[1]] BY <2>2, <3>1, <3>2 DEF Removed
    <3>4. c \notin stopped BY <3>1 DEF Stops
    <3> QED BY <2>3, <2>4, <3>1, <3>3, <3>4
  <2>5. CASE c \notin up
    <3>1. PICK n \in started : c = <<n, after[n]>> BY <2>5
    <3> QED BY <1>9, <2>3, <3>1
  <2> QED BY <2>4, <2>5
<1>15. Fresh' BY DEF Fresh
<1>16. One'
  <2> SUFFICES ASSUME NEW c \in up', c[1] \in Reliable'
               PROVE  /\ hashes'[c[1]] # Off /\ c[2] <= gen'
                      /\ \A d \in up' : d[1] = c[1] => d = c
                      /\ \A w \in Instances :
                           w[1] = c[1] /\ worker'[w].state # "none" => w[2] <= c[2]
    BY DEF One
  <2>1. CASE c \in up /\ c[1] \in Reliable /\ c[1] \notin started /\ hashes'[c[1]] = hashes[c[1]]
    <3>1. /\ hashes[c[1]] # Off /\ c[2] <= gen /\ \A d \in up : d[1] = c[1] => d = c
          /\ \A w \in Instances : w[1] = c[1] /\ worker[w].state # "none" => w[2] <= c[2]
      BY <2>1 DEF IInv, One
    <3>2. c[2] \in Int
      BY <2>1 DEF IInv, Typed, Instances, Gens
    <3>3. \A w \in Instances : w[1] = c[1] => worker'[w] = worker[w] BY <1>4, <2>1
    <3>4. \A d \in up' : d[1] = c[1] => d = c
      <4> SUFFICES ASSUME NEW d \in up', d[1] = c[1] PROVE d = c OBVIOUS
      <4>1. d[1] \in Reliable' /\ d[1] \notin started BY <2>1
      <4>2. d \in up BY <1>14, <4>1
      <4> QED BY <3>1, <4>2
    <3> QED BY <1>1, <2>1, <3>1, <3>2, <3>3, <3>4 DEF Gens
  <2>2. CASE c[1] \in started /\ c = <<c[1], gen + 1>>
    <3>1. hashes'[c[1]] # Off BY <2>2 DEF Added
    <3>2. c[2] = gen' BY <2>2
    <3>3. \A d \in up' : d[1] = c[1] => d = c
      <4> SUFFICES ASSUME NEW d \in up', d[1] = c[1] PROVE d = c OBVIOUS
      <4>1. d[1] \in Reliable' /\ d[1] \in started BY <2>2
      <4>2. d = <<d[1], gen + 1>> BY <1>14, <4>1
      <4> QED BY <2>2, <4>2
    <3>4. \A w \in Instances : worker'[w].state # "none" => w[2] <= gen'
      BY <1>7 DEF Born
    <3> QED BY <1>1, <3>1, <3>2, <3>3, <3>4 DEF Gens
  <2> QED BY <1>14, <2>1, <2>2
<1>17. Serves'
  <2> SUFFICES ASSUME NEW w \in Instances, worker'[w].state # "none", w[1] \in Reliable'
               PROVE  worker'[w].serves = w[2]
    BY DEF Serves
  <2>1. w[1] \notin misled' /\ w[1] \in Reliable BY <1>10
  <2>2. CASE w[2] = gen + 1 /\ w[1] \in started BY <1>4, <1>9, <2>1, <2>2
  <2>3. CASE ~ (w[2] = gen + 1 /\ w[1] \in started) BY <1>4, <2>1, <2>3 DEF IInv, Serves
  <2> QED BY <2>2, <2>3
<1>18. Calling'
  <2> SUFFICES ASSUME NEW w \in Instances, call'[w].at \in UnderWay, w[1] \in Reliable'
               PROVE  call'[w].late <=> w \notin up'
    BY DEF Calling
  <2>1. call[w].at \in UnderWay /\ w[1] \in Reliable BY <1>5, <1>10
  <2>2. call'[w].late <=> (w \notin up \/ w \in stopped) BY <1>5, <2>1
  <2>3. w[2] <= gen
    <3>1. call[w].at # "none" BY <2>1 DEF UnderWay
    <3>2. Has(w) # {} BY <3>1 DEF Has, Taken
    <3> QED BY <1>6, <3>2 DEF IInv, Born
  <2>4. w[2] # gen + 1
    <3>1. w[2] \in Int BY DEF Instances, Gens
    <3> QED BY <1>1, <2>3, <3>1 DEF Gens
  <2>5. w \in up' => w \in up /\ w \notin stopped
    <3>1. w \in up' => (w \in up /\ w \notin stopped) \/ w = <<w[1], gen + 1>> BY <1>14
    <3> QED BY <2>4, <3>1
  <2>6. w \in up /\ w \notin stopped => w \in up' OBVIOUS
  <2> QED BY <2>2, <2>5, <2>6
<1>19. Ahead'
  <2> SUFFICES ASSUME NEW c \in up', c[1] \in Reliable', NEW i \in 1 .. Len(log'),
                      NEW a \in Has(c)', log'[i].to = c[1]
               PROVE  log'[i].id <= a
    BY DEF Ahead
  <2>1. c \in Instances BY <1>13 DEF Typed
  <2>2. CASE c[1] \in started /\ c = <<c[1], gen + 1>>
    <3>1. ~ c[2] <= gen BY <1>1, <2>2 DEF Gens
    <3>2. worker[c].state = "none" BY <1>6, <2>1, <3>1
    <3> QED BY <1>7, <2>1, <3>2
  <2>3. CASE c \in up /\ c[1] \in Reliable
    <3>1. Has(c)' = Has(c) BY <1>7, <2>1
    <3> QED BY <2>3, <3>1 DEF IInv, Ahead
  <2> QED BY <1>14, <2>2, <2>3
<1>20. Ordered' BY <1>10 DEF IInv, Ordered
<1> QED BY <1>7, <1>13, <1>15, <1>16, <1>17, <1>18, <1>19, <1>20 DEF IInv

-----------------------------------------------------------------------------
\* The identity of a message is a number.
LEMMA Ids ==
  ASSUME IInv
  PROVE  /\ \A m \in Message : m.id \in Nat /\ m.to \in Names
         /\ published \in Nat
         /\ \A i \in 1 .. Len(outbound) : outbound[i] \in Message
         /\ \A i \in 1 .. Len(log) : log[i].id \in Nat /\ log[i] \in Delivered
         /\ \A w \in Instances : worker[w].queue \in Seq(Message)
                /\ \A i \in 1 .. Len(worker[w].queue) : worker[w].queue[i] \in Message
<1>1. outbound \in Seq(Message) /\ log \in Seq(Delivered) BY DEF IInv, Typed
<1>2. \A w \in Instances : worker[w].queue \in Seq(Message) BY DEF IInv, Typed, Worker
<1>3. \A m \in Message : m.id \in Nat /\ m.to \in Names BY DEF Message
<1>4. published \in Nat BY DEF IInv, Typed
<1>5. \A m \in Delivered : m.id \in Nat BY DEF Delivered
<1> QED BY <1>1, <1>2, <1>3, <1>4, <1>5, ElementOfSeq

LEMMA CallMessage ==
  ASSUME IInv, NEW w \in Instances, call[w].at # "none"
  PROVE  /\ call[w] \in [at : {"wait", "try"} \cup UnderWay, msg : Message,
                         tries : 0 .. MaxTries, late : BOOLEAN]
         /\ call[w].msg.id \in Nat
<1>1. call[w] \in Call BY DEF IInv, Typed
<1> QED BY <1>1, Ids DEF Call, NoCall

LEMMA HasIds ==
  ASSUME IInv, NEW w \in Instances
  PROVE  \A a \in Has(w) : a \in Nat
<1>1. \A a \in Queue(w) : a \in Nat BY Ids DEF Queue
<1>2. \A a \in Taken(w) : a \in Nat BY CallMessage DEF Taken
<1> QED BY <1>1, <1>2 DEF Has

\* What stays as it is while messages move between the bus and the dispatcher.
LEMMA MovingKeeps ==
  ASSUME IInv, UNCHANGED <<misled, hashes, gen, up, workers, worker, call, log>>, phase' # "new"
  PROVE  /\ Fresh' /\ One' /\ Serves' /\ Calling' /\ Born' /\ Older' /\ Ahead' /\ Ordered'
         /\ \A w \in Instances : Has(w)' = Has(w) /\ Sorted(w)'
<1>1. Fresh' BY DEF Fresh
<1>2. \A w \in Instances : Has(w)' = Has(w) /\ Sorted(w)' BY SameMessages
<1>3. One' BY DEF IInv, One, Reliable
<1>4. Serves' BY DEF IInv, Serves, Reliable
<1>5. Calling' BY DEF IInv, Calling, Reliable
<1>6. Born' BY <1>2 DEF IInv, Born, Registered
<1>7. Older'
  <2> SUFFICES ASSUME NEW v \in Instances, NEW w \in Instances, Later(v, w),
                      NEW a \in Has(v)', NEW b \in Has(w)'
               PROVE  a < b
    BY DEF Older, Later
  <2> QED BY <1>2 DEF IInv, Older
<1>8. Ahead'
  <2>1. up \subseteq Instances BY DEF IInv, Typed
  <2> QED BY <1>2, <2>1 DEF IInv, Ahead, Reliable
<1>9. Ordered' BY DEF IInv, Ordered, Reliable
<1> QED BY <1>1, <1>2, <1>3, <1>4, <1>5, <1>6, <1>7, <1>8, <1>9

LEMMA PublishKeeps == ASSUME IInv, NEW n \in Names, Publish(n) PROVE IInv'
<1> USE DEF life, maps, delivery
<1> DEFINE m == [to |-> n, id |-> published + 1]
<1>1. /\ published < MaxMessages /\ published' = published + 1 /\ outbound' = Append(outbound, m)
      /\ UNCHANGED <<life, maps, worker, todo, dispatch, delivery>> /\ phase # "new"
  BY DEF Publish, Serving
<1>2. m \in Message /\ m.id = published + 1
  BY <1>1, ConstantsAssumption DEF Message, IInv, Typed
<1> HIDE DEF m
<1>3. /\ outbound' \in Seq(Message) /\ Len(outbound') = Len(outbound) + 1
      /\ \A i \in 1 .. Len(outbound) : outbound'[i] = outbound[i]
      /\ outbound'[Len(outbound) + 1] = m
      /\ Len(outbound) \in Nat
  BY <1>1, <1>2, AppendProperties, LenProperties DEF IInv, Typed
<1>4. Typed' BY <1>1, <1>3, ConstantsAssumption DEF IInv, Typed
<1>5. ASSUME NEW id \in Nat, Before(id) PROVE Before(id)'
  BY <1>1, <1>2, <1>3, <1>5, Ids DEF Before
<1>6. ASSUME NEW id \in Nat, Passed(id) PROVE Passed(id)'
  BY <1>1, <1>5, <1>6 DEF Passed, Held
<1>7. /\ Fresh' /\ One' /\ Serves' /\ Calling' /\ Born' /\ Older' /\ Ahead' /\ Ordered'
      /\ \A w \in Instances : Has(w)' = Has(w) /\ Sorted(w)'
  BY <1>1, MovingKeeps
<1>8. Routed' BY <1>1, <1>7 DEF IInv, Routed, Held, Later
<1>9. Flow'
  <2>1. \A i \in 1 .. Len(outbound') : outbound'[i].id <= published'
    BY <1>1, <1>2, <1>3, Ids DEF IInv, Flow
  <2>2. Increasing(outbound')
    <3> SUFFICES ASSUME NEW i \in 1 .. Len(outbound'), NEW j \in 1 .. Len(outbound'), i < j
                 PROVE  outbound'[i].id < outbound'[j].id
      BY DEF Increasing
    <3>1. i \in 1 .. Len(outbound) /\ outbound'[i] = outbound[i] /\ outbound[i].id <= published
      BY <1>3 DEF IInv, Flow
    <3>2. CASE j = Len(outbound) + 1 BY <1>2, <1>3, <3>1, <3>2, Ids
    <3>3. CASE j # Len(outbound) + 1
      <4>1. j \in 1 .. Len(outbound) /\ outbound'[j] = outbound[j] BY <1>3, <3>3
      <4> QED BY <3>1, <4>1 DEF IInv, Flow, Increasing
    <3> QED BY <3>2, <3>3
  <2>3. Held' => Before(dispatch.msg.id)'
    BY <1>1, <1>5, Ids DEF IInv, Flow, Held, Routed
  <2>4. \A i \in 1 .. Len(log') : Passed(log[i].id)' BY <1>1, <1>6, Ids DEF IInv, Flow
  <2> QED BY <1>1, <2>1, <2>2, <2>3, <2>4 DEF Flow
<1>10. Queued' BY <1>6, <1>7, HasIds DEF IInv, Queued
<1> QED BY <1>4, <1>7, <1>8, <1>9, <1>10 DEF IInv

LEMMA TakeKeeps == ASSUME IInv, Take PROVE IInv'
<1> USE DEF life, maps, delivery
<1> DEFINE m == Head(outbound)
<1>1. /\ outbound # <<>> /\ outbound' = Tail(outbound) /\ dispatch' = [at |-> "taken", msg |-> m]
      /\ dispatch.at = "idle"
      /\ UNCHANGED <<life, maps, worker, todo, published, delivery>> /\ phase # "new"
  BY DEF Take, Serving
<1>2. /\ outbound' \in Seq(Message) /\ Len(outbound') = Len(outbound) - 1
      /\ \A i \in 1 .. Len(outbound') : outbound'[i] = outbound[i + 1]
      /\ Len(outbound) \in Nat \ {0} /\ m \in Message /\ m = outbound[1]
  BY <1>1, HeadTailProperties, EmptySeq DEF IInv, Typed
<1> HIDE DEF m
<1>3. Typed' BY <1>1, <1>2 DEF IInv, Typed
<1>4. ASSUME NEW id \in Nat, Passed(id) PROVE Passed(id)'
  BY <1>1, <1>2, <1>4 DEF Passed, Before, Held
<1>5. Routed' BY <1>1, <1>2 DEF Routed, Held
<1>6. Flow'
  <2>1. Increasing(outbound')
    <3>1. \A i \in 1 .. Len(outbound') : i + 1 \in 1 .. Len(outbound) /\ i \in Int BY <1>2
    <3>2. \A i, j \in 1 .. Len(outbound') : i < j => i + 1 < j + 1 BY <1>2
    <3> QED BY <1>2, <3>1, <3>2 DEF IInv, Flow, Increasing
  <2>2. \A i \in 1 .. Len(outbound') : outbound'[i].id <= published'
    BY <1>1, <1>2 DEF IInv, Flow
  <2>3. Before(dispatch.msg.id)'
    <3>1. dispatch'.msg.id = outbound[1].id BY <1>1, <1>2
    <3>2. outbound[1].id <= published BY <1>2 DEF IInv, Flow
    <3>3. \A i \in 1 .. Len(outbound') : outbound[1].id < outbound'[i].id
      <4>1. \A i \in 1 .. Len(outbound') : i + 1 \in 1 .. Len(outbound) /\ 1 < i + 1 BY <1>2
      <4> QED BY <1>2, <4>1 DEF IInv, Flow, Increasing
    <3> QED BY <1>1, <3>1, <3>2, <3>3 DEF Before
  <2>4. \A i \in 1 .. Len(log') : Passed(log[i].id)' BY <1>1, <1>4, Ids DEF IInv, Flow
  <2> QED BY <1>1, <2>1, <2>2, <2>3, <2>4 DEF Flow
<1>7. /\ Fresh' /\ One' /\ Serves' /\ Calling' /\ Born' /\ Older' /\ Ahead' /\ Ordered'
      /\ \A w \in Instances : Has(w)' = Has(w) /\ Sorted(w)'
  BY <1>1, MovingKeeps
<1>8. Queued' BY <1>4, <1>7, HasIds DEF IInv, Queued
<1> QED BY <1>3, <1>5, <1>6, <1>7, <1>8 DEF IInv

\* The dispatcher drops its message, keeps it for the worker it has found, or
\* stops.
LEMMA DispatcherKeeps == ASSUME IInv, LookUp \/ DispatcherStops PROVE IInv'
<1> USE DEF life, maps, delivery
<1>1. /\ UNCHANGED <<life, maps, worker, todo, outbound, published, delivery>> /\ phase # "new"
      /\ \/ dispatch'.at \in {"idle", "stopped"}
         \/ /\ dispatch.at = "taken" /\ dispatch'.at = "send" /\ dispatch'.msg = dispatch.msg
            /\ dispatch'.to \in Instances
            /\ workers[dispatch'.to[1]] = dispatch'.to[2] /\ dispatch'.to[2] # None
            /\ dispatch'.to \in Registered
  <2>1. CASE DispatcherStops BY <2>1 DEF DispatcherStops, Serving
  <2>2. CASE LookUp
    <3> DEFINE n == dispatch.msg.to
    <3>1. n \in Names BY <2>2, Ids DEF LookUp, IInv, Routed, Held
    <3>2. workers[n] # None => <<n, workers[n]>> \in Instances
      BY <3>1 DEF IInv, Typed, Instances, Maybe
    <3> QED BY <2>2, <3>1, <3>2 DEF LookUp, Serving, Idle, Registered
  <2> QED BY <2>1, <2>2
<1>2. Typed' BY <1>1 DEF IInv, Typed
<1>3. Held' => Held /\ dispatch'.msg = dispatch.msg BY <1>1 DEF Held
<1>4. /\ Fresh' /\ One' /\ Serves' /\ Calling' /\ Born' /\ Older' /\ Ahead' /\ Ordered'
      /\ \A w \in Instances : Has(w)' = Has(w) /\ Sorted(w)'
  BY <1>1, MovingKeeps
<1>5. Routed'
  <2>1. Held' => dispatch'.msg \in Message BY <1>3 DEF IInv, Routed
  <2>2. ASSUME dispatch'.at = "send", NEW v \in Instances, Later(dispatch'.to, v)
        PROVE  Has(v)' = {}
    <3>1. v[1] = dispatch'.to[1] /\ workers[v[1]] # None /\ workers[v[1]] < v[2]
      BY <1>1, <2>2 DEF Later
    <3>2. v[2] \in Int /\ workers[v[1]] \in Int
      BY <3>1 DEF IInv, Typed, Instances, Maybe, Gens
    <3>3. worker[v].state = "none" BY <3>1, <3>2 DEF IInv, Born
    <3> QED BY <1>4, <3>3 DEF IInv, Born
  <2>3. dispatch'.at = "send" => dispatch'.to \in Instances /\ worker'[dispatch'.to].state # "none"
    BY <1>1 DEF IInv, Born
  <2> QED BY <2>1, <2>2, <2>3 DEF Routed, Later
<1>6. \A id : Passed(id) => Passed(id)' BY <1>1, <1>3 DEF Passed, Before
<1>7. Flow'
  <2>1. Held' => Before(dispatch.msg.id)' BY <1>1, <1>3 DEF IInv, Flow, Before
  <2> QED BY <1>1, <1>6, <2>1 DEF IInv, Flow, Increasing
<1>8. Queued' BY <1>4, <1>6 DEF IInv, Queued
<1> QED BY <1>2, <1>4, <1>5, <1>7, <1>8 DEF IInv

LEMMA AppendIncreasing ==
  ASSUME NEW s \in Seq(Message), NEW m \in Message, Increasing(s),
         \A i \in 1 .. Len(s) : s[i].id < m.id
  PROVE  Increasing(Append(s, m))
<1>1. /\ Len(Append(s, m)) = Len(s) + 1 /\ Len(s) \in Nat
      /\ \A i \in 1 .. Len(s) : Append(s, m)[i] = s[i]
      /\ Append(s, m)[Len(s) + 1] = m
  BY AppendProperties, LenProperties
<1> SUFFICES ASSUME NEW i \in 1 .. Len(s) + 1, NEW j \in 1 .. Len(s) + 1, i < j
             PROVE  Append(s, m)[i].id < Append(s, m)[j].id
  BY <1>1 DEF Increasing
<1>2. i \in 1 .. Len(s) BY <1>1
<1>3. CASE j = Len(s) + 1 BY <1>1, <1>2, <1>3
<1>4. CASE j # Len(s) + 1
  <2>1. j \in 1 .. Len(s) BY <1>1, <1>4
  <2> QED BY <1>1, <1>2, <2>1 DEF Increasing
<1> QED BY <1>3, <1>4

\* The message goes to the end of a queue in which all are earlier, as all are
\* that its worker and the older ones have and that were delivered; the later
\* workers have none.
LEMMA EnqueueKeeps == ASSUME IInv, Enqueue PROVE IInv'
<1> USE DEF life, maps, delivery
<1>1. /\ dispatch.at = "send" /\ phase # "new" /\ Held
      /\ dispatch.to \in Instances /\ dispatch.msg \in Message
  BY DEF Enqueue, Serving, Held, IInv, Routed
<1>2. PICK w \in Instances : w = dispatch.to BY <1>1
<1>3. PICK m \in Message : m = dispatch.msg BY <1>1
<1>4. PICK q \in Seq(Message) : q = worker[w].queue BY <1>2, Ids
<1>5. CASE worker[w].closed
  <2>1. phase' = "crashed"
        /\ UNCHANGED <<gen, misled, hashes, channels, workers, up, worker, call, todo, traffic, log>>
    BY <1>2, <1>5 DEF Enqueue, traffic
  <2>2. Typed' BY <2>1 DEF IInv, Typed, traffic
  <2>3. \A v \in Instances : Has(v)' = Has(v) /\ Sorted(v)' BY <2>1, SameMessages
  <2>4. Calling' BY <2>1 DEF IInv, Calling, Reliable
  <2> QED BY <2>1, <2>2, <2>3, <2>4, Quiet
<1>6. CASE ~ worker[w].closed
  <2>1. /\ worker' = [worker EXCEPT ![w].queue = Append(@, m)]
        /\ dispatch'.at = "idle"
        /\ UNCHANGED <<life, maps, todo, outbound, published, delivery>>
    BY <1>2, <1>3, <1>6 DEF Enqueue, Idle
  <2>2. Append(q, m) \in Seq(Message) BY AppendProperties
  <2>3. /\ worker' \in [Instances -> Worker]
        /\ worker'[w].queue = Append(q, m)
        /\ worker'[w].serves = worker[w].serves /\ worker'[w].state = worker[w].state
        /\ \A v \in Instances \ {w} : worker'[v] = worker[v]
    BY <1>4, <2>1, <2>2 DEF IInv, Typed, Worker
  <2>4. /\ Len(Append(q, m)) = Len(q) + 1 /\ Len(q) \in Nat
        /\ \A i \in 1 .. Len(q) : Append(q, m)[i] = q[i]
        /\ Append(q, m)[Len(q) + 1] = m
    BY AppendProperties, LenProperties
  <2>5. \A v \in Instances : worker'[v].serves = worker[v].serves /\ worker'[v].state = worker[v].state
    BY <2>3
  <2>6. Typed' BY <2>1, <2>3 DEF IInv, Typed
  <2>7. Fresh' BY <1>1, <2>1 DEF Fresh
  <2>8. One' BY <2>1, <2>5 DEF IInv, One, Reliable
  <2>9. Serves' BY <2>1, <2>5 DEF IInv, Serves, Reliable
  <2>10. Calling' BY <2>1 DEF IInv, Calling, Reliable
  <2>11. Ordered' BY <2>1 DEF IInv, Ordered, Reliable
  <2>12. \A v \in Instances \ {w} : Has(v)' = Has(v) /\ Sorted(v)'
    BY <2>1, <2>3, SameMessages
  <2>13. Queue(w)' = Queue(w) \cup {m.id}
    <3>1. ASSUME NEW i \in 1 .. Len(q) + 1 PROVE Append(q, m)[i].id \in Queue(w) \cup {m.id}
      <4>1. i \in 1 .. Len(q) \/ i = Len(q) + 1 BY <2>4
      <4> QED BY <1>4, <2>4, <4>1 DEF Queue
    <3>2. Queue(w)' = {Append(q, m)[i].id : i \in 1 .. Len(q) + 1} BY <2>3, <2>4 DEF Queue
    <3>3. \A i \in 1 .. Len(q) : i \in 1 .. Len(q) + 1 BY <2>4
    <3>4. Queue(w) \subseteq {Append(q, m)[i].id : i \in 1 .. Len(q) + 1}
      BY <1>4, <2>4, <3>3 DEF Queue
    <3>5. Len(q) + 1 \in 1 .. Len(q) + 1 BY <2>4
    <3>6. m.id \in {Append(q, m)[i].id : i \in 1 .. Len(q) + 1} BY <2>4, <3>5
    <3> QED BY <3>1, <3>2, <3>4, <3>6
  <2>14. Taken(w)' = Taken(w) BY <2>1 DEF Taken
  <2>15. Has(w)' = Has(w) \cup {m.id} BY <2>13, <2>14 DEF Has
  <2>16. \A v \in Instances : \A a \in Has(v) : Before(a) /\ a < m.id
    BY <1>1, <1>3 DEF IInv, Queued, Passed
  <2>17. Before(m.id) BY <1>1, <1>3 DEF IInv, Flow
  <2>18. ~ Held' BY <2>1 DEF Held
  <2>19. ASSUME NEW id, Before(id) PROVE Passed(id)' BY <2>1, <2>18, <2>19 DEF Passed, Before
  <2>20. \A v \in Instances : Later(w, v) => Has(v) = {}
    BY <1>1, <1>2 DEF IInv, Routed
  <2>21. \A v \in Instances : v # w => ~ Later(w, v) \/ Has(v)' = {} BY <2>12, <2>20
  <2>22. ~ Later(w, w) BY DEF Later, Instances, Gens
  <2>23. \A v \in Instances : Has(v)' # Has(v) => v = w BY <2>12
  <2>24. Born'
    <3>1. worker[w].state # "none" BY <1>1, <1>2 DEF IInv, Routed
    <3>2. Registered' = Registered /\ Registered \subseteq Instances
      BY <2>1 DEF Registered, IInv, Typed, Instances, Maybe
    <3> QED BY <2>1, <2>5, <2>23, <3>1, <3>2 DEF IInv, Born
  <2>25. Routed' BY <2>1, <2>18 DEF Routed, Held
  <2>26. Flow' BY <2>1, <2>18, <2>19 DEF IInv, Flow, Passed, Increasing
  <2>27. Queued'
    <3>1. Sorted(w)'
      <4>1. Increasing(Append(q, m))
        <5>1. \A i \in 1 .. Len(q) : q[i].id \in Has(w) BY <1>4 DEF Has, Queue
        <5>2. \A i \in 1 .. Len(q) : q[i].id < m.id BY <2>16, <5>1
        <5> QED BY <1>4, <5>2, AppendIncreasing DEF IInv, Queued, Sorted
      <4>2. \A a \in Taken(w), b \in Queue(w) : a < b BY DEF IInv, Queued, Sorted
      <4>3. \A a \in Taken(w) : a < m.id BY <2>16 DEF Has
      <4>4. \A a \in Taken(w)', b \in Queue(w)' : a < b BY <2>13, <2>14, <4>2, <4>3
      <4> QED BY <2>3, <4>1, <4>4 DEF Sorted, Increasing
    <3>2. \A v \in Instances : Sorted(v)' BY <2>12, <3>1
    <3>3. \A v \in Instances : \A a \in Has(v)' : Before(a)
      BY <2>12, <2>15, <2>16, <2>17
    <3>4. \A v \in Instances : \A a \in Has(v)' : Passed(a)' BY <2>19, <3>3
    <3> QED BY <3>2, <3>4 DEF Queued
  <2>28. Older'
    <3> SUFFICES ASSUME NEW v \in Instances, NEW u \in Instances, Later(v, u),
                        NEW a \in Has(v)', NEW b \in Has(u)'
                 PROVE  a < b
      BY DEF Older, Later
    <3>1. v # w BY <2>21, <2>22 DEF Later
    <3>2. a \in Has(v) /\ a < m.id BY <2>12, <2>16, <3>1
    <3>3. CASE u = w BY <2>15, <3>2, <3>3 DEF IInv, Older
    <3>4. CASE u # w BY <2>12, <3>2, <3>4 DEF IInv, Older
    <3> QED BY <3>3, <3>4
  <2>29. Ahead'
    <3> SUFFICES ASSUME NEW c \in up, c[1] \in Reliable, NEW i \in 1 .. Len(log),
                        NEW a \in Has(c)', log[i].to = c[1]
                 PROVE  log[i].id <= a
      BY <2>1 DEF Ahead, Reliable
    <3>1. c \in Instances BY DEF IInv, Typed
    <3>2. CASE a \in Has(c) BY <3>2 DEF IInv, Ahead
    <3>3. CASE a = m.id
      <4>1. log[i].id < m.id /\ log[i].id \in Nat BY <1>1, <1>3, Ids DEF IInv, Flow, Passed
      <4>2. m.id \in Nat BY Ids
      <4> QED BY <3>3, <4>1, <4>2
    <3> QED BY <2>12, <2>15, <3>1, <3>2, <3>3
  <2> QED BY <2>6, <2>7, <2>8, <2>9, <2>10, <2>11, <2>24, <2>25, <2>26, <2>27, <2>28, <2>29 DEF IInv
<1> QED BY <1>5, <1>6

\* What a step of a worker does with the message it has taken: it has none in
\* the end that it had not, and what it delivers it had taken.
Moves(w) ==
  /\ UNCHANGED <<phase, gen, misled, hashes, channels, workers, up, todo, traffic>> /\ phase # "new"
  /\ worker' \in [Instances -> Worker] /\ call' \in [Instances -> Call]
  /\ \A v \in Instances :
       worker'[v].serves = worker[v].serves /\ worker'[v].state = worker[v].state
  /\ \A v \in Instances \ {w} : worker'[v] = worker[v] /\ call'[v] = call[v]
  /\ Has(w)' \subseteq Has(w) /\ Sorted(w)'
  /\ call'[w].at \in UnderWay /\ w[1] \in Reliable => (call'[w].late <=> w \notin up)
  /\ \/ UNCHANGED log
     \/ /\ call[w].at \in UnderWay
        /\ log' = Append(log, [to |-> w[1], id |-> call[w].msg.id, late |-> call[w].late])

\* A step after which the call has its message still, or is over.
LEMMA CallMoves ==
  ASSUME IInv, NEW w \in Instances, NEW c \in Call,
         call[w].at # "none", call' = [call EXCEPT ![w] = c],
         c.at # "none" => c.msg = call[w].msg,
         c.at \in UnderWay /\ w[1] \in Reliable => (c.late <=> w \notin up),
         UNCHANGED <<phase, gen, misled, hashes, channels, workers, up, worker, todo, traffic>>,
         phase # "new",
         \/ UNCHANGED log
         \/ call[w].at \in UnderWay /\ Land(w)
  PROVE  Moves(w)
<1>1. /\ call' \in [Instances -> Call] /\ call'[w] = c
      /\ \A v \in Instances \ {w} : call'[v] = call[v]
  BY DEF IInv, Typed
<1>2. worker' \in [Instances -> Worker] BY DEF IInv, Typed
<1>3. Queue(w)' = Queue(w) /\ Taken(w)' \subseteq Taken(w) BY <1>1 DEF Queue, Taken
<1>4. Sorted(w) BY DEF IInv, Queued
<1>5. Has(w)' \subseteq Has(w) /\ Sorted(w)' BY <1>3, <1>4 DEF Has, Sorted, Increasing
<1> QED BY <1>1, <1>2, <1>5 DEF Moves, Land

LEMMA DequeueMoves == ASSUME IInv, NEW w \in Instances, Dequeue(w) PROVE Moves(w)
<1> USE DEF life, maps
<1>1. PICK q \in Seq(Message) : q = worker[w].queue BY Ids
<1>2. /\ q # <<>> /\ worker' = [worker EXCEPT ![w].queue = Tail(q)] /\ phase # "new"
      /\ call[w].at = "none"
      /\ call' = [call EXCEPT ![w] =
           [at |-> "wait", msg |-> Head(q), tries |-> 0, late |-> FALSE]]
      /\ UNCHANGED <<phase, gen, misled, hashes, channels, workers, up, todo, traffic, log>>
  BY <1>1 DEF Dequeue, Serving, NoCall
<1>3. /\ Len(q) \in Nat \ {0} /\ Tail(q) \in Seq(Message) /\ Len(Tail(q)) = Len(q) - 1
      /\ \A i \in 1 .. Len(Tail(q)) : Tail(q)[i] = q[i + 1]
      /\ Head(q) = q[1] /\ Head(q) \in Message
  BY <1>2, HeadTailProperties, EmptySeq
<1>4. /\ worker' \in [Instances -> Worker] /\ worker'[w].queue = Tail(q)
      /\ worker'[w].serves = worker[w].serves /\ worker'[w].state = worker[w].state
      /\ \A v \in Instances \ {w} : worker'[v] = worker[v]
  <2>1. worker[w] \in Worker /\ worker \in [Instances -> Worker] BY DEF IInv, Typed
  <2>2. PICK t \in Seq(Message) : t = Tail(q) BY <1>3
  <2>3. PICK n : n = [worker[w] EXCEPT !.queue = t] OBVIOUS
  <2>4. /\ n \in Worker /\ n.queue = t /\ n.serves = worker[w].serves
        /\ n.state = worker[w].state
    BY <2>1, <2>3 DEF Worker
  <2>5. worker' = [worker EXCEPT ![w] = n] BY <1>2, <2>1, <2>2, <2>3
  <2> QED BY <2>1, <2>2, <2>4, <2>5
<1>5. /\ call' \in [Instances -> Call] /\ call'[w].at = "wait" /\ call'[w].msg = Head(q)
      /\ \A v \in Instances \ {w} : call'[v] = call[v]
  <2>1. [at |-> "wait", msg |-> Head(q), tries |-> 0, late |-> FALSE] \in Call
    BY <1>3, ConstantsAssumption DEF Call
  <2> QED BY <1>2, <2>1 DEF IInv, Typed
<1>6. \A i \in 1 .. Len(Tail(q)) : i + 1 \in 1 .. Len(q) /\ 1 < i + 1 BY <1>3
<1>7. 1 \in 1 .. Len(q) BY <1>3
<1>8. Increasing(q) BY <1>1 DEF IInv, Queued, Sorted
<1>9. \A i \in 1 .. Len(Tail(q)) : Head(q).id < Tail(q)[i].id
  BY <1>3, <1>6, <1>7, <1>8 DEF Increasing
<1>10. Increasing(Tail(q))
  <2>1. \A i, j \in 1 .. Len(Tail(q)) : i < j => i + 1 < j + 1 BY <1>3
  <2> QED BY <1>3, <1>6, <1>8, <2>1 DEF Increasing
<1>11. Queue(w) = {q[i].id : i \in 1 .. Len(q)} BY <1>1 DEF Queue
<1>12. Queue(w)' = {Tail(q)[i].id : i \in 1 .. Len(Tail(q))} BY <1>4 DEF Queue
<1>13. Taken(w)' = {Head(q).id} BY <1>5 DEF Taken
<1>14. Has(w)' \subseteq Has(w)
  BY <1>3, <1>6, <1>7, <1>11, <1>12, <1>13 DEF Has
<1>15. Sorted(w)'
  <2>1. \A a \in Taken(w)', b \in Queue(w)' : a < b BY <1>9, <1>12, <1>13
  <2>2. Increasing(worker'[w].queue) BY <1>4, <1>10
  <2> QED BY <2>1, <2>2 DEF Sorted, Increasing
<1>16. call'[w].at \notin UnderWay BY <1>5 DEF UnderWay
<1> QED BY <1>2, <1>4, <1>5, <1>14, <1>15, <1>16 DEF Moves

LEMMA CallStepMoves ==
  ASSUME IInv, NEW w \in Instances,
         GivesUp(w) \/ BeginEdit(w) \/ BeginSend(w) \/ EditReturns(w) \/ SendReturns(w)
  PROVE  Moves(w)
<1> USE DEF life, maps
<1> DEFINE made == [at : {"wait", "try"} \cup UnderWay, msg : Message,
                    tries : 0 .. MaxTries, late : BOOLEAN]
<1>1. /\ call[w].at # "none" /\ phase # "new"
      /\ UNCHANGED <<phase, gen, misled, hashes, channels, workers, up, worker, todo, traffic>>
  BY DEF GivesUp, BeginEdit, BeginSend, EditReturns, SendReturns, Serving
<1>2. call[w] \in made /\ call \in [Instances -> Call] BY <1>1, CallMessage DEF IInv, Typed
<1>3. NoCall \in Call /\ NoCall.at = "none" /\ NoCall.at \notin UnderWay
  BY DEF Call, NoCall, UnderWay
<1>4. \A c \in made : c \in Call BY DEF Call
<1>5. Served(w) = w \/ w[1] \notin Reliable
  <2>1. Has(w) # {} BY <1>1 DEF Has, Taken
  <2>2. worker[w].state # "none" BY <2>1 DEF IInv, Born
  <2> QED BY <2>2 DEF IInv, Serves, Served, Instances
<1>6. CASE call' = [call EXCEPT ![w] = NoCall]
           /\ (UNCHANGED log \/ (call[w].at \in UnderWay /\ Land(w)))
  BY <1>1, <1>3, <1>6, CallMoves
<1>7. CASE BeginEdit(w)
  <2> DEFINE c == [call[w] EXCEPT !.at = "edit", !.late = Served(w) \notin up]
  <2>1. c \in made /\ c.at = "edit" /\ c.msg = call[w].msg /\ (c.late <=> Served(w) \notin up)
    BY <1>2 DEF UnderWay
  <2>2. call' = [call EXCEPT ![w] = c] /\ UNCHANGED log
    BY <1>2, <1>7 DEF BeginEdit
  <2>3. c.at \in UnderWay /\ w[1] \in Reliable => (c.late <=> w \notin up)
    BY <1>5, <2>1
  <2> HIDE DEF c, made
  <2> QED BY <1>1, <1>4, <2>1, <2>2, <2>3, CallMoves
<1>8. CASE BeginSend(w) /\ Served(w) \in up
  <2> DEFINE c == [call[w] EXCEPT !.at = "send", !.late = FALSE]
  <2>1. c \in made /\ c.at = "send" /\ c.msg = call[w].msg /\ c.late = FALSE
    BY <1>2 DEF UnderWay
  <2>2. call' = [call EXCEPT ![w] = c] /\ UNCHANGED log
    BY <1>2, <1>8 DEF BeginSend
  <2>3. c.at \in UnderWay /\ w[1] \in Reliable => (c.late <=> w \notin up)
    BY <1>5, <1>8, <2>1
  <2> HIDE DEF c, made
  <2> QED BY <1>1, <1>4, <2>1, <2>2, <2>3, CallMoves
<1>9. CASE EditReturns(w) /\ call' = [call EXCEPT ![w].at = "try"]
  <2> DEFINE c == [call[w] EXCEPT !.at = "try"]
  <2>1. c \in made /\ c.at = "try" /\ c.msg = call[w].msg /\ c.at \notin UnderWay
    BY <1>2 DEF UnderWay
  <2>2. call' = [call EXCEPT ![w] = c] BY <1>2, <1>9
  <2>3. call[w].at \in UnderWay /\ (Land(w) \/ UNCHANGED log)
    BY <1>9 DEF EditReturns, UnderWay
  <2> HIDE DEF c, made
  <2> QED BY <1>1, <1>4, <2>1, <2>2, <2>3, CallMoves
<1>10. CASE SendReturns(w) /\ call[w].tries < MaxTries
            /\ call' = [call EXCEPT ![w].at = "try", ![w].tries = @ + 1]
  <2> DEFINE c == [call[w] EXCEPT !.at = "try", !.tries = @ + 1]
  <2>1. c \in made /\ c.at = "try" /\ c.msg = call[w].msg /\ c.at \notin UnderWay
    BY <1>2, <1>10, ConstantsAssumption DEF UnderWay
  <2>2. call' = [call EXCEPT ![w] = c] BY <1>2, <1>10
  <2>3. call[w].at \in UnderWay /\ (Land(w) \/ UNCHANGED log)
    BY <1>10 DEF SendReturns, UnderWay
  <2> HIDE DEF c, made
  <2> QED BY <1>1, <1>4, <2>1, <2>2, <2>3, CallMoves
<1> HIDE DEF made
<1> QED
  BY <1>6, <1>7, <1>8, <1>9, <1>10
     DEF GivesUp, BeginSend, EditReturns, SendReturns, UnderWay

\* Delivered by the one instance that runs, a message is no earlier than any
\* that was delivered, and no later than what its worker still has.  Delivered
\* late, it is earlier than all that the worker of that instance has.
LEMMA WorkKeeps == ASSUME IInv, NEW w \in Instances, Moves(w) PROVE IInv'
<1>1. /\ UNCHANGED <<phase, gen, misled, hashes, channels, workers, up, todo, traffic>>
      /\ phase # "new"
      /\ \A v \in Instances :
           worker'[v].serves = worker[v].serves /\ worker'[v].state = worker[v].state
      /\ \A v \in Instances \ {w} : worker'[v] = worker[v] /\ call'[v] = call[v]
      /\ Has(w)' \subseteq Has(w) /\ Sorted(w)'
      /\ call'[w].at \in UnderWay /\ w[1] \in Reliable => (call'[w].late <=> w \notin up)
  BY DEF Moves
<1>2. \A v \in Instances : Has(v)' \subseteq Has(v) /\ Sorted(v)'
  <2>1. ASSUME NEW v \in Instances, v # w PROVE Has(v)' = Has(v) /\ Sorted(v)'
    <3>1. worker'[v] = worker[v] /\ call'[v] = call[v] BY <1>1, <2>1
    <3> QED BY <3>1, SameMessages
  <2> QED BY <1>1, <2>1
<1>3. Calling' BY <1>1 DEF IInv, Calling, Reliable
<1>4. /\ Fresh' /\ One' /\ Serves' /\ Born' /\ Routed' /\ Queued' /\ Older'
  BY <1>1, <1>2, <1>3, Fewer
<1>5. CASE UNCHANGED log
  <2>1. Typed' BY <1>1, <1>5 DEF IInv, Typed, Moves, traffic
  <2> QED BY <1>1, <1>2, <1>3, <1>5, <2>1, Quiet
<1>6. CASE /\ call[w].at \in UnderWay
           /\ log' = Append(log, [to |-> w[1], id |-> call[w].msg.id, late |-> call[w].late])
  <2> DEFINE n == Len(log)
             d == [to |-> w[1], id |-> call[w].msg.id, late |-> call[w].late]
  <2>1. call[w].at # "none" BY <1>6 DEF UnderWay
  <2>2. d \in Delivered
    <3>1. call[w].msg \in Message /\ call[w].late \in BOOLEAN BY <2>1, CallMessage
    <3> QED BY <3>1 DEF Delivered, Message, Instances
  <2>3. d.to = w[1] /\ d.id = call[w].msg.id /\ d.late = call[w].late /\ d.id \in Nat
    BY <2>1, CallMessage
  <2>4. d.id \in Has(w) BY <2>1 DEF Has, Taken
  <2> HIDE DEF d
  <2>5. log' = Append(log, d) BY <1>6 DEF d
  <2>6. /\ n \in Nat /\ Len(log') = n + 1 /\ log' \in Seq(Delivered)
        /\ \A i \in 1 .. n : log'[i] = log[i]
        /\ log'[n + 1] = d
    BY <2>2, <2>5, AppendProperties, LenProperties DEF IInv, Typed
  <2>7. \A i \in 1 .. n + 1 : i \in 1 .. n \/ i = n + 1 BY <2>6
  <2>8. Typed' BY <1>1, <2>6 DEF IInv, Typed, Moves, traffic
  <2>9. Flow'
    <3>1. Passed(d.id) BY <2>4 DEF IInv, Queued
    <3>2. \A i \in 1 .. n + 1 : Passed(log'[i].id) BY <2>6, <2>7, <3>1 DEF IInv, Flow
    <3>3. \A id : Passed(id) => Passed(id)' BY <1>1 DEF Passed, Before, Held, traffic
    <3>4. \A i \in 1 .. Len(log') : Passed(log[i].id)' BY <2>6, <3>2, <3>3
    <3> QED BY <1>1, <3>4 DEF IInv, Flow, Held, Before, Increasing, traffic
  <2>10. w[1] \in Reliable => (d.late <=> w \notin up)
    BY <1>6, <2>3 DEF IInv, Calling
  <2>11. Ordered'
    <3> SUFFICES ASSUME NEW i \in 1 .. n + 1, NEW j \in 1 .. n + 1, i < j,
                        log'[i].to = log'[j].to, log'[i].to \in Reliable, ~ log'[j].late
                 PROVE  log'[i].id <= log'[j].id
      BY <1>1, <2>6 DEF Ordered, Reliable
    <3>1. i \in 1 .. n /\ log'[i] = log[i] BY <2>6
    <3>2. CASE j = n + 1
      <4>1. w \in up /\ w[1] \in Reliable /\ log[i].to = w[1] BY <2>3, <2>6, <2>10, <3>1, <3>2
      <4> QED BY <2>4, <2>6, <3>1, <3>2, <4>1 DEF IInv, Ahead
    <3>3. CASE j \in 1 .. n BY <2>6, <3>1, <3>3 DEF IInv, Ordered
    <3> QED BY <2>7, <3>2, <3>3
  <2>12. Ahead'
    <3> SUFFICES ASSUME NEW c \in up, c[1] \in Reliable, NEW i \in 1 .. n + 1,
                        NEW a \in Has(c)', log'[i].to = c[1]
                 PROVE  log'[i].id <= a
      BY <1>1, <2>6 DEF Ahead, Reliable
    <3>1. c \in Instances BY DEF IInv, Typed
    <3>2. a \in Has(c) /\ a \in Nat BY <1>2, <3>1, HasIds
    <3>3. CASE i \in 1 .. n BY <2>6, <3>2, <3>3 DEF IInv, Ahead
    <3>4. CASE i = n + 1 /\ c = w
      <4>1. a \in Taken(w)' \/ a \in Queue(w)' BY <3>4 DEF Has
      <4>2. a = d.id \/ a \in Queue(w)
        <5>1. a \in Taken(w) \/ a \in Queue(w) BY <3>2, <3>4 DEF Has
        <5> QED BY <2>1, <2>3, <5>1 DEF Taken
      <4>3. a \in Queue(w) => d.id < a
        BY <2>1, <2>3 DEF IInv, Queued, Sorted, Taken
      <4> QED BY <2>3, <2>6, <3>2, <3>4, <4>2, <4>3
    <3>5. CASE i = n + 1 /\ c # w
      <4>1. c[1] = w[1] /\ w[1] \in Reliable BY <2>3, <2>6, <3>5
      <4>2. worker[w].state # "none"
        BY <2>4 DEF IInv, Born
      <4>3. w[2] <= c[2] BY <4>1, <4>2 DEF IInv, One
      <4>4. w[2] # c[2] /\ w[2] \in Int /\ c[2] \in Int
        BY <3>1, <3>5, <4>1 DEF Instances, Gens
      <4>5. Later(w, c) BY <4>1, <4>3, <4>4 DEF Later
      <4>6. d.id < a BY <2>4, <3>1, <3>2, <4>5 DEF IInv, Older
      <4> QED BY <2>3, <2>6, <3>2, <3>5, <4>6
    <3> QED BY <2>7, <3>3, <3>4, <3>5
  <2> QED BY <1>3, <1>4, <2>8, <2>9, <2>11, <2>12 DEF IInv
<1> QED BY <1>5, <1>6 DEF Moves

LEMMA WorkerKeeps == ASSUME IInv, NEW w \in Instances, WorkerStep(w) PROVE IInv'
BY DequeueMoves, CallStepMoves, WorkKeeps, WorkerEndsKeeps DEF WorkerStep

LEMMA IInvStep == ASSUME IInv, [Next]_vars PROVE IInv'
<1>1. CASE UNCHANGED vars
  <2>1. \A w \in Instances : Has(w)' = Has(w) /\ Sorted(w)' BY <1>1, SameMessages DEF vars
  <2>2. Typed' /\ Fresh' /\ One' /\ Serves' /\ Calling'
    BY <1>1 DEF vars, IInv, Typed, Fresh, One, Serves, Calling, Reliable
  <2>3. Born' BY <1>1, <2>1 DEF vars, IInv, Born, Registered
  <2>4. Routed' BY <1>1, <2>1 DEF vars, IInv, Routed, Held, Later
  <2>5. Flow' BY <1>1 DEF vars, IInv, Flow, Increasing, Held, Before, Passed
  <2>6. Queued' BY <1>1, <2>1 DEF vars, IInv, Queued, Held, Before, Passed
  <2>7. Older'
    <3> SUFFICES ASSUME NEW v \in Instances, NEW w \in Instances, Later(v, w),
                        NEW a \in Has(v)', NEW b \in Has(w)'
                 PROVE  a < b
      BY DEF Older, Later
    <3> QED BY <2>1 DEF IInv, Older
  <2>8. Ahead'
    <3>1. up \subseteq Instances BY DEF IInv, Typed
    <3> QED BY <1>1, <2>1, <3>1 DEF vars, IInv, Ahead, Reliable
  <2>9. Ordered' BY <1>1 DEF vars, IInv, Ordered, Reliable
  <2> QED BY <2>2, <2>3, <2>4, <2>5, <2>6, <2>7, <2>8, <2>9 DEF IInv
<1>2. CASE StopAll \/ StopAllDrained BY <1>2, StoppingKeeps
<1>3. CASE \E w \in Instances : WorkerStep(w) BY <1>3, WorkerKeeps
<1>4. CASE DispatcherStep
  BY <1>4, TakeKeeps, DispatcherKeeps, EnqueueKeeps DEF DispatcherStep
<1> QED
  BY <1>1, <1>2, <1>3, <1>4, StartAllKeeps, ReloadKeeps, PublishKeeps, DeferredKeeps DEF Next

\* Which instance of a channel runs, which worker serves it, which calls of a
\* stopped instance are still under way, and in what order the messages stand
\* on their way, in every reachable state.
THEOREM InvariantHolds == Spec => []IInv
<1> QED BY IInvInit, IInvStep, PTL DEF Spec

\* However the reloads, their deferred functions, the repeated Sends and the
\* old workers' remaining messages interleave, only a call that outlives the
\* Stop of its instance, or an edit through a stopped instance, arrives after
\* a later message of its channel, unless a reload stopped or started an old
\* instance of it or failed to stop one (Reload, sendWithRetry).
THEOREM DeliveredInOrderHolds == Spec => []DeliveredInOrder
<1>1. IInv => DeliveredInOrder
  <2> SUFFICES ASSUME IInv, NEW i \in DOMAIN log, NEW j \in DOMAIN log, i < j,
                      log[i].to = log[j].to, log[i].to \notin misled, ~ log[j].late
               PROVE  log[i].id <= log[j].id
    BY DEF DeliveredInOrder
  <2>1. DOMAIN log = 1 .. Len(log) BY LenProperties DEF IInv, Typed
  <2>2. log[i].to \in Reliable BY <2>1, Ids DEF Reliable, Delivered
  <2> QED BY <2>1, <2>2 DEF IInv, Ordered
<1> QED BY <1>1, InvariantHolds, PTL
-----------------------------------------------------------------------------
(* Whoever waits inside the manager's lock waits for a worker that was       *)
(* started and whose queue is closed: such a worker can always go on, until  *)
(* it ends.  It is what LockIsReleased rests on besides fairness.            *)
Running(w) == worker[w].state # "none"
Leaving(w) == Running(w) /\ worker[w].closed

AtLock ==
  /\ \A n \in Names : workers[n] # None => Running(<<n, workers[n]>>)
  /\ phase = "new" => mu = Free
  /\ phase = "stopping" => mu = <<"StopAll">>
  /\ mu = <<"StopAll">> =>
       /\ phase \in {"stopping", "crashed"}
       /\ \A n \in Names : workers[n] # None => worker[<<n, workers[n]>>].closed
  /\ \A g \in Gens, n \in Names : mu = <<g, n>> =>
       n \in todo[g].unregister /\ workers[n] # None /\ worker[<<n, workers[n]>>].closed

HolderLeaves ==
  /\ mu = <<"StopAll">> => \A w \in Registered : Leaving(w)
  /\ \A g \in Gens, n \in Names : mu = <<g, n>> =>
       workers[n] # None /\ Leaving(<<n, workers[n]>>)

\* What TypeOK has that Typed has not, and what it takes.
Rest ==
  /\ phase \in {"new", "serving", "stopping", "stopped", "crashed"}
  /\ mu \in {Free, <<"StopAll">>} \/ mu \in Gens \X Names
  /\ task \in Maybe /\ (phase = "serving" => task \in Gens) /\ canceled \subseteq Gens
  /\ hashes \in [Names -> Settings \cup {Off}] /\ misled \subseteq Names
  /\ dispatch.at \in {"idle", "taken", "send", "stopped"}
  /\ \A w \in Instances : Len(worker[w].queue) <= QueueSize

LEMMA RestInit == Init => Rest
<1> SUFFICES ASSUME Init PROVE Rest OBVIOUS
<1>1. \A w \in Instances : Len(worker[w].queue) <= QueueSize
  BY Empties, ConstantsAssumption DEF Init, NoWorker
<1>2. dispatch.at = "idle" BY DEF Init, Idle
<1> QED BY <1>1, <1>2 DEF Init, Rest, Maybe

\* A step that leaves the queues no longer.
LEMMA RestQuiet ==
  ASSUME IInv, Rest, hashes' = hashes, misled' = misled,
         phase' \in {"new", "serving", "stopping", "stopped", "crashed"},
         mu' \in {Free, <<"StopAll">>} \/ mu' \in Gens \X Names,
         phase' = "serving" => phase = "serving" /\ task' = task,
         task' = task \/ task' = None,
         canceled' = canceled \/ (task \in Gens /\ canceled' = canceled \cup {task}),
         dispatch'.at \in {"idle", "taken", "send", "stopped"},
         \A w \in Instances : worker'[w].queue = worker[w].queue
  PROVE  Rest'
<1>1. None \in Maybe BY DEF Maybe
<1>2. task' \in Maybe /\ (phase' = "serving" => task' \in Gens) /\ canceled' \subseteq Gens
  BY <1>1 DEF Rest
<1>3. \A w \in Instances : Len(worker'[w].queue) <= QueueSize BY DEF Rest
<1> QED BY <1>2, <1>3 DEF Rest

LEMMA RestStarts ==
  ASSUME IInv, Rest, NEW g \in Gens, NEW started \in SUBSET Names,
         NEW instance \in [Names -> Maybe], StartWorkers(g, started, instance),
         hashes' \in [Names -> Settings \cup {Off}], misled' \subseteq Names, task' = g,
         phase' = "serving", UNCHANGED <<mu, canceled, dispatch>>
  PROVE  Rest'
<1>1. \A w \in Instances : worker'[w].queue = <<>> \/ worker'[w] = worker[w]
  BY Started
<1>2. \A w \in Instances : Len(worker'[w].queue) <= QueueSize
  BY <1>1, Empties, ConstantsAssumption DEF Rest
<1> QED BY <1>2 DEF Rest, Maybe

LEMMA RestStep == ASSUME IInv, Rest, [Next]_vars PROVE Rest'
<1> USE DEF life, maps, traffic, delivery
<1>1. CASE UNCHANGED vars BY <1>1 DEF vars, Rest
<1>2. CASE StartAll
  <2>1. PICK started \in SUBSET {n \in Names : channels[n] # None} :
          StartWorkers(0, started, channels)
    BY <1>2 DEF StartAll
  <2>2. /\ phase' = "serving" /\ task' = 0
        /\ UNCHANGED <<mu, misled, hashes, canceled, dispatch>>
    BY <1>2 DEF StartAll
  <2>3. 0 \in Gens BY ConstantsAssumption DEF Gens
  <2>4. started \in SUBSET Names /\ channels \in [Names -> Maybe] BY DEF IInv, Typed
  <2>5. hashes' \in [Names -> Settings \cup {Off}] /\ misled' \subseteq Names BY <2>2 DEF Rest
  <2> QED BY <2>1, <2>2, <2>3, <2>4, <2>5, RestStarts
<1>3. CASE Reload
  <2>1. Crash => Rest' BY RestQuiet DEF Crash, Rest
  <2>0. SUFFICES ASSUME phase = "serving", gen < MaxReloads,
                        NEW new \in [Names -> Settings \cup {Off}],
                        NEW made \in SUBSET {n \in Added(new) : new[n] \notin Incomplete},
                        NEW started \in SUBSET Added(new), NEW stuck \in SUBSET (Stops(new) \cap up),
                        Replace(new, AfterInit(made), started, stuck)
                 PROVE  Rest'
    BY <1>3, <2>1, ReloadCases
  <2>2. /\ StartWorkers(gen + 1, started, AfterInit(made))
        /\ misled' = misled \cup Misled(new, AfterInit(made)) \cup {c[1] : c \in stuck}
        /\ task' = gen + 1 /\ hashes' = new
        /\ UNCHANGED <<phase, mu, canceled, dispatch>>
    BY <2>0 DEF Replace, ReplaceTask
  <2>3. phase = "serving" /\ gen < MaxReloads BY <2>0
  <2>4. PICK g : g = gen + 1 OBVIOUS
  <2>5. PICK instance : instance = AfterInit(made) OBVIOUS
  <2>6. g \in Gens BY <2>3, <2>4, ConstantsAssumption DEF IInv, Typed, Gens
  <2>7. instance \in [Names -> Maybe]
    BY <2>4, <2>5, <2>6 DEF AfterInit, IInv, Typed, Maybe
  <2>8. started \in SUBSET Names BY DEF Added
  <2>9. misled' \subseteq Names
    <3>1. {c[1] : c \in stuck} \subseteq Names BY DEF Stops, Removed
    <3> QED BY <2>2, <3>1 DEF Misled, Added, Removed, Rest
  <2>10. StartWorkers(g, started, instance) BY <2>2, <2>4, <2>5
  <2> QED BY <2>2, <2>3, <2>4, <2>6, <2>7, <2>8, <2>9, <2>10, RestStarts
<1>4. CASE StopAll
  <2>1. \A w \in Instances : worker'[w].queue = worker[w].queue
    BY <1>4, CloseType DEF StopAll, IInv
  <2>2. /\ phase = "serving" /\ phase' = "stopping" /\ mu' = <<"StopAll">>
        /\ canceled' = canceled \cup {task} /\ task' = None
        /\ UNCHANGED <<misled, hashes, dispatch>>
    BY <1>4 DEF StopAll
  <2>3. task \in Gens BY <2>2 DEF Rest
  <2>4. dispatch'.at \in {"idle", "taken", "send", "stopped"} BY <2>2 DEF Rest
  <2> QED BY <2>1, <2>2, <2>3, <2>4, RestQuiet
<1>5. CASE StopAllDrained
  <2>1. /\ phase' = "stopped" /\ mu' = Free
        /\ UNCHANGED <<misled, hashes, dispatch, worker, canceled, task>>
    BY <1>5 DEF StopAllDrained
  <2>2. dispatch'.at \in {"idle", "taken", "send", "stopped"} BY <2>1 DEF Rest
  <2>3. \A w \in Instances : worker'[w].queue = worker[w].queue BY <2>1
  <2>4. phase' # "serving" /\ phase' \in {"new", "serving", "stopping", "stopped", "crashed"} BY <2>1
  <2>5. mu' \in {Free, <<"StopAll">>} BY <2>1
  <2> QED BY <2>1, <2>2, <2>3, <2>4, <2>5, RestQuiet
<1>6. ASSUME NEW n \in Names, Publish(n) PROVE Rest'
  BY <1>6 DEF Publish, Rest
<1>7. CASE Take \/ LookUp \/ DispatcherStops
  <2>1. UNCHANGED <<phase, mu, misled, hashes, worker, canceled, task>>
    BY <1>7 DEF Take, LookUp, DispatcherStops
  <2>2. dispatch'.at \in {"idle", "taken", "send", "stopped"}
    BY <1>7 DEF Take, LookUp, DispatcherStops, Idle
  <2> QED BY <2>1, <2>2 DEF Rest
<1>8. CASE Enqueue
  <2>1. UNCHANGED <<mu, misled, hashes, canceled, task>> BY <1>8 DEF Enqueue
  <2>2. CASE worker[dispatch.to].closed
    <3>1. phase' = "crashed" /\ UNCHANGED <<worker, dispatch>> BY <1>8, <2>2 DEF Enqueue
    <3> QED BY <2>1, <3>1 DEF Rest
  <2>3. CASE ~ worker[dispatch.to].closed
    <3>1. /\ Len(worker[dispatch.to].queue) < QueueSize
          /\ worker' = [worker EXCEPT ![dispatch.to].queue = Append(@, dispatch.msg)]
          /\ dispatch' = Idle /\ UNCHANGED phase
      BY <1>8, <2>3 DEF Enqueue
    <3>2. dispatch.to \in Instances /\ dispatch.msg \in Message
      BY <1>8 DEF Enqueue, IInv, Routed, Held
    <3>3. worker[dispatch.to].queue \in Seq(Message) /\ worker \in [Instances -> Worker]
      BY <3>2 DEF IInv, Typed, Worker
    <3>4. Len(Append(worker[dispatch.to].queue, dispatch.msg)) <= QueueSize
      BY <3>1, <3>2, <3>3, ConstantsAssumption
    <3>5. \A w \in Instances :
            worker'[w].queue = IF w = dispatch.to THEN Append(worker[w].queue, dispatch.msg)
                                                  ELSE worker[w].queue
      BY <3>1, <3>2, <3>3 DEF Worker
    <3>6. \A w \in Instances : Len(worker'[w].queue) <= QueueSize
      BY <3>4, <3>5 DEF Rest
    <3>7. dispatch'.at = "idle" BY <3>1 DEF Idle
    <3> QED BY <2>1, <3>1, <3>6, <3>7 DEF Rest
  <2> QED BY <2>2, <2>3
<1>9. ASSUME NEW g \in Gens, DeferredStep(g) PROVE Rest'
  <2>1. CASE Register(g) BY <2>1 DEF Register, Rest
  <2>2. ASSUME NEW n \in Names, Unregister(g, n) \/ UnregisterDrained(g, n) PROVE Rest'
    <3>1. /\ UNCHANGED <<phase, misled, hashes, task, canceled, dispatch>>
          /\ UNCHANGED mu \/ mu' = Free \/ mu' = <<g, n>>
          /\ UNCHANGED worker \/ \E ws : Close(ws)
      BY <2>2 DEF Unregister, UnregisterDrained
    <3>2. \A w \in Instances : worker'[w].queue = worker[w].queue
      BY <3>1, CloseType DEF IInv
    <3>3. mu' \in {Free, <<"StopAll">>} \/ mu' \in Gens \X Names BY <3>1 DEF Rest
    <3>4. dispatch'.at \in {"idle", "taken", "send", "stopped"} BY <3>1 DEF Rest
    <3>5. phase' \in {"new", "serving", "stopping", "stopped", "crashed"} BY <3>1 DEF Rest
    <3>6. (phase' = "serving" => phase = "serving" /\ task' = task) /\ canceled' = canceled BY <3>1
    <3>7. task' = task /\ hashes' = hashes /\ misled' = misled BY <3>1
    <3> QED BY <3>2, <3>3, <3>4, <3>5, <3>6, <3>7, RestQuiet
  <2> QED BY <1>9, <2>1, <2>2 DEF DeferredStep
<1>10. ASSUME NEW w \in Instances, WorkerStep(w) PROVE Rest'
  <2>1. UNCHANGED <<phase, mu, misled, hashes, task, canceled, dispatch>>
    BY <1>10 DEF WorkerStep, Dequeue, GivesUp, BeginEdit, BeginSend, EditReturns, SendReturns,
                 WorkerEnds
  <2>2. worker \in [Instances -> Worker] /\ worker[w].queue \in Seq(Message)
    BY DEF IInv, Typed, Worker
  <2>3. \A v \in Instances : Len(worker'[v].queue) <= Len(worker[v].queue)
    <3>0. \A v \in Instances : Len(worker[v].queue) \in Nat BY DEF IInv, Typed, Worker
    <3>1. CASE Dequeue(w)
      <4>1. /\ worker[w].queue # <<>>
            /\ worker' = [worker EXCEPT ![w].queue = Tail(worker[w].queue)]
        BY <3>1 DEF Dequeue
      <4>2. Len(Tail(worker[w].queue)) <= Len(worker[w].queue)
        BY <2>2, <4>1, HeadTailProperties, LenProperties
      <4>3. \A v \in Instances :
              worker'[v].queue = IF v = w THEN Tail(worker[w].queue) ELSE worker[v].queue
        BY <2>2, <4>1 DEF Worker
      <4>4. \A v \in Instances : v # w => Len(worker'[v].queue) <= Len(worker[v].queue)
        BY <3>0, <4>3
      <4>5. Len(worker'[w].queue) <= Len(worker[w].queue) BY <4>2, <4>3
      <4> QED BY <4>4, <4>5
    <3>2. CASE WorkerEnds(w)
      <4>1. worker' = [worker EXCEPT ![w].state = "end"] BY <3>2 DEF WorkerEnds
      <4>2. \A v \in Instances : worker'[v].queue = worker[v].queue /\ Len(worker[v].queue) \in Nat
        BY <2>2, <4>1 DEF Worker
      <4> QED BY <4>2
    <3>3. CASE UNCHANGED worker BY <3>0, <3>3
    <3> QED
      BY <1>10, <3>1, <3>2, <3>3
         DEF WorkerStep, GivesUp, BeginEdit, BeginSend, EditReturns, SendReturns
  <2>4. \A v \in Instances : Len(worker'[v].queue) <= QueueSize
    <3>1. IInv' BY <1>10, IInvStep DEF Next
    <3>2. \A v \in Instances : Len(worker[v].queue) \in Nat /\ Len(worker'[v].queue) \in Nat
      BY <3>1 DEF IInv, Typed, Worker
    <3> QED BY <2>3, <3>2, ConstantsAssumption DEF Rest
  <2> QED BY <2>1, <2>4 DEF Rest
<1> QED
  BY <1>1, <1>2, <1>3, <1>4, <1>5, <1>6, <1>7, <1>8, <1>9, <1>10 DEF Next, DispatcherStep

\* Types: each map's entries are generations there have been, and no queue is
\* over its capacity (newChannelWorker, manager.go:1461).
THEOREM ChannelManagerTypes == Spec => []TypeOK
<1>1. IInv /\ Rest => TypeOK BY DEF IInv, Typed, Rest, TypeOK
<1>2. Init => Rest BY RestInit
<1>3. IInv /\ Rest /\ [Next]_vars => Rest' BY RestStep
<1> QED BY <1>1, <1>2, <1>3, InvariantHolds, PTL DEF Spec
LEMMA Holders ==
  /\ Free # <<"StopAll">>
  /\ \A g, n : <<g, n>> # Free /\ <<g, n>> # <<"StopAll">>
BY DEF Free

LEMMA AtLockInit == Init => AtLock
<1> SUFFICES ASSUME Init PROVE AtLock OBVIOUS
<1>1. mu = Free /\ phase = "new" /\ \A n \in Names : workers[n] = None BY DEF Init
<1> QED BY <1>1, Holders DEF AtLock

\* A step in which the holder, the map of workers and the closed queues stay.
LEMMA AtLockQuiet ==
  ASSUME IInv, AtLock, mu' = mu, workers' = workers,
         phase' = phase \/ phase' = "crashed",
         \A g \in Gens : todo'[g] = todo[g],
         \A w \in Instances :
           /\ worker[w].closed => worker'[w].closed
           /\ Running(w) => worker'[w].state # "none"
  PROVE  AtLock'
<1>1. \A n \in Names : workers[n] # None => <<n, workers[n]>> \in Instances
  BY DEF IInv, Typed, Maybe, Instances
<1>2. \A n \in Names : workers'[n] # None => Running(<<n, workers[n]>>)'
  BY <1>1 DEF AtLock, Running
<1>3. \A n \in Names : workers[n] # None /\ worker[<<n, workers[n]>>].closed
        => worker'[<<n, workers'[n]>>].closed
  BY <1>1
<1>4. phase' = "new" => phase = "new" OBVIOUS
<1>5. phase' = "stopping" => phase = "stopping" OBVIOUS
<1> QED BY <1>2, <1>3, <1>4, <1>5 DEF AtLock, Running

\* A step of someone who finds the lock free and leaves it so.
LEMMA AtLockFree ==
  ASSUME mu' = Free, phase' # "stopping",
         \A n \in Names : workers'[n] # None => Running(<<n, workers[n]>>)'
  PROVE  AtLock'
BY Holders DEF AtLock, Running

\* The new workers run, and the others are as they were.
LEMMA StartedRun ==
  ASSUME IInv, AtLock, NEW g \in Gens, NEW started \in SUBSET Names, NEW instance \in [Names -> Maybe],
         StartWorkers(g, started, instance)
  PROVE  \A n \in Names : workers'[n] # None => worker'[<<n, workers'[n]>>].state # "none"
<1> SUFFICES ASSUME NEW n \in Names, workers'[n] # None
             PROVE  worker'[<<n, workers'[n]>>].state # "none"
  OBVIOUS
<1>1. workers'[n] = IF n \in started THEN g ELSE workers[n] BY DEF StartWorkers
<1>2. workers'[n] \in Gens BY <1>1 DEF IInv, Typed, Maybe
<1>3. PICK w : w = <<n, workers'[n]>> OBVIOUS
<1>4. w \in Instances /\ w[1] = n /\ w[2] = workers'[n] BY <1>2, <1>3 DEF Instances
<1>5. worker'[w] = IF w[2] = g /\ w[1] \in started THEN NewWorker(instance[w[1]]) ELSE worker[w]
  BY <1>4 DEF StartWorkers
<1>6. NewWorker(instance[w[1]]).state = "run" BY DEF NewWorker, NoWorker
<1>7. CASE n \in started BY <1>1, <1>3, <1>4, <1>5, <1>6, <1>7
<1>8. CASE n \notin started
  <2>1. worker[w].state # "none" BY <1>1, <1>3, <1>8 DEF AtLock, Running
  <2> QED BY <1>3, <1>4, <1>5, <1>8, <2>1
<1> QED BY <1>7, <1>8
\* UnregisterChannel closes the queue of the worker in the map, then waits.
LEMMA UnregisterAtLock ==
  ASSUME IInv, AtLock, NEW g \in Gens, NEW n \in Names, Unregister(g, n)
  PROVE  AtLock'
<1>1. mu = Free /\ phase' = phase /\ phase \notin {"new", "stopping"} /\ n \in todo[g].unregister
  BY Holders DEF Unregister, Serving, AtLock
<1>2. workers \in [Names -> Maybe] /\ worker \in [Instances -> Worker]
      /\ \A m \in Names : workers[m] # None => <<m, workers[m]>> \in Instances
  BY DEF IInv, Typed, Maybe, Instances
<1>3. CASE workers[n] = None
  <2>1. Forget(n) /\ UNCHANGED <<mu, worker>> BY <1>3 DEF Unregister
  <2>2. \A m \in Names : workers'[m] = workers[m] BY <1>2, <1>3, <2>1 DEF Forget
  <2>3. \A m \in Names : workers'[m] # None => Running(<<m, workers[m]>>)'
    BY <2>1, <2>2 DEF AtLock, Running
  <2> QED BY <1>1, <2>1, <2>3, AtLockFree
<1>4. CASE workers[n] # None /\ worker[<<n, workers[n]>>].closed
  <2>1. UNCHANGED <<mu, worker, workers>> BY <1>4 DEF Unregister
  <2>2. \A m \in Names : workers'[m] # None => Running(<<m, workers[m]>>)'
    BY <2>1 DEF AtLock, Running
  <2> QED BY <1>1, <2>1, <2>2, AtLockFree
<1>5. CASE workers[n] # None /\ ~ worker[<<n, workers[n]>>].closed
  <2>1. Close({<<n, workers[n]>>}) /\ mu' = <<g, n>> /\ UNCHANGED <<workers, todo>>
    BY <1>5 DEF Unregister
  <2>2. \A w \in Instances : worker'[w].state = worker[w].state BY <2>1, CloseType DEF IInv
  <2>3. worker'[<<n, workers[n]>>].closed
    <3>1. PICK w : w = <<n, workers[n]>> OBVIOUS
    <3>2. w \in Instances /\ worker[w] \in Worker BY <1>2, <1>5, <3>1
    <3>3. worker'[w] = [worker[w] EXCEPT !.closed = @ \/ w \in {<<n, workers[n]>>}]
      BY <2>1, <3>2 DEF Close
    <3>4. worker'[w].closed = (worker[w].closed \/ w \in {<<n, workers[n]>>})
      BY <3>2, <3>3 DEF Worker
    <3> QED BY <3>1, <3>4
  <2>4. \A m \in Names : workers'[m] # None => Running(<<m, workers[m]>>)'
    BY <1>2, <2>1, <2>2 DEF AtLock, Running
  <2>5. mu' # <<"StopAll">> BY <2>1, Holders
  <2>6. \A h \in Gens, m \in Names : mu' = <<h, m>> => h = g /\ m = n BY <2>1
  <2>7. \A h \in Gens, m \in Names : mu' = <<h, m>> =>
          m \in todo'[h].unregister /\ workers'[m] # None /\ worker'[<<m, workers'[m]>>].closed
    BY <1>1, <1>5, <2>1, <2>3, <2>6
  <2> QED BY <1>1, <2>1, <2>4, <2>5, <2>7 DEF AtLock
<1> QED BY <1>3, <1>4, <1>5

\* A message more or less in its queue changes nothing else of a worker.
LEMMA QueueOnly ==
  ASSUME worker \in [Instances -> Worker], NEW w, NEW q,
         worker' = [worker EXCEPT ![w].queue = q]
  PROVE  \A v \in Instances :
           worker'[v].closed = worker[v].closed /\ worker'[v].state = worker[v].state
<1> SUFFICES ASSUME NEW v \in Instances
             PROVE  worker'[v].closed = worker[v].closed /\ worker'[v].state = worker[v].state
  OBVIOUS
<1>1. CASE v = w
  <2>1. worker'[v] = [worker[v] EXCEPT !.queue = q] BY <1>1
  <2>2. worker[v] \in Worker OBVIOUS
  <2> QED BY <2>1, <2>2 DEF Worker
<1>2. CASE v # w
  <2>1. worker'[v] = worker[v] BY <1>2
  <2> QED BY <2>1
<1> QED BY <1>1, <1>2

LEMMA AtLockStep == ASSUME IInv, AtLock, [Next]_vars PROVE AtLock'
<1> USE DEF life, maps, traffic, delivery
<1>1. workers \in [Names -> Maybe] /\ worker \in [Instances -> Worker]
      /\ \A n \in Names : workers[n] # None => <<n, workers[n]>> \in Instances
  BY DEF IInv, Typed, Maybe, Instances
<1>2. CASE UNCHANGED vars
  BY <1>2, AtLockQuiet DEF vars, Running
<1>3. CASE StartAll
  <2>1. PICK started \in SUBSET {n \in Names : channels[n] # None} :
          StartWorkers(0, started, channels)
    BY <1>3 DEF StartAll
  <2>2. mu = Free /\ mu' = mu /\ phase' = "serving" BY <1>3 DEF StartAll, AtLock
  <2>3. 0 \in Gens BY ConstantsAssumption DEF Gens
  <2>4. started \in SUBSET Names /\ channels \in [Names -> Maybe] BY DEF IInv, Typed
  <2>5. \A n \in Names : workers'[n] # None => worker'[<<n, workers'[n]>>].state # "none"
    BY <2>1, <2>3, <2>4, StartedRun
  <2>6. mu' = Free /\ phase' # "stopping" BY <2>2
  <2> QED BY <2>5, <2>6, AtLockFree DEF Running
<1>4. CASE Reload
  <2>1. Crash => AtLock' BY AtLockQuiet DEF Crash, Running
  <2>0. SUFFICES ASSUME phase = "serving", mu = Free, gen < MaxReloads,
                        NEW new \in [Names -> Settings \cup {Off}],
                        NEW made \in SUBSET {n \in Added(new) : new[n] \notin Incomplete},
                        NEW started \in SUBSET Added(new), NEW stuck \in SUBSET (Stops(new) \cap up),
                        Replace(new, AfterInit(made), started, stuck)
                 PROVE  AtLock'
    BY <1>4, <2>1, ReloadCases
  <2>2. StartWorkers(gen + 1, started, AfterInit(made)) /\ UNCHANGED <<phase, mu>>
    BY <2>0 DEF Replace
  <2>3. phase = "serving" /\ mu = Free /\ gen < MaxReloads BY <2>0
  <2>4. PICK g : g = gen + 1 OBVIOUS
  <2>5. PICK instance : instance = AfterInit(made) OBVIOUS
  <2>6. g \in Gens BY <2>3, <2>4, ConstantsAssumption DEF IInv, Typed, Gens
  <2>7. instance \in [Names -> Maybe]
    BY <2>4, <2>5, <2>6 DEF AfterInit, IInv, Typed, Maybe
  <2>8. started \in SUBSET Names BY DEF Added
  <2>9. StartWorkers(g, started, instance) BY <2>2, <2>4, <2>5
  <2>10. \A n \in Names : workers'[n] # None => worker'[<<n, workers'[n]>>].state # "none"
    BY <2>6, <2>7, <2>8, <2>9, StartedRun
  <2>11. mu' = Free /\ phase' # "stopping" BY <2>2, <2>3
  <2> QED BY <2>10, <2>11, AtLockFree DEF Running
<1>5. CASE StopAll
  <2>1. phase' = "stopping" /\ mu' = <<"StopAll">> /\ Close(Registered) /\ UNCHANGED workers
    BY <1>5 DEF StopAll
  <2>2. \A w \in Instances : worker'[w].state = worker[w].state BY <2>1, CloseType DEF IInv
  <2>3. ASSUME NEW n \in Names, workers[n] # None PROVE worker'[<<n, workers[n]>>].closed
    <3>1. PICK w : w = <<n, workers[n]>> OBVIOUS
    <3>2. w \in Instances /\ worker[w] \in Worker BY <1>1, <2>3, <3>1
    <3>3. w \in Registered BY <2>3, <3>1 DEF Registered
    <3>4. PICK ws : ws = Registered OBVIOUS
    <3>5. worker'[w] = [worker[w] EXCEPT !.closed = @ \/ w \in ws]
      BY <2>1, <3>2, <3>4 DEF Close
    <3>6. worker'[w].closed = (worker[w].closed \/ w \in ws)
      BY <3>2, <3>5 DEF Worker
    <3> QED BY <3>1, <3>3, <3>4, <3>6
  <2>4. \A n \in Names : workers'[n] # None => Running(<<n, workers[n]>>)'
    BY <1>1, <2>1, <2>2 DEF AtLock, Running
  <2>5. \A g, n : mu' # <<g, n>> /\ mu' # Free BY <2>1, Holders
  <2> QED BY <2>1, <2>3, <2>4, <2>5 DEF AtLock
<1>6. CASE StopAllDrained
  <2>1. phase' = "stopped" /\ mu' = Free /\ UNCHANGED <<workers, worker>>
    BY <1>6 DEF StopAllDrained
  <2>2. \A n \in Names : workers'[n] # None => Running(<<n, workers[n]>>)'
    BY <2>1 DEF AtLock, Running
  <2> QED BY <2>1, <2>2, AtLockFree
<1>7. ASSUME NEW n \in Names, Publish(n) PROVE AtLock'
  BY <1>7, AtLockQuiet DEF Publish, Running
<1>8. CASE Take \/ LookUp \/ DispatcherStops
  <2>1. UNCHANGED <<phase, mu, workers, worker, todo>> BY <1>8 DEF Take, LookUp, DispatcherStops
  <2> QED BY <2>1, AtLockQuiet DEF Running
<1>9. CASE Enqueue
  <2>1. UNCHANGED <<mu, workers, todo>> /\ (phase' = phase \/ phase' = "crashed")
        /\ (UNCHANGED worker
            \/ worker' = [worker EXCEPT ![dispatch.to].queue = Append(@, dispatch.msg)])
    BY <1>9 DEF Enqueue
  <2>2. \A w \in Instances :
          worker'[w].closed = worker[w].closed /\ worker'[w].state = worker[w].state
    <3>1. CASE UNCHANGED worker BY <3>1
    <3>2. CASE worker' = [worker EXCEPT ![dispatch.to].queue = Append(@, dispatch.msg)]
      BY <1>1, <3>2, QueueOnly
    <3> QED BY <2>1, <3>1, <3>2
  <2>3. \A w \in Instances :
          /\ worker[w].closed => worker'[w].closed
          /\ Running(w) => worker'[w].state # "none"
    BY <2>2 DEF Running
  <2> QED BY <2>1, <2>3, AtLockQuiet
<1>10. ASSUME NEW g \in Gens, DeferredStep(g) PROVE AtLock'
  <2>1. CASE Register(g)
    <3>1. mu = Free /\ UNCHANGED <<phase, mu, workers, worker>> BY <2>1 DEF Register
    <3>2. phase # "stopping" BY <3>1, Holders DEF AtLock
    <3>3. \A n \in Names : workers'[n] # None => Running(<<n, workers[n]>>)'
      BY <3>1 DEF AtLock, Running
    <3> QED BY <3>1, <3>2, <3>3, AtLockFree
  <2>2. ASSUME NEW n \in Names, Unregister(g, n) PROVE AtLock'
    BY <2>2, UnregisterAtLock
  <2>3. ASSUME NEW n \in Names, UnregisterDrained(g, n) PROVE AtLock'
    <3>1. mu = <<g, n>> /\ mu' = Free /\ Forget(n) /\ UNCHANGED <<phase, worker>>
      BY <2>3 DEF UnregisterDrained
    <3>2. phase # "stopping" BY <3>1, Holders DEF AtLock
    <3>3. \A m \in Names : workers'[m] # None => workers'[m] = workers[m]
      BY <1>1, <3>1 DEF Forget
    <3>4. \A m \in Names : workers'[m] # None => Running(<<m, workers[m]>>)'
      BY <3>1, <3>3 DEF AtLock, Running
    <3> QED BY <3>1, <3>2, <3>4, AtLockFree
  <2> QED BY <1>10, <2>1, <2>2, <2>3 DEF DeferredStep
<1>11. ASSUME NEW w \in Instances, WorkerStep(w) PROVE AtLock'
  <2>1. /\ UNCHANGED <<phase, mu, workers, todo>>
        /\ \/ worker' = [worker EXCEPT ![w].queue = Tail(@)]
           \/ worker' = [worker EXCEPT ![w].state = "end"]
           \/ UNCHANGED worker
    BY <1>11 DEF WorkerStep, Dequeue, GivesUp, BeginEdit, BeginSend, EditReturns, SendReturns,
                 WorkerEnds
  <2>3. \A v \in Instances :
          worker'[v].closed = worker[v].closed /\ worker'[v].state \in {worker[v].state, "end"}
    <3>1. CASE worker' = [worker EXCEPT ![w].queue = Tail(@)] BY <1>1, <3>1, QueueOnly
    <3>2. CASE worker' = [worker EXCEPT ![w].state = "end"]
      <4>1. worker'[w].closed = worker[w].closed /\ worker'[w].state = "end"
        BY <1>1, <3>2 DEF Worker
      <4>2. \A v \in Instances \ {w} : worker'[v] = worker[v] BY <1>1, <3>2
      <4> QED BY <4>1, <4>2
    <3>3. CASE UNCHANGED worker BY <3>3
    <3> QED BY <2>1, <3>1, <3>2, <3>3
  <2>2. \A v \in Instances :
          /\ worker[v].closed => worker'[v].closed
          /\ Running(v) => worker'[v].state # "none"
    BY <2>3 DEF Running
  <2> QED BY <2>1, <2>2, AtLockQuiet
<1> QED
  BY <1>2, <1>3, <1>4, <1>5, <1>6, <1>7, <1>8, <1>9, <1>10, <1>11 DEF Next, DispatcherStep

\* Whoever waits inside Manager.mu -- StopAll, or a deferred UnregisterChannel
\* of any reload -- waits for workers that were started and whose queues are
\* closed, whatever reloads and registrations came in between, so that none of
\* them is waited for in vain (manager.go:1407, 2039).
THEOREM HolderLeavesHolds == Spec => []HolderLeaves
<1>1. IInv /\ AtLock => HolderLeaves
  <2> SUFFICES ASSUME IInv, AtLock PROVE HolderLeaves OBVIOUS
  <2>1. ASSUME mu = <<"StopAll">>, NEW w \in Registered PROVE Leaving(w)
    BY <2>1 DEF AtLock, Registered, Leaving
  <2>2. ASSUME NEW g \in Gens, NEW n \in Names, mu = <<g, n>>
        PROVE  workers[n] # None /\ Leaving(<<n, workers[n]>>)
    BY <2>2 DEF AtLock, Leaving
  <2> QED BY <2>1, <2>2 DEF HolderLeaves
<1>2. Init => AtLock BY AtLockInit
<1>3. IInv /\ AtLock /\ [Next]_vars => AtLock' BY AtLockStep
<1> QED BY <1>1, <1>2, <1>3, InvariantHolds, PTL DEF Spec
=============================================================================
