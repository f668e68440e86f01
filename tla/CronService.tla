---------------------------- MODULE CronService ----------------------------
(* The cron service (src/pkg/cron/service.go) and the tool that edits its    *)
(* jobs (src/pkg/tools/cron.go): a loop that sleeps until the next job is    *)
(* due, collects the due jobs and runs them outside the lock; clients that   *)
(* add, change, enable and remove jobs; a store file that a restart loads.   *)
(*                                                                           *)
(* A gateway reload stops the service and makes a new one on the same file;  *)
(* the old loop still finishes what it has collected, and a turn that began  *)
(* before the reload still has the old tool.  Times are what is left of      *)
(* them, so that no clock is needed: 0 is now or the past.                   *)
EXTENDS Integers, Sequences, FiniteSets, Functions

CONSTANTS
  Jobs,          \* job ids
  Services,      \* service objects: numbers, of which a new one takes the first
                 \* that neither its loop nor a client has any more
  Every,         \* the period of the recurring jobs
  Delays,        \* how far ahead a one-time job is set
  MaxSleep,      \* the sleep of a loop without a job: an hour
  MaxEdits,      \* bound on the calls that add, move or switch a job
  MaxLoads       \* bound on the starts of a service

ASSUME ConstantsAssumption ==
  /\ IsFiniteSet(Jobs) /\ Services \subseteq Nat
  /\ Every \in Nat \ {0} /\ MaxSleep \in Nat \ {0} /\ Delays \subseteq Nat \ {0}
  /\ MaxEdits \in Nat /\ MaxLoads \in Nat

None == -1
NoJob == [kind |-> "none", at |-> 0, enabled |-> FALSE, next |-> None, schedule |-> 0]

VARIABLES
  file,       \* the jobs in the store file
  savedBy,    \* the service that wrote it last
  mem,        \* CronService.store of each service
  current,    \* the service of the gateway; None while there is no process
  running,    \* CronService.running
  loop,       \* the loop: "plan", "arm", "sleep", "check", "run", "call" or "none"
  timer,      \* what is left of its sleep
  due,        \* what it has collected: ids, with the schedule that came due
  copy,       \* the clone a client has got and not yet written back
  added,      \* the ids made so far: AddJob's are random
  edits,      \* how many edits there have been; they number the schedules
  runs,       \* how often each schedule of a one-time job led to a call
  loads       \* how often a service has been started

looping == <<loop, timer, due>>
clients == <<copy, added, edits>>
vars == <<file, savedBy, mem, current, running, loop, timer, due, copy,
          added, edits, runs, loads>>

NoCopy == [of |-> None]
Empty == [j \in Jobs |-> NoJob]
Exists(s, j) == mem[s][j].kind # "none"

Init ==
  /\ file = Empty /\ savedBy = None
  /\ mem = [s \in Services |-> Empty]
  /\ current = None
  /\ running = [s \in Services |-> FALSE]
  /\ loop = [s \in Services |-> "none"]
  /\ timer = [s \in Services |-> 0]
  /\ due = [s \in Services |-> <<>>]
  /\ copy = NoCopy /\ added = {} /\ edits = 0
  /\ runs = [i \in 1 .. MaxEdits |-> 0]
  /\ loads = 0

Job == [kind : {"none", "every", "at"}, at : Nat, enabled : BOOLEAN,
        next : Nat \cup {None}, schedule : 0 .. MaxEdits]
Due == [id : Jobs, schedule : 0 .. MaxEdits]

TypeOK ==
  /\ file \in [Jobs -> Job] /\ savedBy \in Services \cup {None}
  /\ mem \in [Services -> [Jobs -> Job]]
  /\ current \in Services \cup {None}
  /\ running \in [Services -> BOOLEAN]
  /\ loop \in [Services -> {"none", "plan", "arm", "sleep", "check", "run", "call"}]
  /\ timer \in [Services -> Nat]
  /\ due \in [Services -> Seq(Due)]
  /\ copy = NoCopy \/ copy \in [of : Services, id : Jobs, job : Job, edit : 1 .. MaxEdits]
  /\ added \subseteq Jobs /\ edits \in 0 .. MaxEdits
  /\ runs \in [1 .. MaxEdits -> Nat]
  /\ loads \in 0 .. MaxLoads

(* A one-time job whose time has passed would be run when it is next seen.   *)
NextRunOfPast(job) == IF job.kind = "at" THEN job.at ELSE Every

(* computeNextRun: none for a one-time job whose time is not ahead.          *)
NextRun(job) ==
  IF job.kind = "every" THEN Every ELSE IF job.at > 0 THEN job.at ELSE None

(* recomputeNextRuns.                                                        *)
Recomputed(job) ==
  IF job.enabled THEN [job EXCEPT !.next = NextRun(job)] ELSE job

(* saveStoreUnsafe: the whole store of s goes to the file.                   *)
Store(s, jobs) ==
  /\ mem' = [mem EXCEPT ![s] = jobs]
  /\ file' = jobs /\ savedBy' = s

StoreJob(s, j, job) == Store(s, [mem[s] EXCEPT ![j] = job])

(* notify: the channel has no buffer, so only a loop in its select hears it. *)
Notify(s) ==
  /\ loop' = [loop EXCEPT ![s] = IF @ = "sleep" THEN "plan" ELSE @]
  /\ timer' = [timer EXCEPT ![s] = IF loop[s] = "sleep" THEN 0 ELSE @]
  /\ UNCHANGED due

-----------------------------------------------------------------------------
(* The loop.                                                                 *)

Unused(s) == loop[s] = "none" /\ copy.of # s

Start(s) ==
  /\ loads < MaxLoads
  /\ \A t \in Services : ~ running[t]
  /\ Unused(s) /\ \A t \in Services : t < s => ~ Unused(t)
  /\ Store(s, [j \in Jobs |-> Recomputed(file[j])])
  /\ current' = s
  /\ running' = [running EXCEPT ![s] = TRUE]
  /\ loop' = [loop EXCEPT ![s] = "plan"]
  /\ loads' = loads + 1
  /\ UNCHANGED <<timer, due, clients, runs>>

Stop ==
  /\ current # None /\ running[current]
  /\ running' = [running EXCEPT ![current] = FALSE]
  /\ UNCHANGED <<file, savedBy, mem, current, looping, clients, runs, loads>>

(* The process dies; only the file is left.                                  *)
Crash ==
  /\ current # None
  /\ mem' = [s \in Services |-> Empty]
  /\ running' = [s \in Services |-> FALSE]
  /\ loop' = [s \in Services |-> "none"]
  /\ timer' = [s \in Services |-> 0]
  /\ due' = [s \in Services |-> <<>>]
  /\ copy' = NoCopy /\ current' = None
  /\ UNCHANGED <<file, savedBy, added, edits, runs, loads>>

Planned(s) == {mem[s][j].next : j \in {j \in Jobs : mem[s][j].enabled}} \ {None}
Earliest(times) == CHOOSE t \in times : \A u \in times : t <= u

(* Without a job the loop would sleep until it is woken.                     *)
DelayOrNever(s) == IF Planned(s) = {} THEN None ELSE Earliest(Planned(s))

(* getNextWakeMS, and an hour if there is none.                              *)
Delay(s) == IF Planned(s) = {} THEN MaxSleep ELSE Earliest(Planned(s))

(* The lock is free again before the select: a notify between is not heard.  *)
Plan(s) ==
  /\ loop[s] = "plan"
  /\ timer' = [timer EXCEPT ![s] = Delay(s)]
  /\ loop' = [loop EXCEPT ![s] = "arm"]
  /\ UNCHANGED <<file, savedBy, mem, current, running, due, clients, runs, loads>>

Sleep(s) ==
  /\ loop[s] = "arm"
  /\ loop' = [loop EXCEPT ![s] = "sleep"]
  /\ UNCHANGED <<file, savedBy, mem, current, running, timer, due, clients, runs, loads>>

(* The select of runLoop; it hears a notify in the notifier's step.  A       *)
(* service that is left by its loop and by everybody else is no more.        *)
Wake(s) ==
  /\ loop[s] = "sleep"
  /\ \/ /\ ~ running[s]
        /\ loop' = [loop EXCEPT ![s] = "none"]
        /\ mem' = [mem EXCEPT ![s] = IF s \in {current, copy.of} THEN @ ELSE Empty]
     \/ /\ timer[s] = 0
        /\ loop' = [loop EXCEPT ![s] = "check"]
        /\ UNCHANGED mem
  /\ timer' = [timer EXCEPT ![s] = 0]
  /\ UNCHANGED <<file, savedBy, current, running, due, clients, runs, loads>>

IsDue(job) == job.enabled /\ job.next = 0

(* A due job, a one-time job with the schedule that came due.                *)
DueEntry(s, j) ==
  [id |-> j, schedule |-> IF mem[s][j].kind = "at" THEN mem[s][j].schedule ELSE 0]

(* The due jobs are collected in the order of the store, which the model     *)
(* does not keep: in any order.                                              *)
Collections(s, now) ==
  {[n \in 1 .. Cardinality(now) |-> DueEntry(s, order[n])]
   : order \in Bijection(1 .. Cardinality(now), now)}

(* checkJobs: the due jobs lose their next run before the lock is released.  *)
Collect(s) ==
  /\ loop[s] = "check"
  /\ LET now == {j \in Jobs : IsDue(mem[s][j])}
     IN IF ~ running[s]
        THEN /\ loop' = [loop EXCEPT ![s] = "plan"]
             /\ UNCHANGED <<file, savedBy, mem, due>>
        ELSE /\ \E jobs \in Collections(s, now) : due' = [due EXCEPT ![s] = jobs]
             /\ Store(s, [j \in Jobs |->
                  IF j \in now THEN [mem[s][j] EXCEPT !.next = None] ELSE mem[s][j]])
             /\ loop' = [loop EXCEPT ![s] = IF now = {} THEN "plan" ELSE "run"]
  /\ UNCHANGED <<current, running, timer, clients, runs, loads>>

NextDue(s) ==
  /\ due' = [due EXCEPT ![s] = Tail(@)]
  /\ loop' = [loop EXCEPT ![s] = IF Len(due[s]) = 1 THEN "plan" ELSE "run"]

(* executeJobByID: a job that is gone is skipped; one that was disabled or   *)
(* moved meanwhile is not, nor does it matter whether the service runs.      *)
Run(s) ==
  /\ loop[s] = "run"
  /\ LET job == mem[s][Head(due[s]).id]
     IN IF job.kind = "none" THEN NextDue(s) /\ UNCHANGED runs
        ELSE /\ loop' = [loop EXCEPT ![s] = "call"]
             /\ runs' = [i \in DOMAIN runs |->
                  IF i = Head(due[s]).schedule THEN runs[i] + 1 ELSE runs[i]]
             /\ UNCHANGED due
  /\ UNCHANGED <<file, savedBy, mem, current, running, timer, clients, loads>>

(* The handler returns: a one-time job is removed, whatever time it has by   *)
(* now; a recurring one gets its next run, also when it has been disabled.   *)
Finish(s) ==
  /\ loop[s] = "call"
  /\ LET j == Head(due[s]).id
         job == mem[s][j]
     IN IF job.kind = "none" THEN UNCHANGED <<file, savedBy, mem>>
        ELSE StoreJob(s, j, IF job.kind = "at" THEN NoJob
                            ELSE [job EXCEPT !.next = NextRun(job)])
  /\ NextDue(s)
  /\ UNCHANGED <<current, running, timer, clients, runs, loads>>

-----------------------------------------------------------------------------
(* The clients.  A turn may still have the tool of a service that was        *)
(* stopped: that service has been started once.                              *)

Reachable(s) == s = current \/ loop[s] # "none"

NewJobs(number) ==
  {[kind |-> "every", at |-> 0, enabled |-> TRUE, next |-> Every, schedule |-> number]}
  \cup {[kind |-> "at", at |-> d, enabled |-> TRUE, next |-> d, schedule |-> number]
         : d \in Delays}

AddJob(s, j) ==
  /\ Reachable(s) /\ edits < MaxEdits
  /\ j \notin added /\ added' = added \cup {j}
  /\ \E job \in NewJobs(edits + 1) : StoreJob(s, j, job)
  /\ edits' = edits + 1
  /\ Notify(s)
  /\ UNCHANGED <<current, running, copy, runs, loads>>

(* An EnableJob that is not saved.                                           *)
EnableUnsaved(s, j, enabled) ==
  /\ Reachable(s) /\ Exists(s, j) /\ edits < MaxEdits
  /\ LET job == [mem[s][j] EXCEPT !.enabled = enabled]
     IN mem' = [mem EXCEPT ![s][j] =
                  [job EXCEPT !.next = IF enabled THEN NextRun(job) ELSE None]]
  /\ edits' = edits + 1
  /\ Notify(s)
  /\ UNCHANGED <<file, savedBy, current, running, copy, added, runs, loads>>

EnableJob(s, j, enabled) ==
  /\ Reachable(s) /\ Exists(s, j) /\ edits < MaxEdits
  /\ LET job == [mem[s][j] EXCEPT !.enabled = enabled]
     IN StoreJob(s, j, [job EXCEPT !.next = IF enabled THEN NextRun(job) ELSE None])
  /\ edits' = edits + 1
  /\ Notify(s)
  /\ UNCHANGED <<current, running, copy, added, runs, loads>>

RemoveJob(s, j) ==
  /\ Reachable(s) /\ Exists(s, j)
  /\ StoreJob(s, j, NoJob)
  /\ Notify(s)
  /\ UNCHANGED <<current, running, clients, runs, loads>>

(* The tool's update gets a clone of the job, changes it ...                 *)
Get(s, j) ==
  /\ Reachable(s) /\ Exists(s, j) /\ copy = NoCopy /\ edits < MaxEdits
  /\ copy' = [of |-> s, id |-> j, job |-> mem[s][j], edit |-> edits + 1]
  /\ edits' = edits + 1
  /\ UNCHANGED <<file, savedBy, mem, current, running, looping, added, runs, loads>>

SameSchedule(a, b) == a.kind = b.kind /\ a.at = b.at /\ a.schedule = b.schedule

(* UpdateJob: the clone replaces the job, its next run included unless the   *)
(* schedule or the switch changed.                                           *)
Written(job, new) ==
  [new EXCEPT !.next =
     IF ~ new.enabled THEN None
     ELSE IF job.enabled /\ SameSchedule(job, new) THEN new.next ELSE NextRun(new)]

(* ... and writes it back: with another message or another schedule.         *)
UpdateWith(new) ==
  LET s == copy.of
      j == copy.id
  IN /\ copy # NoCopy
     /\ IF Exists(s, j)
        THEN StoreJob(s, j, Written(mem[s][j], new)) /\ Notify(s)
        ELSE UNCHANGED <<file, savedBy, mem, looping>>
     /\ copy' = NoCopy
     /\ UNCHANGED <<current, running, added, edits, runs, loads>>

Update == UpdateWith(copy.job)

Reschedule ==
  /\ copy # NoCopy
  /\ \E new \in NewJobs(copy.edit) :
       UpdateWith([new EXCEPT !.enabled = copy.job.enabled])

-----------------------------------------------------------------------------
Less(n) == IF n > 0 THEN n - 1 ELSE n
Later(job) == [job EXCEPT !.at = Less(@), !.next = Less(@)]

Tick ==
  /\ file' = [j \in Jobs |-> Later(file[j])]
  /\ mem' = [s \in Services |-> [j \in Jobs |-> Later(mem[s][j])]]
  /\ timer' = [s \in Services |-> Less(timer[s])]
  /\ copy' = IF copy = NoCopy THEN NoCopy ELSE [copy EXCEPT !.job = Later(@)]
  /\ UNCHANGED <<savedBy, current, running, loop, due, added, edits, runs, loads>>

LoopStep(s) == Plan(s) \/ Sleep(s) \/ Wake(s) \/ Collect(s) \/ Run(s) \/ Finish(s)

ClientStep(s, j) ==
  \/ AddJob(s, j) \/ RemoveJob(s, j) \/ Get(s, j)
  \/ \E enabled \in BOOLEAN : EnableJob(s, j, enabled)

Next ==
  \/ \E s \in Services : Start(s) \/ LoopStep(s)
  \/ \E s \in Services, j \in Jobs : ClientStep(s, j)
  \/ Update \/ Reschedule
  \/ Stop \/ Crash \/ Tick

Spec == Init /\ [][Next]_vars

(* Time passes, the loop runs and a handler returns.  Nobody has to use the  *)
(* service.                                                                  *)
Fairness == WF_vars(Tick) /\ \A s \in Services : WF_vars(LoopStep(s))

LiveSpec == Spec /\ Fairness

-----------------------------------------------------------------------------
(* The time of a one-time job leads to at most one call, through crashes,    *)
(* reloads, edits while it runs and the file that a stopped service writes   *)
(* (service.go:191, 303).                                                    *)
AtMostOnce ==
  \A s \in Services, j \in Jobs :
    mem[s][j].kind = "at" => runs[mem[s][j].schedule] <= 1

(* What the service in charge knows is in the file, to be there after a      *)
(* crash, unless a service that a reload has stopped wrote it since          *)
(* (service.go:202, 298).                                                    *)
FileFollows ==
  \A s \in Services : running[s] /\ savedBy = s => file = mem[s]

Called(s, j) == loop[s] = "call" /\ Head(due[s]).id = j
Collected(s, j) == \E i \in DOMAIN due[s] : due[s][i].id = j
Withdrawn(s, j) ==
  \/ ~ mem[s][j].enabled
  \/ mem[s][j].next = None /\ ~ Collected(s, j)

(* An enabled job with a next run is called, however the edits, the long     *)
(* calls of other jobs and the notifications that nobody hears fall          *)
(* (service.go:155, 342).                                                    *)
DueJobRuns ==
  \A j \in Jobs :
    []<>(\A s \in Services : running[s] => Called(s, j) \/ Withdrawn(s, j))
=============================================================================
