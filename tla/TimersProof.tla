----------------------------- MODULE TimersProof -----------------------------
(* The two components that count time down.                                  *)
(*                                                                           *)
(* The cron service: the store file is the store of the service that wrote   *)
(* it last, and the time of a one-time job leads to at most one call; the    *)
(* number of an edit is the identity of the time it set.                     *)
(*                                                                           *)
(* The cooldown tracker: a failure never brings a key back earlier, because  *)
(* the expiry a failure sets is never longer than the backoff of the count   *)
(* it was computed from, and the counts are only reset once every such       *)
(* backoff has run out.  So no block outlasts the failure window after its   *)
(* last failure; and as the requests that can still fail become fewer, every *)
(* block runs out.  No bucket holds more than its burst.                     *)
EXTENDS CronService, Fallback, FiniteSetTheorems, SequenceTheorems, WellFoundedInduction,
        TLAPS

-----------------------------------------------------------------------------
(* The loop has collected what it runs, and one service runs at a time.      *)
LoopOK ==
  /\ \A s \in Services : due[s] # <<>> <=> loop[s] \in {"run", "call"}
  /\ \A s, t \in Services : running[s] /\ running[t] => s = t

-----------------------------------------------------------------------------
(* What is collected is one entry for each due job.                          *)
LEMMA CollectionsAre ==
  ASSUME TypeOK, NEW s \in Services, NEW now \in SUBSET Jobs,
         NEW jobs \in Collections(s, now)
  PROVE  /\ jobs \in Seq(Due)
         /\ \A n \in DOMAIN jobs : jobs[n].id \in now /\ jobs[n] = DueEntry(s, jobs[n].id)
         /\ \A m, n \in DOMAIN jobs : jobs[m].id = jobs[n].id => m = n
         /\ \A j \in now : \E n \in DOMAIN jobs : jobs[n].id = j
         /\ (jobs = <<>>) <=> (now = {})
<1>1. IsFiniteSet(now)
  BY FS_Subset, ConstantsAssumption
<1>2. PICK k \in Nat : k = Cardinality(now)
  BY <1>1, FS_CardinalityType
<1>3. PICK order \in Bijection(1 .. k, now) : jobs = [n \in 1 .. k |-> DueEntry(s, order[n])]
  BY <1>2 DEF Collections
<1>4. /\ order \in [1 .. k -> now]
      /\ \A m, n \in 1 .. k : order[m] = order[n] => m = n
      /\ \A j \in now : \E n \in 1 .. k : order[n] = j
  BY <1>3 DEF Bijection, Injection, Surjection, IsInjective
<1>5. \A j \in Jobs : mem[s][j].schedule \in 0 .. MaxEdits
  BY DEF TypeOK, Job
<1>6. \A j \in now : DueEntry(s, j) \in Due /\ DueEntry(s, j).id = j
  BY <1>5, ConstantsAssumption DEF DueEntry, Due
<1>7. \A n \in 1 .. k : order[n] \in now /\ jobs[n] = DueEntry(s, order[n]) /\ jobs[n].id = order[n]
  BY <1>3, <1>4, <1>6
<1>8. jobs \in [1 .. k -> Due]
  BY <1>3, <1>4, <1>6
<1>9. jobs \in Seq(Due) /\ DOMAIN jobs = 1 .. k /\ Len(jobs) = k
  BY <1>2, <1>8
<1>10. (jobs = <<>>) <=> (now = {})
  <2>1. (jobs = <<>>) <=> (k = 0)
    BY <1>2, <1>9
  <2>2. (k = 0) <=> (now = {})
    BY <1>2, <1>4
  <2> QED
    BY <2>1, <2>2
<1> QED
  BY <1>4, <1>7, <1>9, <1>10

-----------------------------------------------------------------------------
(* Every operation keeps a job a job.                                        *)
LEMMA JobTypes ==
  /\ NoJob \in Job
  /\ \A job \in Job :
       /\ Recomputed(job) \in Job /\ Later(job) \in Job
       /\ [job EXCEPT !.next = NextRun(job)] \in Job
       /\ [job EXCEPT !.next = None] \in Job
       /\ \A e \in BOOLEAN :
            LET switched == [job EXCEPT !.enabled = e]
            IN /\ switched \in Job
               /\ [switched EXCEPT !.next = IF e THEN NextRun(switched) ELSE None] \in Job
       /\ \A new \in Job : Written(job, new) \in Job
  /\ \A n \in 1 .. MaxEdits : NewJobs(n) \subseteq Job
<1>1. NoJob \in Job
  BY ConstantsAssumption DEF NoJob, Job
<1>2. ASSUME NEW job \in Job
      PROVE  /\ Recomputed(job) \in Job /\ Later(job) \in Job
             /\ [job EXCEPT !.next = NextRun(job)] \in Job
             /\ [job EXCEPT !.next = None] \in Job
             /\ \A e \in BOOLEAN :
                  LET switched == [job EXCEPT !.enabled = e]
                  IN /\ switched \in Job
                     /\ [switched EXCEPT !.next = IF e THEN NextRun(switched) ELSE None] \in Job
             /\ \A new \in Job : Written(job, new) \in Job
  <2>1. \A x \in Job : NextRun(x) \in Nat \cup {None}
    BY ConstantsAssumption DEF NextRun, Job
  <2>2. \A x \in Job, t \in Nat \cup {None} : [x EXCEPT !.next = t] \in Job
    BY DEF Job
  <2>3. \A x \in Job, e \in BOOLEAN : [x EXCEPT !.enabled = e] \in Job
    BY DEF Job
  <2>4. Later(job) \in Job
    <3>1. \A t \in Nat : Less(t) \in Nat
      BY DEF Less
    <3>2. \A t \in Nat \cup {None} : Less(t) \in Nat \cup {None}
      BY DEF Less, None
    <3>3. \A t \in Nat : [job EXCEPT !.at = t] \in Job
      BY DEF Job
    <3>4. Less(job.at) \in Nat /\ Less(job.next) \in Nat \cup {None}
      BY <3>1, <3>2 DEF Job
    <3>5. PICK x \in Job : x = [job EXCEPT !.at = Less(job.at)]
      BY <3>3, <3>4
    <3>6. Later(job) = [x EXCEPT !.next = Less(job.next)]
      BY <3>5 DEF Later, Job
    <3> QED
      BY <2>2, <3>4, <3>6
  <2>5. Recomputed(job) \in Job
    BY <2>1, <2>2 DEF Recomputed
  <2>6. \A e \in BOOLEAN :
          LET switched == [job EXCEPT !.enabled = e]
          IN /\ switched \in Job
             /\ [switched EXCEPT !.next = IF e THEN NextRun(switched) ELSE None] \in Job
    BY <2>1, <2>2, <2>3
  <2>7. \A new \in Job : Written(job, new) \in Job
    <3> SUFFICES ASSUME NEW new \in Job PROVE Written(job, new) \in Job
      OBVIOUS
    <3>1. new.next \in Nat \cup {None}
      BY DEF Job
    <3> QED
      BY <2>1, <2>2, <3>1 DEF Written
  <2> QED
    BY <2>1, <2>2, <2>4, <2>5, <2>6, <2>7
<1>3. \A n \in 1 .. MaxEdits : NewJobs(n) \subseteq Job
  <2> SUFFICES ASSUME NEW n \in 1 .. MaxEdits, NEW job \in NewJobs(n) PROVE job \in Job
    OBVIOUS
  <2>1. n \in 0 .. MaxEdits /\ 0 \in Nat /\ Every \in Nat /\ Delays \subseteq Nat
    BY ConstantsAssumption
  <2>2. CASE job = [kind |-> "every", at |-> 0, enabled |-> TRUE, next |-> Every, schedule |-> n]
    BY <2>1, <2>2 DEF Job
  <2>3. ASSUME NEW d \in Delays,
               job = [kind |-> "at", at |-> d, enabled |-> TRUE, next |-> d, schedule |-> n]
        PROVE  job \in Job
    BY <2>1, <2>3 DEF Job
  <2> QED
    BY <2>2, <2>3 DEF NewJobs
<1> QED
  BY <1>1, <1>2, <1>3

(* The store of a service and the file take what Store is given.             *)
LEMMA StoreTypes ==
  ASSUME TypeOK, NEW s \in Services, NEW jobs \in [Jobs -> Job], Store(s, jobs)
  PROVE  /\ file' \in [Jobs -> Job] /\ savedBy' \in Services \cup {None}
         /\ mem' \in [Services -> [Jobs -> Job]]
BY DEF TypeOK, Store

LEMMA StoreJobTypes ==
  ASSUME TypeOK, NEW s \in Services, NEW j \in Jobs, NEW job \in Job, StoreJob(s, j, job)
  PROVE  /\ file' \in [Jobs -> Job] /\ savedBy' \in Services \cup {None}
         /\ mem' \in [Services -> [Jobs -> Job]]
<1>1. [mem[s] EXCEPT ![j] = job] \in [Jobs -> Job]
  BY DEF TypeOK
<1> QED
  BY <1>1, StoreTypes DEF StoreJob

LEMMA NotifyTypes ==
  ASSUME TypeOK, NEW s \in Services, Notify(s)
  PROVE  /\ loop' \in [Services -> {"none", "plan", "arm", "sleep", "check", "run", "call"}]
         /\ timer' \in [Services -> Nat]
         /\ due' \in [Services -> Seq(Due)]
BY DEF TypeOK, Notify

LEMMA NextDueTypes ==
  ASSUME TypeOK, NEW s \in Services, due[s] # <<>>, NextDue(s)
  PROVE  /\ loop' \in [Services -> {"none", "plan", "arm", "sleep", "check", "run", "call"}]
         /\ due' \in [Services -> Seq(Due)]
<1>1. Tail(due[s]) \in Seq(Due)
  BY DEF TypeOK
<1> QED
  BY <1>1 DEF TypeOK, NextDue

-----------------------------------------------------------------------------
(* Every action keeps the types.                                             *)
LEMMA StartTypes == ASSUME TypeOK, NEW s \in Services, Start(s) PROVE TypeOK'
<1>1. [j \in Jobs |-> Recomputed(file[j])] \in [Jobs -> Job]
  BY JobTypes DEF TypeOK
<1>2. Store(s, [j \in Jobs |-> Recomputed(file[j])])
  BY DEF Start
<1>3. /\ file' \in [Jobs -> Job] /\ savedBy' \in Services \cup {None}
      /\ mem' \in [Services -> [Jobs -> Job]]
  BY <1>1, <1>2, StoreTypes
<1>4. loads' \in 0 .. MaxLoads
  BY ConstantsAssumption DEF TypeOK, Start
<1>5. /\ current' \in Services \cup {None} /\ running' \in [Services -> BOOLEAN]
      /\ loop' \in [Services -> {"none", "plan", "arm", "sleep", "check", "run", "call"}]
  BY DEF TypeOK, Start
<1>6. UNCHANGED <<timer, due, copy, added, edits, runs>>
  BY DEF Start, clients
<1> QED
  BY <1>3, <1>4, <1>5, <1>6 DEF TypeOK

LEMMA CrashTypes == ASSUME TypeOK, Crash PROVE TypeOK'
<1>1. Empty \in [Jobs -> Job]
  BY JobTypes DEF Empty
<1>2. mem' \in [Services -> [Jobs -> Job]]
  BY <1>1 DEF Crash
<1>3. /\ running' \in [Services -> BOOLEAN]
      /\ loop' \in [Services -> {"none", "plan", "arm", "sleep", "check", "run", "call"}]
      /\ timer' \in [Services -> Nat] /\ current' \in Services \cup {None}
      /\ due' \in [Services -> Seq(Due)]
  BY DEF Crash
<1>4. copy' = NoCopy
  BY DEF Crash
<1>5. UNCHANGED <<file, savedBy, added, edits, runs, loads>>
  BY DEF Crash
<1> QED
  BY <1>2, <1>3, <1>4, <1>5 DEF TypeOK

(* The next run the loop sleeps for is one of those that are planned.        *)
LEMMA EarliestIsOne == ASSUME NEW times, times \subseteq Nat, times # {} PROVE Earliest(times) \in times
<1>1. IsWellFoundedOn(OpToRel(<, Nat), Nat)
  BY NatLessThanWellFounded
<1>2. PICK least \in times : \A t \in times : ~ (<<t, least>> \in OpToRel(<, Nat))
  BY <1>1, WFMin
<1>3. \A t \in times : ~ (t < least)
  BY <1>2 DEF OpToRel
<1>4. \A t \in times : least <= t
  BY <1>3
<1> QED
  BY <1>2, <1>4 DEF Earliest

LEMMA LoopTypes == ASSUME TypeOK, LoopOK, NEW s \in Services, LoopStep(s) PROVE TypeOK'
<1>1. CASE Plan(s)
  <2>1. Delay(s) \in Nat
    <3>1. Planned(s) \subseteq Nat
      BY DEF Planned, TypeOK, Job
    <3>2. Planned(s) # {} => Earliest(Planned(s)) \in Nat
      BY <3>1, EarliestIsOne
    <3> QED
      BY <3>2, ConstantsAssumption DEF Delay
  <2> QED
    BY <1>1, <2>1 DEF Plan, TypeOK, clients
<1>2. CASE Sleep(s)
  BY <1>2 DEF Sleep, TypeOK, clients
<1>3. CASE Wake(s)
  <2>1. Empty \in [Jobs -> Job]
    BY JobTypes DEF Empty
  <2>2. mem' \in [Services -> [Jobs -> Job]]
    <3>1. mem \in [Services -> [Jobs -> Job]]
      BY DEF TypeOK
    <3>2. \/ mem' = [mem EXCEPT ![s] = IF s \in {current, copy.of} THEN @ ELSE Empty]
          \/ mem' = mem
      BY <1>3 DEF Wake
    <3>3. PICK kept \in [Jobs -> Job] : mem' = [mem EXCEPT ![s] = kept] \/ mem' = mem
      BY <2>1, <3>1, <3>2
    <3> QED
      BY <3>1, <3>3
  <2>3. /\ loop' \in [Services -> {"none", "plan", "arm", "sleep", "check", "run", "call"}]
        /\ timer' \in [Services -> Nat]
    BY <1>3 DEF Wake, TypeOK
  <2>4. UNCHANGED <<file, savedBy, current, running, due, copy, added, edits, runs, loads>>
    BY <1>3 DEF Wake, clients
  <2> QED
    BY <2>2, <2>3, <2>4 DEF TypeOK
<1>4. CASE Collect(s)
  <2> DEFINE now == {j \in Jobs : IsDue(mem[s][j])}
             after == [j \in Jobs |->
               IF j \in now THEN [mem[s][j] EXCEPT !.next = None] ELSE mem[s][j]]
  <2>1. UNCHANGED <<current, running, timer, copy, added, edits, runs, loads>>
    BY <1>4 DEF Collect, clients
  <2>2. CASE ~ running[s]
    BY <1>4, <2>1, <2>2 DEF Collect, TypeOK
  <2>3. CASE running[s]
    <3>1. /\ \E jobs \in Collections(s, now) : due' = [due EXCEPT ![s] = jobs]
          /\ Store(s, after)
          /\ loop' = [loop EXCEPT ![s] = IF now = {} THEN "plan" ELSE "run"]
      BY <1>4, <2>3 DEF Collect
    <3>2. now \in SUBSET Jobs
      OBVIOUS
    <3> HIDE DEF now
    <3>3. after \in [Jobs -> Job]
      <4>1. \A j \in Jobs : mem[s][j] \in Job
        BY DEF TypeOK
      <4> QED
        BY <4>1, JobTypes
    <3> HIDE DEF after
    <3>4. due' \in [Services -> Seq(Due)]
      <4>1. PICK jobs \in Collections(s, now) : due' = [due EXCEPT ![s] = jobs]
        BY <3>1
      <4>2. jobs \in Seq(Due)
        BY <3>2, <4>1, CollectionsAre
      <4> QED
        BY <4>1, <4>2 DEF TypeOK
    <3>5. loop' \in [Services -> {"none", "plan", "arm", "sleep", "check", "run", "call"}]
      BY <3>1 DEF TypeOK
    <3> QED
      BY <2>1, <3>1, <3>3, <3>4, <3>5, StoreTypes DEF TypeOK
  <2> QED
    BY <2>2, <2>3
<1>5. CASE Run(s)
  <2>1. UNCHANGED <<file, savedBy, mem, current, running, timer, copy, added, edits, loads>>
    BY <1>5 DEF Run, clients
  <2>2. due[s] # <<>>
    BY <1>5 DEF Run, LoopOK
  <2>3. CASE mem[s][Head(due[s]).id].kind = "none"
    <3>1. NextDue(s) /\ UNCHANGED runs
      BY <1>5, <2>3 DEF Run
    <3> QED
      BY <2>1, <2>2, <3>1, NextDueTypes DEF TypeOK
  <2>4. CASE mem[s][Head(due[s]).id].kind # "none"
    <3>1. /\ loop' = [loop EXCEPT ![s] = "call"]
          /\ runs' = [i \in DOMAIN runs |->
               IF i = Head(due[s]).schedule THEN runs[i] + 1 ELSE runs[i]]
          /\ UNCHANGED due
      BY <1>5, <2>4 DEF Run
    <3>2. runs' \in [1 .. MaxEdits -> Nat]
      BY <3>1 DEF TypeOK
    <3> QED
      BY <2>1, <3>1, <3>2 DEF TypeOK
  <2> QED
    BY <2>3, <2>4
<1>6. CASE Finish(s)
  <2> DEFINE j == Head(due[s]).id
  <2>1. UNCHANGED <<current, running, timer, copy, added, edits, runs, loads>>
    BY <1>6 DEF Finish, clients
  <2>2. due[s] # <<>> /\ NextDue(s)
    BY <1>6 DEF Finish, LoopOK
  <2>3. Head(due[s]) \in Due
    BY <2>2 DEF TypeOK
  <2>4. j \in Jobs
    BY <2>3 DEF Due
  <2>5. /\ file' \in [Jobs -> Job] /\ savedBy' \in Services \cup {None}
        /\ mem' \in [Services -> [Jobs -> Job]]
    <3>1. CASE mem[s][j].kind = "none"
      BY <1>6, <3>1 DEF Finish, TypeOK
    <3>2. CASE mem[s][j].kind # "none"
      <4> DEFINE job == IF mem[s][j].kind = "at" THEN NoJob
                        ELSE [mem[s][j] EXCEPT !.next = NextRun(mem[s][j])]
      <4>1. StoreJob(s, j, job)
        BY <1>6, <3>2 DEF Finish
      <4>2. mem[s][j] \in Job
        BY <2>4 DEF TypeOK
      <4>3. job \in Job
        BY <4>2, JobTypes
      <4> QED
        BY <2>4, <4>1, <4>3, StoreJobTypes
    <3> QED
      BY <3>1, <3>2
  <2> QED
    BY <2>1, <2>2, <2>5, NextDueTypes DEF TypeOK
<1> QED
  BY <1>1, <1>2, <1>3, <1>4, <1>5, <1>6 DEF LoopStep

LEMMA ClientTypes == ASSUME TypeOK, NEW s \in Services, NEW j \in Jobs, ClientStep(s, j) PROVE TypeOK'
<1>1. mem[s][j] \in Job /\ edits \in Nat
  BY ConstantsAssumption DEF TypeOK
<1>2. CASE AddJob(s, j)
  <2>1. edits + 1 \in 1 .. MaxEdits /\ edits' = edits + 1
    BY <1>1, <1>2, ConstantsAssumption DEF AddJob
  <2>2. PICK job \in NewJobs(edits + 1) : StoreJob(s, j, job)
    BY <1>2 DEF AddJob
  <2>3. job \in Job
    BY <2>1, <2>2, JobTypes
  <2>4. Notify(s) /\ added' = added \cup {j} /\ UNCHANGED <<current, running, copy, runs, loads>>
    BY <1>2 DEF AddJob
  <2>5. added' \subseteq Jobs /\ edits' \in 0 .. MaxEdits
    BY <2>1, <2>4, ConstantsAssumption DEF TypeOK
  <2> QED
    BY <2>2, <2>3, <2>4, <2>5, StoreJobTypes, NotifyTypes DEF TypeOK
<1>3. CASE RemoveJob(s, j)
  <2>1. StoreJob(s, j, NoJob) /\ Notify(s) /\ UNCHANGED <<current, running, copy, added, edits, runs, loads>>
    BY <1>3 DEF RemoveJob, clients
  <2> QED
    BY <2>1, JobTypes, StoreJobTypes, NotifyTypes DEF TypeOK
<1>4. CASE Get(s, j)
  <2>1. edits + 1 \in 1 .. MaxEdits /\ edits' = edits + 1
    BY <1>1, <1>4, ConstantsAssumption DEF Get
  <2>2. copy' \in [of : Services, id : Jobs, job : Job, edit : 1 .. MaxEdits]
    BY <1>1, <1>4, <2>1 DEF Get
  <2>3. UNCHANGED <<file, savedBy, mem, current, running, loop, timer, due, added, runs, loads>>
    BY <1>4 DEF Get, looping
  <2>4. edits' \in 0 .. MaxEdits
    BY <2>1, ConstantsAssumption
  <2> QED
    BY <2>2, <2>3, <2>4 DEF TypeOK
<1>5. ASSUME NEW e \in BOOLEAN, EnableJob(s, j, e) PROVE TypeOK'
  <2> DEFINE switched == [mem[s][j] EXCEPT !.enabled = e]
             job == [switched EXCEPT !.next = IF e THEN NextRun(switched) ELSE None]
  <2>1. /\ StoreJob(s, j, job) /\ Notify(s) /\ edits' = edits + 1 /\ edits < MaxEdits
        /\ UNCHANGED <<current, running, copy, added, runs, loads>>
    BY <1>5 DEF EnableJob
  <2>2. job \in Job
    BY <1>1, JobTypes
  <2> HIDE DEF job
  <2>3. edits' \in 0 .. MaxEdits
    BY <1>1, <2>1, ConstantsAssumption
  <2> QED
    BY <2>1, <2>2, <2>3, StoreJobTypes, NotifyTypes DEF TypeOK
<1> QED
  BY <1>2, <1>3, <1>4, <1>5 DEF ClientStep

LEMMA UpdateTypes == ASSUME TypeOK, NEW new \in Job, UpdateWith(new) PROVE TypeOK'
<1> DEFINE s == copy.of
           j == copy.id
<1>1. copy \in [of : Services, id : Jobs, job : Job, edit : 1 .. MaxEdits]
  BY DEF UpdateWith, TypeOK
<1>2. s \in Services /\ j \in Jobs
  BY <1>1
<1>3. copy' = NoCopy /\ UNCHANGED <<current, running, added, edits, runs, loads>>
  BY DEF UpdateWith
<1>4. CASE Exists(s, j)
  <2>1. StoreJob(s, j, Written(mem[s][j], new)) /\ Notify(s)
    BY <1>4 DEF UpdateWith
  <2>2. Written(mem[s][j], new) \in Job
    <3>1. mem[s][j] \in Job
      BY <1>2 DEF TypeOK
    <3> QED
      BY <3>1, JobTypes
  <2> HIDE DEF s, j
  <2> QED
    BY <1>2, <1>3, <2>1, <2>2, StoreJobTypes, NotifyTypes DEF TypeOK
<1>5. CASE ~ Exists(s, j)
  BY <1>3, <1>5 DEF UpdateWith, TypeOK, looping
<1> QED
  BY <1>4, <1>5

LEMMA TickTypes == ASSUME TypeOK, Tick PROVE TypeOK'
<1>1. \A job \in Job : Later(job) \in Job
  BY JobTypes
<1>2. \A t \in Nat : Less(t) \in Nat
  BY DEF Less
<1>3. /\ file' \in [Jobs -> Job] /\ mem' \in [Services -> [Jobs -> Job]]
      /\ timer' \in [Services -> Nat]
  <2>1. \A j \in Jobs : Later(file[j]) \in Job
    BY <1>1 DEF TypeOK
  <2>2. \A s \in Services, j \in Jobs : Later(mem[s][j]) \in Job
    BY <1>1 DEF TypeOK
  <2>3. \A s \in Services : Less(timer[s]) \in Nat
    BY <1>2 DEF TypeOK
  <2> QED
    BY <2>1, <2>2, <2>3 DEF Tick
<1>4. copy' = NoCopy \/ copy' \in [of : Services, id : Jobs, job : Job, edit : 1 .. MaxEdits]
  <2>1. CASE copy = NoCopy
    BY <2>1 DEF Tick
  <2>2. CASE copy # NoCopy
    <3>1. copy \in [of : Services, id : Jobs, job : Job, edit : 1 .. MaxEdits]
      BY <2>2 DEF TypeOK
    <3>2. copy' = [copy EXCEPT !.job = Later(copy.job)]
      BY <2>2, <3>1 DEF Tick
    <3> QED
      BY <1>1, <3>1, <3>2
  <2> QED
    BY <2>1, <2>2
<1>5. UNCHANGED <<savedBy, current, running, loop, due, added, edits, runs, loads>>
  BY DEF Tick
<1> QED
  BY <1>3, <1>4, <1>5 DEF TypeOK

LEMMA Typing == ASSUME TypeOK, LoopOK, [Next]_vars PROVE TypeOK'
<1>1. ASSUME NEW s \in Services, Start(s) PROVE TypeOK'
  BY <1>1, StartTypes
<1>2. ASSUME NEW s \in Services, LoopStep(s) PROVE TypeOK'
  BY <1>2, LoopTypes
<1>3. ASSUME NEW s \in Services, NEW j \in Jobs, ClientStep(s, j) PROVE TypeOK'
  BY <1>3, ClientTypes
<1>4. CASE Update
  <2>1. copy.job \in Job
    BY <1>4 DEF Update, UpdateWith, TypeOK
  <2> QED
    BY <1>4, <2>1, UpdateTypes DEF Update
<1>5. CASE Reschedule
  <2>1. copy \in [of : Services, id : Jobs, job : Job, edit : 1 .. MaxEdits]
    BY <1>5 DEF Reschedule, TypeOK
  <2>2. PICK new \in NewJobs(copy.edit) : UpdateWith([new EXCEPT !.enabled = copy.job.enabled])
    BY <1>5 DEF Reschedule
  <2>3. new \in Job /\ copy.job.enabled \in BOOLEAN
    BY <2>1, <2>2, JobTypes DEF Job
  <2>4. [new EXCEPT !.enabled = copy.job.enabled] \in Job
    BY <2>3 DEF Job
  <2> QED
    BY <2>2, <2>4, UpdateTypes
<1>6. CASE Stop
  BY <1>6 DEF Stop, TypeOK, looping, clients
<1>7. CASE Crash
  BY <1>7, CrashTypes
<1>8. CASE Tick
  BY <1>8, TickTypes
<1>9. CASE UNCHANGED vars
  BY <1>9 DEF vars, TypeOK
<1> QED
  BY <1>1, <1>2, <1>3, <1>4, <1>5, <1>6, <1>7, <1>8, <1>9 DEF Next

-----------------------------------------------------------------------------
(* A stopped service stays stopped until it is started anew, and only while  *)
(* no other runs; what is due is what the loop is running.                   *)
LEMMA NotifyLoop ==
  ASSUME TypeOK, LoopOK, NEW s \in Services, Notify(s), UNCHANGED running PROVE LoopOK'
<1>1. due' = due /\ \A t \in Services : loop'[t] \in {"run", "call"} <=> loop[t] \in {"run", "call"}
  BY DEF Notify, TypeOK
<1> QED
  BY <1>1 DEF LoopOK

LEMMA NextDueLoop ==
  ASSUME TypeOK, LoopOK, NEW s \in Services, due[s] # <<>>, NextDue(s), UNCHANGED running PROVE LoopOK'
<1>1. due[s] \in Seq(Due) /\ Len(due[s]) \in Nat \ {0}
  BY DEF TypeOK
<1>2. Tail(due[s]) # <<>> <=> Len(due[s]) # 1
  <2>1. PICK rest \in Seq(Due) : rest = Tail(due[s]) /\ Len(rest) = Len(due[s]) - 1
    BY <1>1, HeadTailProperties
  <2>2. rest = <<>> <=> Len(rest) = 0
    OBVIOUS
  <2> QED
    BY <1>1, <2>1, <2>2
<1>3. /\ due'[s] = Tail(due[s])
      /\ loop'[s] = IF Len(due[s]) = 1 THEN "plan" ELSE "run"
      /\ \A t \in Services \ {s} : due'[t] = due[t] /\ loop'[t] = loop[t]
  BY DEF NextDue, TypeOK
<1> QED
  BY <1>2, <1>3 DEF LoopOK

LEMMA LoopKept == ASSUME TypeOK, LoopOK, [Next]_vars PROVE LoopOK'
<1>1. ASSUME NEW s \in Services, Start(s) PROVE LoopOK'
  <2>1. /\ due' = due /\ loop' = [loop EXCEPT ![s] = "plan"] /\ loop[s] = "none"
        /\ running' = [running EXCEPT ![s] = TRUE]
        /\ \A t \in Services : ~ running[t]
    BY <1>1 DEF Start, Unused
  <2> QED
    BY <2>1 DEF LoopOK, TypeOK
<1>2. ASSUME NEW s \in Services, LoopStep(s) PROVE LoopOK'
  <2>0. running' = running
    BY <1>2 DEF LoopStep, Plan, Sleep, Wake, Collect, Run, Finish
  <2>1. CASE Plan(s) \/ Sleep(s) \/ Wake(s)
    <3>1. due' = due /\ \E place \in {"none", "arm", "sleep", "check"} : loop' = [loop EXCEPT ![s] = place]
      BY <2>1 DEF Plan, Sleep, Wake, clients
    <3>2. loop[s] \in {"plan", "arm", "sleep"}
      BY <2>1 DEF Plan, Sleep, Wake
    <3> QED
      BY <2>0, <3>1, <3>2 DEF LoopOK, TypeOK
  <2>2. CASE Collect(s)
    <3> DEFINE now == {j \in Jobs : IsDue(mem[s][j])}
    <3>1. CASE ~ running[s]
      <4>1. due' = due /\ loop' = [loop EXCEPT ![s] = "plan"] /\ loop[s] = "check"
        BY <2>2, <3>1 DEF Collect
      <4> QED
        BY <2>0, <4>1 DEF LoopOK, TypeOK
    <3>2. CASE running[s]
      <4>1. PICK jobs \in Collections(s, now) : due' = [due EXCEPT ![s] = jobs]
        BY <2>2, <3>2 DEF Collect
      <4>2. loop' = [loop EXCEPT ![s] = IF now = {} THEN "plan" ELSE "run"]
        BY <2>2, <3>2 DEF Collect
      <4>3. now \in SUBSET Jobs
        OBVIOUS
      <4> HIDE DEF now
      <4>4. jobs = <<>> <=> now = {}
        BY <4>1, <4>3, CollectionsAre
      <4> QED
        BY <2>0, <4>1, <4>2, <4>4 DEF LoopOK, TypeOK
    <3> QED
      BY <3>1, <3>2
  <2>3. CASE Run(s)
    <3>1. loop[s] = "run" /\ due[s] # <<>>
      BY <2>3 DEF Run, LoopOK
    <3>2. NextDue(s) \/ (due' = due /\ loop' = [loop EXCEPT ![s] = "call"])
      BY <2>3 DEF Run
    <3>3. CASE NextDue(s)
      BY <2>0, <3>1, <3>3, NextDueLoop
    <3>4. CASE due' = due /\ loop' = [loop EXCEPT ![s] = "call"]
      BY <2>0, <3>1, <3>4 DEF LoopOK, TypeOK
    <3> QED
      BY <3>2, <3>3, <3>4
  <2>4. CASE Finish(s)
    <3>1. due[s] # <<>> /\ NextDue(s)
      BY <2>4 DEF Finish, LoopOK
    <3> QED
      BY <2>0, <3>1, NextDueLoop
  <2> QED
    BY <1>2, <2>1, <2>2, <2>3, <2>4 DEF LoopStep
<1>3. ASSUME NEW s \in Services, NEW j \in Jobs, ClientStep(s, j) PROVE LoopOK'
  <2>1. running' = running /\ (Notify(s) \/ (due' = due /\ loop' = loop))
    BY <1>3 DEF ClientStep, AddJob, RemoveJob, Get, EnableJob, looping
  <2> QED
    BY <2>1, NotifyLoop DEF LoopOK
<1>4. ASSUME NEW new, UpdateWith(new) PROVE LoopOK'
  <2>1. running' = running /\ copy.of \in Services
    BY <1>4 DEF UpdateWith, TypeOK
  <2>2. Notify(copy.of) \/ (due' = due /\ loop' = loop)
    BY <1>4 DEF UpdateWith, looping
  <2> QED
    BY <2>1, <2>2, NotifyLoop DEF LoopOK
<1>5. CASE Stop
  <2>1. due' = due /\ loop' = loop /\ running' = [running EXCEPT ![current] = FALSE]
    BY <1>5 DEF Stop, looping
  <2> QED
    BY <2>1 DEF LoopOK, TypeOK
<1>6. CASE Crash
  BY <1>6 DEF Crash, LoopOK
<1>7. CASE Tick \/ UNCHANGED vars
  BY <1>7 DEF Tick, vars, LoopOK
<1> QED
  BY <1>1, <1>2, <1>3, <1>4, <1>5, <1>6, <1>7 DEF Next, Update, Reschedule

LEMMA TypesStart == ASSUME Init PROVE TypeOK /\ LoopOK
<1>1. Empty \in [Jobs -> Job]
  BY JobTypes DEF Empty
<1> QED
  BY <1>1, ConstantsAssumption DEF Init, TypeOK, LoopOK

-----------------------------------------------------------------------------
(* The file follows the service in charge: a step that writes the one writes *)
(* the other.                                                                *)
LEMMA FileKept == ASSUME TypeOK, LoopOK, FileFollows, [Next]_vars PROVE FileFollows'
<1> SUFFICES ASSUME NEW s \in Services, running'[s], savedBy' = s
             PROVE  file' = mem'[s]
  BY DEF FileFollows
<1>1. ASSUME NEW t \in Services, NEW jobs, Store(t, jobs) PROVE file' = mem'[s]
  BY <1>1 DEF Store, TypeOK
<1>2. CASE running[s] /\ savedBy = s /\ UNCHANGED file /\ mem'[s] = mem[s]
  BY <1>2 DEF FileFollows
<1>3. ASSUME NEW t \in Services, Start(t) PROVE file' = mem'[s]
  BY <1>1, <1>3 DEF Start
<1>4. ASSUME NEW t \in Services, LoopStep(t) PROVE file' = mem'[s]
  <2>0. running' = running
    BY <1>4 DEF LoopStep, Plan, Sleep, Wake, Collect, Run, Finish
  <2>1. CASE Plan(t) \/ Sleep(t) \/ Run(t)
    BY <1>2, <2>0, <2>1 DEF Plan, Sleep, Run
  <2>2. CASE Wake(t)
    BY <1>2, <2>0, <2>2 DEF Wake, TypeOK
  <2>3. CASE Collect(t)
    BY <1>1, <1>2, <2>0, <2>3 DEF Collect
  <2>4. CASE Finish(t)
    BY <1>1, <1>2, <2>0, <2>4 DEF Finish, StoreJob
  <2> QED
    BY <1>4, <2>1, <2>2, <2>3, <2>4 DEF LoopStep
<1>5. ASSUME NEW t \in Services, NEW j \in Jobs, ClientStep(t, j) PROVE file' = mem'[s]
  BY <1>1, <1>2, <1>5 DEF ClientStep, AddJob, RemoveJob, Get, EnableJob, StoreJob
<1>6. ASSUME NEW new, UpdateWith(new) PROVE file' = mem'[s]
  <2>1. copy.of \in Services
    BY <1>6 DEF UpdateWith, TypeOK
  <2> QED
    BY <1>1, <1>2, <1>6, <2>1 DEF UpdateWith, StoreJob
<1>7. CASE Stop
  BY <1>2, <1>7 DEF Stop, TypeOK
<1>8. CASE Crash
  BY <1>8 DEF Crash
<1>9. CASE Tick
  <2>1. running[s] /\ savedBy = s
    BY <1>9 DEF Tick
  <2>2. file = mem[s]
    BY <2>1 DEF FileFollows
  <2> QED
    BY <1>9, <2>2 DEF Tick
<1>10. CASE UNCHANGED vars
  BY <1>2, <1>10 DEF vars
<1> QED
  BY <1>3, <1>4, <1>5, <1>6, <1>7, <1>8, <1>9, <1>10 DEF Next, Update, Reschedule

(* Types: a timer is armed for a time ahead, and what is due is a list of    *)
(* jobs, with their identity, not of places in the store (cron/service.go).  *)
THEOREM CronTypes == Spec => []TypeOK
<1>1. Init => TypeOK /\ LoopOK
  BY TypesStart DEF Init
<1>2. TypeOK /\ LoopOK /\ [Next]_vars => (TypeOK /\ LoopOK)'
  BY Typing, LoopKept
<1> QED
  BY <1>1, <1>2, PTL DEF Spec

(* What the service in charge knows is in the file, unless a service that    *)
(* was stopped has written it since.                                         *)
THEOREM FileFollowsHolds == Spec => []FileFollows
<1>1. Init => TypeOK /\ LoopOK /\ FileFollows
  BY TypesStart DEF Init, FileFollows
<1>2. TypeOK /\ LoopOK /\ FileFollows /\ [Next]_vars => (TypeOK /\ LoopOK /\ FileFollows)'
  BY Typing, LoopKept, FileKept
<1> QED
  BY <1>1, <1>2, PTL DEF Spec

-----------------------------------------------------------------------------
(* Where a job is kept: in the file, in the store of a service, in the clone *)
(* a client has.                                                             *)
HeldJobs(j) ==
  {file[j]} \cup {mem[s][j] : s \in Services}
    \cup (IF copy # NoCopy /\ copy.id = j THEN {copy.job} ELSE {})

OneTime(j) == {job \in HeldJobs(j) : job.kind = "at"}

(* What s has collected and not called yet.                                  *)
Uncalled(s) == {n \in DOMAIN due[s] : ~ (n = 1 /\ loop[s] = "call")}

(* The time of schedule i has come: it was called or is about to be.         *)
Spent(i) ==
  \/ i \in DOMAIN runs /\ runs[i] > 0
  \/ \E s \in Services : \E n \in Uncalled(s) : due[s][n].schedule = i

(* A one-time job has no next run but its time, and none while disabled.     *)
NextOK(job) == job.next \in {None, job.at} /\ (~ job.enabled => job.next = None)

KnownOK == \A j \in Jobs : \A job \in HeldJobs(j) : job.kind # "none" => j \in added

(* Once the time of a schedule has come, every copy of its job says so.      *)
OneTimeOK ==
  \A j \in Jobs : \A job \in OneTime(j) :
    /\ NextOK(job)
    /\ job.schedule \in 1 .. edits
    /\ copy # NoCopy => job.schedule # copy.edit
    /\ Spent(job.schedule) => job.at = 0

(* Copies with the same schedule are copies of one job.                      *)
SchedulesOK ==
  \A j, k \in Jobs : \A a \in OneTime(j), b \in OneTime(k) :
    a.schedule = b.schedule => j = k /\ a.at = b.at

(* The number a client has reserved for its change is not in use.            *)
NumbersOK ==
  /\ copy # NoCopy => copy.edit <= edits /\ copy.id \in added
  /\ \A i \in 1 .. MaxEdits : Spent(i) => i <= edits /\ (copy # NoCopy => i # copy.edit)

(* A schedule is called once, or collected once and not called yet.          *)
OnceOK ==
  /\ \A i \in 1 .. MaxEdits : runs[i] <= 1
  /\ \A s \in Services : \A n \in Uncalled(s) :
       due[s][n].schedule # 0 =>
         /\ runs[due[s][n].schedule] = 0
         /\ \A t \in Services : \A m \in Uncalled(t) :
              due[t][m].schedule = due[s][n].schedule => t = s /\ m = n

(* A job whose time has come has a next run only while its call is pending   *)
(* or under way, after which the job is removed.                             *)
Safe(s, j, job) ==
  job.kind = "at" /\ job.next # None /\ Spent(job.schedule) => Collected(s, j)

MemOK == \A s \in Services, j \in Jobs : running[s] => Safe(s, j, mem[s][j])

CopyOK ==
  copy # NoCopy /\ Exists(copy.of, copy.id) =>
    /\ SameSchedule(mem[copy.of][copy.id], copy.job)
    /\ running[copy.of] => Safe(copy.of, copy.id, copy.job)

IInv ==
  /\ TypeOK /\ LoopOK
  /\ KnownOK /\ OneTimeOK /\ SchedulesOK /\ NumbersOK /\ OnceOK /\ MemOK /\ CopyOK

-----------------------------------------------------------------------------
LEMMA StoredTypes ==
  ASSUME TypeOK PROVE \A s \in Services, j \in Jobs : mem[s][j] \in Job
BY DEF TypeOK

LEMMA HeldAreJobs == ASSUME TypeOK, NEW j \in Jobs PROVE HeldJobs(j) \subseteq Job
<1>1. copy # NoCopy => copy.job \in Job
  BY DEF TypeOK
<1>2. file[j] \in Job /\ \A s \in Services : mem[s][j] \in Job
  BY DEF TypeOK
<1> QED
  BY <1>1, <1>2 DEF HeldJobs

(* The copies a step leaves are older ones with the same schedule, and of a  *)
(* new schedule there is one job.                                            *)
LEMMA JobsFollow ==
  ASSUME OneTimeOK, SchedulesOK, edits <= edits', edits \in Nat, edits' \in Nat,
         NEW g \in [Nat -> Nat], g[0] = 0,
         NEW new \in SUBSET Nat,
         \A j \in Jobs : \A job \in OneTime(j)' :
           /\ NextOK(job)
           /\ \/ job.schedule \in new
              \/ \E old \in OneTime(j) :
                   old.schedule = job.schedule /\ job.at = g[old.at],
         \A j \in Jobs : \A old \in OneTime(j) :
           /\ old.schedule \notin new
           /\ copy' # NoCopy => old.schedule # copy'.edit
           /\ Spent(old.schedule)' => old.at = 0,
         \A n \in new :
           /\ n \in 1 .. edits' /\ ~ Spent(n)'
           /\ copy' # NoCopy => n # copy'.edit,
         \A j, k \in Jobs : \A a \in OneTime(j)', b \in OneTime(k)' :
           a.schedule \in new /\ b.schedule = a.schedule => j = k /\ a.at = b.at
  PROVE  OneTimeOK' /\ SchedulesOK'
<1>1. ASSUME NEW j \in Jobs, NEW job \in OneTime(j)'
      PROVE  /\ NextOK(job)
             /\ job.schedule \in 1 .. edits'
             /\ copy' # NoCopy => job.schedule # copy'.edit
             /\ Spent(job.schedule)' => job.at = 0
  <2>1. CASE job.schedule \in new
    BY <1>1, <2>1
  <2>2. ASSUME NEW old \in OneTime(j), old.schedule = job.schedule, job.at = g[old.at]
        PROVE  /\ job.schedule \in 1 .. edits'
               /\ copy' # NoCopy => job.schedule # copy'.edit
               /\ Spent(job.schedule)' => job.at = 0
    <3>1. old.schedule \in 1 .. edits
      BY DEF OneTimeOK
    <3> QED
      BY <2>2, <3>1
  <2> QED
    BY <1>1, <2>1, <2>2
<1>2. ASSUME NEW j \in Jobs, NEW k \in Jobs, NEW a \in OneTime(j)', NEW b \in OneTime(k)',
             a.schedule = b.schedule
      PROVE  j = k /\ a.at = b.at
  <2>1. CASE a.schedule \in new
    BY <1>2, <2>1
  <2>2. CASE a.schedule \notin new
    <3>1. PICK x \in OneTime(j) : x.schedule = a.schedule /\ a.at = g[x.at]
      BY <2>2
    <3>2. PICK y \in OneTime(k) : y.schedule = b.schedule /\ b.at = g[y.at]
      BY <1>2, <2>2
    <3>3. j = k /\ x.at = y.at
      BY <1>2, <3>1, <3>2 DEF SchedulesOK
    <3> QED
      BY <3>1, <3>2, <3>3
  <2> QED
    BY <2>1, <2>2
<1>3. OneTimeOK'
  BY <1>1 DEF OneTimeOK, NextOK
<1>4. SchedulesOK'
  BY <1>2 DEF SchedulesOK
<1> QED
  BY <1>3, <1>4

(* ... in particular if the step makes no job and no time passes.            *)
LEMMA JobsStay ==
  ASSUME TypeOK, TypeOK', OneTimeOK, SchedulesOK, edits <= edits',
         \A j \in Jobs : \A job \in OneTime(j)' :
           /\ NextOK(job)
           /\ \E old \in OneTime(j) : old.schedule = job.schedule /\ job.at = old.at,
         \A j \in Jobs : \A old \in OneTime(j) :
           /\ copy' # NoCopy => old.schedule # copy'.edit
           /\ Spent(old.schedule)' => old.at = 0
  PROVE  OneTimeOK' /\ SchedulesOK'
<1> DEFINE g == [n \in Nat |-> n]
           new == {}
<1>1. g \in [Nat -> Nat] /\ g[0] = 0 /\ new \in SUBSET Nat /\ \A n : n \notin new
  OBVIOUS
<1>2. \A j \in Jobs : \A job \in OneTime(j) : job.at \in Nat
  BY HeldAreJobs DEF OneTime, Job
<1>3. \A j \in Jobs : \A job \in OneTime(j)' :
        /\ NextOK(job)
        /\ \/ job.schedule \in new
           \/ \E old \in OneTime(j) :
                old.schedule = job.schedule /\ job.at = g[old.at]
  BY <1>2
<1>4. \A j \in Jobs : \A old \in OneTime(j) :
        /\ old.schedule \notin new
        /\ copy' # NoCopy => old.schedule # copy'.edit
        /\ Spent(old.schedule)' => old.at = 0
  OBVIOUS
<1>5. \A n \in new :
        /\ n \in 1 .. edits' /\ ~ Spent(n)'
        /\ copy' # NoCopy => n # copy'.edit
  OBVIOUS
<1>6. \A j, k \in Jobs : \A a \in OneTime(j)', b \in OneTime(k)' :
        a.schedule \in new /\ b.schedule = a.schedule => j = k /\ a.at = b.at
  OBVIOUS
<1>7. edits \in Nat /\ edits' \in Nat
  BY ConstantsAssumption DEF TypeOK
<1> HIDE DEF g, new
<1> QED
  BY <1>1, <1>3, <1>4, <1>5, <1>6, <1>7, JobsFollow

(* A step that calls nothing leaves what is collected or drops it.           *)
Drains ==
  /\ runs' = runs
  /\ \A s \in Services : \E d \in {0, 1} : \A n \in Uncalled(s)' :
       n + d \in Uncalled(s) /\ due'[s][n] = due[s][n + d]

LEMMA DrainsKeeps ==
  ASSUME TypeOK, TypeOK', OnceOK, Drains
  PROVE  /\ \A i \in Nat : Spent(i)' => Spent(i)
         /\ OnceOK'
<1>1. \A s \in Services : Uncalled(s)' \subseteq Nat
  <2>1. \A s \in Services : due'[s] \in Seq(Due)
    BY DEF TypeOK
  <2> QED
    BY <2>1 DEF Uncalled
<1>2. ASSUME NEW i \in Nat, Spent(i)' PROVE Spent(i)
  <2>1. CASE i \in DOMAIN runs' /\ runs'[i] > 0
    BY <2>1 DEF Drains, Spent
  <2>2. ASSUME NEW s \in Services, NEW n \in Uncalled(s)', due'[s][n].schedule = i
        PROVE  Spent(i)
    <3>1. PICK m \in Uncalled(s) : due'[s][n] = due[s][m]
      BY DEF Drains
    <3> QED
      BY <2>2, <3>1 DEF Spent
  <2> QED
    BY <1>2, <2>1, <2>2 DEF Spent
<1>3. ASSUME NEW s \in Services, NEW n \in Uncalled(s)', due'[s][n].schedule # 0
      PROVE  /\ runs'[due'[s][n].schedule] = 0
             /\ \A t \in Services : \A m \in Uncalled(t)' :
                  due'[t][m].schedule = due'[s][n].schedule => t = s /\ m = n
  <2>1. PICK d \in {0, 1} : \A k \in Uncalled(s)' :
              k + d \in Uncalled(s) /\ due'[s][k] = due[s][k + d]
    BY DEF Drains
  <2>2. runs[due[s][n + d].schedule] = 0
    BY <1>3, <2>1 DEF OnceOK
  <2>3. ASSUME NEW t \in Services, NEW m \in Uncalled(t)',
               due'[t][m].schedule = due'[s][n].schedule
        PROVE  t = s /\ m = n
    <3>1. PICK e \in {0, 1} : \A k \in Uncalled(t)' :
                k + e \in Uncalled(t) /\ due'[t][k] = due[t][k + e]
      BY DEF Drains
    <3>2. t = s /\ m + e = n + d
      BY <1>3, <2>1, <2>3, <3>1 DEF OnceOK
    <3>3. m + d = n + d
      <4>1. m + d \in Uncalled(s) /\ due[s][m + d] = due'[s][m]
        BY <2>1, <3>2
      <4> QED
        BY <1>3, <2>1, <2>3, <3>2, <4>1 DEF OnceOK
    <3> QED
      BY <1>1, <3>2, <3>3
  <2> QED
    BY <2>1, <2>2, <2>3 DEF Drains
<1>4. OnceOK'
  <2>1. \A i \in 1 .. MaxEdits : runs'[i] <= 1
    BY DEF OnceOK, Drains
  <2> QED
    BY <1>3, <2>1 DEF OnceOK
<1> QED
  BY <1>2, <1>4

(* A step that leaves jobs alone or forgets them.                            *)
LEMMA QuietKeeps ==
  ASSUME IInv, TypeOK', LoopOK',
         UNCHANGED <<file, added, edits, runs>>,
         copy' = copy \/ copy' = NoCopy,
         \A s \in Services :
           /\ running'[s] => running[s]
           /\ \/ mem'[s] = mem[s]
              \/ mem'[s] = Empty /\ ~ running'[s] /\ (copy' # NoCopy => copy.of # s)
           /\ \/ due'[s] = due[s] /\ (loop'[s] = "call" <=> loop[s] = "call")
              \/ due'[s] = <<>> /\ ~ running'[s] /\ copy' = NoCopy
  PROVE  IInv'
<1> USE DEF IInv
<1>1. Drains
  <2> SUFFICES ASSUME NEW s \in Services, NEW n \in Uncalled(s)'
               PROVE  n \in Uncalled(s) /\ due'[s][n] = due[s][n] /\ n + 0 = n
    BY DEF Drains
  <2>1. due'[s] \in Seq(Due)
    BY DEF TypeOK
  <2> QED
    BY <2>1 DEF Uncalled
<1>2. (\A i \in Nat : Spent(i)' => Spent(i)) /\ OnceOK'
  BY <1>1, DrainsKeeps
<1>3. \A j \in Jobs : HeldJobs(j)' \subseteq HeldJobs(j) \cup {NoJob}
  BY DEF HeldJobs, Empty
<1>4. \A j \in Jobs : OneTime(j)' \subseteq OneTime(j)
  BY <1>3 DEF OneTime, NoJob
<1>5. \A j \in Jobs : \A job \in OneTime(j) : job.at \in Nat /\ job.schedule \in Nat
  BY HeldAreJobs, ConstantsAssumption DEF OneTime, Job
<1>6. OneTimeOK' /\ SchedulesOK'
  <2>1. \A j \in Jobs : \A job \in OneTime(j)' :
          /\ NextOK(job)
          /\ \E old \in OneTime(j) : old.schedule = job.schedule /\ job.at = old.at
    BY <1>4 DEF OneTimeOK
  <2>2. \A j \in Jobs : \A old \in OneTime(j) :
          /\ copy' # NoCopy => old.schedule # copy'.edit
          /\ Spent(old.schedule)' => old.at = 0
    BY <1>2, <1>5 DEF OneTimeOK
  <2>3. edits <= edits'
    BY ConstantsAssumption DEF TypeOK
  <2> QED
    BY <2>1, <2>2, <2>3, JobsStay
<1>7. KnownOK'
  BY <1>3 DEF KnownOK, NoJob
<1>8. NumbersOK'
  BY <1>2 DEF NumbersOK
<1>9. \A s \in Services, j \in Jobs, job \in Job :
        /\ Safe(s, j, job)
        /\ running'[s] \/ copy' # NoCopy
        => Safe(s, j, job)'
  BY <1>2 DEF Safe, Collected, Job
<1>10. MemOK'
  <2> SUFFICES ASSUME NEW s \in Services, NEW j \in Jobs, running'[s]
               PROVE  Safe(s, j, mem[s][j])' /\ mem'[s] = mem[s]
    BY DEF MemOK
  <2>1. running[s] /\ mem'[s] = mem[s] /\ mem[s][j] \in Job
    BY DEF TypeOK
  <2>2. Safe(s, j, mem[s][j])
    BY <2>1 DEF MemOK
  <2>3. PICK job \in Job : job = mem[s][j]
    BY <2>1
  <2> QED
    BY <1>9, <2>1, <2>2, <2>3
<1>11. CopyOK'
  <2> SUFFICES ASSUME copy' # NoCopy, Exists(copy.of, copy.id)'
               PROVE  /\ SameSchedule(mem[copy.of][copy.id], copy.job)'
                      /\ running[copy.of]' => Safe(copy.of, copy.id, copy.job)'
    BY DEF CopyOK
  <2>1. copy' = copy /\ copy \in [of : Services, id : Jobs, job : Job, edit : 1 .. MaxEdits]
    BY DEF TypeOK
  <2>2. PICK s \in Services, j \in Jobs, job \in Job : s = copy.of /\ j = copy.id /\ job = copy.job
    BY <2>1
  <2>3. mem'[s] = mem[s]
    BY <2>1, <2>2
  <2>4. Exists(s, j)
    BY <2>1, <2>2, <2>3 DEF Exists
  <2>5. SameSchedule(mem[s][j], job) /\ (running[s] => Safe(s, j, job))
    BY <2>1, <2>2, <2>4 DEF CopyOK
  <2>6. running'[s] => Safe(s, j, job)'
    BY <1>9, <2>5
  <2> QED
    BY <2>1, <2>2, <2>3, <2>5, <2>6
<1> QED
  BY <1>2, <1>6, <1>7, <1>8, <1>10, <1>11

(* A step that writes one job of one service: the job it writes is no        *)
(* one-time job, or has the schedule of the one it replaces, or a new one.   *)
LEMMA WriteKeeps ==
  ASSUME IInv, TypeOK', LoopOK', Drains, running' = running,
         NEW s \in Services, NEW j \in Jobs, NEW job \in Job, StoreJob(s, j, job),
         added \subseteq added', job.kind # "none" => j \in added',
         edits <= edits',
         copy' = copy \/ copy' = NoCopy,
         \A t \in Services, k \in Jobs :
           Collected(t, k) /\ ~ Collected(t, k)' => t = s /\ k = j /\ job.kind # "at",
         job.kind = "at" =>
           /\ NextOK(job)
           /\ running[s] => Safe(s, j, job)
           /\ \/ /\ mem[s][j].kind = "at"
                 /\ mem[s][j].schedule = job.schedule /\ mem[s][j].at = job.at
              \/ /\ job.schedule \in 1 .. edits' /\ ~ Spent(job.schedule)
                 /\ \A k \in Jobs : \A old \in OneTime(k) : old.schedule # job.schedule
                 /\ copy' # NoCopy => job.schedule # copy'.edit,
         copy' # NoCopy /\ copy.of = s /\ copy.id = j =>
           job.kind = "none" \/ (Exists(s, j) /\ SameSchedule(mem[s][j], job))
  PROVE  IInv'
<1> USE DEF IInv
<1>1. (\A i \in Nat : Spent(i)' => Spent(i)) /\ OnceOK'
  BY DrainsKeeps
<1>2. /\ mem' = [mem EXCEPT ![s] = [mem[s] EXCEPT ![j] = job]]
      /\ file' = [mem[s] EXCEPT ![j] = job]
  BY DEF StoreJob, Store
<1>3. /\ mem'[s][j] = job /\ file'[j] = job
      /\ \A k \in Jobs \ {j} : mem'[s][k] = mem[s][k] /\ file'[k] = mem[s][k]
      /\ \A t \in Services \ {s} : mem'[t] = mem[t]
  BY <1>2 DEF TypeOK
<1>4. /\ \A k \in Jobs \ {j} : HeldJobs(k)' \subseteq HeldJobs(k)
      /\ HeldJobs(j)' \subseteq HeldJobs(j) \cup {job}
  BY <1>3 DEF HeldJobs
<1>5. /\ \A k \in Jobs \ {j} : OneTime(k)' \subseteq OneTime(k)
      /\ \A x \in OneTime(j)' : x \in OneTime(j) \/ (x = job /\ job.kind = "at")
  BY <1>4 DEF OneTime
<1>6. \A k \in Jobs : \A x \in OneTime(k) : x.at \in Nat /\ x.schedule \in Nat
  BY HeldAreJobs, ConstantsAssumption DEF OneTime, Job
<1>7. mem[s][j].kind = "at" => mem[s][j] \in OneTime(j)
  BY DEF OneTime, HeldJobs
<1>8. \A k \in Jobs : \A old \in OneTime(k) :
        /\ copy' # NoCopy => old.schedule # copy'.edit
        /\ Spent(old.schedule)' => old.at = 0
  BY <1>1, <1>6 DEF OneTimeOK
<1>9. OneTimeOK' /\ SchedulesOK'
  <2>1. CASE job.kind # "at" \/ (/\ mem[s][j].kind = "at"
                                 /\ mem[s][j].schedule = job.schedule /\ mem[s][j].at = job.at)
    <3>1. ASSUME NEW k \in Jobs, NEW x \in OneTime(k)'
          PROVE  /\ NextOK(x)
                 /\ \E old \in OneTime(k) : old.schedule = x.schedule /\ x.at = old.at
      <4>1. CASE x \in OneTime(k)
        BY <4>1 DEF OneTimeOK
      <4>2. CASE x \notin OneTime(k)
        <5>1. k = j /\ x = job /\ job.kind = "at"
          BY <1>5, <4>2
        <5> QED
          BY <1>7, <2>1, <5>1
      <4> QED
        BY <4>1, <4>2
    <3> QED
      BY <1>8, <3>1, JobsStay
  <2>2. CASE /\ job.kind = "at"
             /\ job.schedule \in 1 .. edits' /\ ~ Spent(job.schedule)
             /\ \A k \in Jobs : \A old \in OneTime(k) : old.schedule # job.schedule
             /\ copy' # NoCopy => job.schedule # copy'.edit
    <3> DEFINE g == [n \in Nat |-> n]
               new == {job.schedule}
    <3>1. edits \in Nat /\ edits' \in Nat
      BY ConstantsAssumption DEF TypeOK
    <3>2. g \in [Nat -> Nat] /\ g[0] = 0 /\ new \in SUBSET Nat
      BY <2>2, <3>1
    <3>3. \A k \in Jobs : \A x \in OneTime(k)' :
            /\ NextOK(x)
            /\ \/ x.schedule \in new
               \/ \E old \in OneTime(k) :
                    old.schedule = x.schedule /\ x.at = g[old.at]
      <4> SUFFICES ASSUME NEW k \in Jobs, NEW x \in OneTime(k)'
                   PROVE  /\ NextOK(x)
                          /\ \/ x.schedule \in new
                             \/ x \in OneTime(k) /\ x.at = g[x.at]
        OBVIOUS
      <4>1. CASE x \in OneTime(k)
        BY <1>6, <4>1 DEF OneTimeOK
      <4>2. CASE x \notin OneTime(k)
        BY <1>5, <2>2, <4>2
      <4> QED
        BY <4>1, <4>2
    <3>4. \A k \in Jobs : \A old \in OneTime(k) :
            /\ old.schedule \notin new
            /\ copy' # NoCopy => old.schedule # copy'.edit
            /\ Spent(old.schedule)' => old.at = 0
      BY <1>8, <2>2
    <3>5. \A n \in new :
            /\ n \in 1 .. edits' /\ ~ Spent(n)'
            /\ copy' # NoCopy => n # copy'.edit
      BY <1>1, <2>2, <3>1
    <3>6. \A i, k \in Jobs : \A a \in OneTime(i)', b \in OneTime(k)' :
            a.schedule \in new /\ b.schedule = a.schedule => i = k /\ a.at = b.at
      <4>1. \A k \in Jobs : \A x \in OneTime(k)' : x.schedule \in new => k = j /\ x = job
        BY <1>5, <3>4
      <4> QED
        BY <4>1
    <3>7. OneTimeOK /\ SchedulesOK
      OBVIOUS
    <3> HIDE DEF g, new
    <3> QED
      BY <3>1, <3>2, <3>3, <3>4, <3>5, <3>6, <3>7, JobsFollow
  <2> QED
    BY <2>1, <2>2
<1>10. KnownOK'
  BY <1>4 DEF KnownOK
<1>11. NumbersOK'
  <2>1. edits \in Nat /\ edits' \in Nat
    BY ConstantsAssumption DEF TypeOK
  <2>2. copy' # NoCopy => copy' = copy /\ copy.edit \in Nat
    BY DEF TypeOK
  <2>3. \A i \in 1 .. MaxEdits : Spent(i)' => Spent(i)
    BY <1>1
  <2> QED
    BY <2>1, <2>2, <2>3 DEF NumbersOK
<1>12. \A t \in Services, k \in Jobs, x \in Job :
         Safe(t, k, x) /\ ~ (t = s /\ k = j /\ job.kind # "at") => Safe(t, k, x)'
  BY <1>1 DEF Safe, Job
<1>13. MemOK'
  <2> SUFFICES ASSUME NEW t \in Services, NEW k \in Jobs, running[t]
               PROVE  Safe(t, k, mem[t][k])'
    BY DEF MemOK
  <2>1. CASE t = s /\ k = j
    <3>1. mem'[t][k] = job
      BY <1>3, <2>1
    <3>2. job.kind = "at" => Safe(t, k, job)'
      BY <1>12, <2>1
    <3> QED
      BY <3>1, <3>2 DEF Safe
  <2>2. CASE ~ (t = s /\ k = j)
    <3>1. mem'[t][k] = mem[t][k] /\ mem[t][k] \in Job
      BY <1>3, <2>2 DEF TypeOK
    <3>2. Safe(t, k, mem[t][k])
      BY DEF MemOK
    <3>3. PICK x \in Job : x = mem[t][k]
      BY <3>1
    <3> QED
      BY <1>12, <2>2, <3>1, <3>2, <3>3 DEF Safe
  <2> QED
    BY <2>1, <2>2
<1>14. CopyOK'
  <2> SUFFICES ASSUME copy' # NoCopy, Exists(copy.of, copy.id)'
               PROVE  /\ SameSchedule(mem[copy.of][copy.id], copy.job)'
                      /\ running[copy.of]' => Safe(copy.of, copy.id, copy.job)'
    BY DEF CopyOK
  <2>1. copy' = copy /\ copy \in [of : Services, id : Jobs, job : Job, edit : 1 .. MaxEdits]
    BY DEF TypeOK
  <2>2. PICK t \in Services, k \in Jobs, x \in Job : t = copy.of /\ k = copy.id /\ x = copy.job
    BY <2>1
  <2>3. CASE t = s /\ k = j
    <3>1. Exists(s, j) /\ SameSchedule(mem[s][j], job)
      BY <1>3, <2>1, <2>2, <2>3 DEF Exists
    <3>2. SameSchedule(mem[s][j], x) /\ (running[s] => Safe(s, j, x))
      BY <2>1, <2>2, <2>3, <3>1 DEF CopyOK
    <3>3. SameSchedule(job, x) /\ (job.kind # "at" => x.kind # "at")
      BY <3>1, <3>2 DEF SameSchedule
    <3>4. running[s] => Safe(s, j, x)'
      BY <1>12, <3>2, <3>3 DEF Safe
    <3> QED
      BY <1>3, <2>1, <2>2, <2>3, <3>3, <3>4
  <2>4. CASE ~ (t = s /\ k = j)
    <3>1. mem'[t][k] = mem[t][k]
      BY <1>3, <2>4
    <3>2. Exists(t, k)
      BY <2>1, <2>2, <3>1 DEF Exists
    <3>3. SameSchedule(mem[t][k], x) /\ (running[t] => Safe(t, k, x))
      BY <2>1, <2>2, <3>2 DEF CopyOK
    <3>4. running[t] => Safe(t, k, x)'
      BY <1>12, <2>4, <3>3
    <3> QED
      BY <2>1, <2>2, <3>1, <3>3, <3>4
  <2> QED
    BY <2>3, <2>4
<1> QED
  BY <1>1, <1>9, <1>10, <1>11, <1>13, <1>14

(* A step that only touches what is due.                                     *)
LEMMA RunKeeps ==
  ASSUME IInv, TypeOK', LoopOK', UNCHANGED <<file, mem, running, copy, added, edits>>, OnceOK',
         \A i \in Nat : Spent(i)' => Spent(i),
         \A t \in Services, k \in Jobs :
           Collected(t, k) /\ ~ Collected(t, k)' => mem[t][k].kind = "none"
  PROVE  IInv'
<1> USE DEF IInv
<1>1. \A j \in Jobs : HeldJobs(j)' = HeldJobs(j) /\ OneTime(j)' = OneTime(j)
  BY DEF HeldJobs, OneTime
<1>2. \A k \in Jobs : \A x \in OneTime(k) : x.at \in Nat /\ x.schedule \in Nat
  BY HeldAreJobs, ConstantsAssumption DEF OneTime, Job
<1>3. OneTimeOK'
  BY <1>1, <1>2 DEF OneTimeOK, NextOK
<1>4. SchedulesOK'
  BY <1>1 DEF SchedulesOK
<1>5. KnownOK'
  BY <1>1 DEF KnownOK
<1>6. NumbersOK'
  BY DEF NumbersOK
<1>7. \A t \in Services, k \in Jobs, x \in Job :
        Safe(t, k, x) /\ mem[t][k].kind # "none" => Safe(t, k, x)'
  BY DEF Safe, Job
<1>8. MemOK'
  <2> SUFFICES ASSUME NEW t \in Services, NEW k \in Jobs, running[t]
               PROVE  Safe(t, k, mem[t][k])'
    BY DEF MemOK
  <2>1. PICK x \in Job : x = mem[t][k]
    BY StoredTypes
  <2>2. Safe(t, k, x)
    BY <2>1 DEF MemOK
  <2>3. x.kind = "at" => Safe(t, k, x)'
    BY <1>7, <2>1, <2>2
  <2> QED
    BY <2>1, <2>3 DEF Safe
<1>9. CopyOK'
  <2> SUFFICES ASSUME copy # NoCopy, Exists(copy.of, copy.id)
               PROVE  /\ SameSchedule(mem[copy.of][copy.id], copy.job)
                      /\ running[copy.of] => Safe(copy.of, copy.id, copy.job)'
    BY DEF CopyOK, Exists
  <2>1. PICK t \in Services, k \in Jobs, x \in Job : t = copy.of /\ k = copy.id /\ x = copy.job
    BY DEF TypeOK
  <2>2. SameSchedule(mem[t][k], x) /\ (running[t] => Safe(t, k, x))
    BY <2>1 DEF CopyOK
  <2>3. running[t] => Safe(t, k, x)'
    BY <1>7, <2>1, <2>2 DEF Exists
  <2> QED
    BY <2>1, <2>2, <2>3 DEF Safe
<1> QED
  BY <1>3, <1>4, <1>5, <1>6, <1>8, <1>9

LEMMA SameDrains ==
  ASSUME TypeOK, TypeOK', UNCHANGED <<due, runs>>,
         \A t \in Services : loop'[t] = "call" <=> loop[t] = "call"
  PROVE  /\ Drains
         /\ \A i \in Nat : Spent(i)' <=> Spent(i)
         /\ \A t \in Services, k \in Jobs : Collected(t, k)' <=> Collected(t, k)
<1>1. \A t \in Services : Uncalled(t)' = Uncalled(t) /\ Uncalled(t) \subseteq Nat
  <2>1. \A t \in Services : due[t] \in Seq(Due)
    BY DEF TypeOK
  <2> QED
    BY <2>1 DEF Uncalled
<1>2. Drains
  BY <1>1 DEF Drains
<1>3. \A i \in Nat : Spent(i)' <=> Spent(i)
  BY <1>1 DEF Spent
<1> QED
  BY <1>2, <1>3 DEF Collected

LEMMA NotifyDrains ==
  ASSUME TypeOK, TypeOK', NEW s \in Services, Notify(s), UNCHANGED runs
  PROVE  /\ Drains
         /\ \A t \in Services, k \in Jobs : Collected(t, k)' <=> Collected(t, k)
<1>1. due' = due /\ \A t \in Services : loop'[t] = "call" <=> loop[t] = "call"
  BY DEF Notify, TypeOK
<1> QED
  BY <1>1, SameDrains

LEMMA NextDueDrains ==
  ASSUME TypeOK, TypeOK', LoopOK, NEW s \in Services, loop[s] \in {"run", "call"}, NextDue(s), UNCHANGED runs
  PROVE  /\ Drains
         /\ \A t \in Services, k \in Jobs :
              Collected(t, k) /\ ~ Collected(t, k)' => t = s /\ k = Head(due[s]).id
<1> DEFINE q == due[s]
<1>1. q \in Seq(Due) /\ q # <<>>
  BY DEF TypeOK, LoopOK
<1>2. /\ due'[s] = Tail(q) /\ loop'[s] \in {"plan", "run"}
      /\ \A t \in Services \ {s} : due'[t] = due[t] /\ loop'[t] = loop[t]
  BY DEF NextDue, TypeOK
<1> HIDE DEF q
<1>3. /\ Len(Tail(q)) = Len(q) - 1 /\ Tail(q) \in Seq(Due)
      /\ \A i \in 1 .. Len(Tail(q)) : Tail(q)[i] = q[i + 1]
  BY <1>1, HeadTailProperties
<1>4. Len(q) \in Nat /\ DOMAIN q = 1 .. Len(q) /\ DOMAIN Tail(q) = 1 .. Len(q) - 1 /\ Head(q) = q[1]
  BY <1>1, <1>3
<1>5. \A n \in Uncalled(s)' : n + 1 \in Uncalled(s) /\ due'[s][n] = due[s][n + 1]
  <2> SUFFICES ASSUME NEW n \in Uncalled(s)'
               PROVE  n + 1 \in Uncalled(s) /\ due'[s][n] = due[s][n + 1]
    OBVIOUS
  <2>1. n \in 1 .. Len(q) - 1
    BY <1>2, <1>4 DEF Uncalled
  <2> QED
    BY <1>2, <1>3, <1>4, <2>1 DEF Uncalled, q
<1>6. \A t \in Services \ {s} : \A n \in Uncalled(t)' :
        n + 0 \in Uncalled(t) /\ due'[t][n] = due[t][n + 0]
  <2> SUFFICES ASSUME NEW t \in Services \ {s}, NEW n \in Uncalled(t)'
               PROVE  n + 0 = n /\ n \in Uncalled(t) /\ due'[t][n] = due[t][n]
    OBVIOUS
  <2>1. due[t] \in Seq(Due)
    BY DEF TypeOK
  <2> QED
    BY <1>2, <2>1 DEF Uncalled
<1>7. Drains
  BY <1>5, <1>6 DEF Drains
<1>8. ASSUME NEW t \in Services, NEW k \in Jobs, Collected(t, k), ~ Collected(t, k)'
      PROVE  t = s /\ k = Head(due[s]).id
  <2>1. t = s
    BY <1>2, <1>8 DEF Collected
  <2>2. PICK i \in 1 .. Len(q) : q[i].id = k
    BY <1>4, <1>8, <2>1 DEF Collected, q
  <2>3. CASE i = 1
    BY <1>4, <2>1, <2>2, <2>3 DEF q
  <2>4. CASE i # 1
    <3>1. PICK m \in 1 .. Len(q) - 1 : m + 1 = i
      BY <1>4, <2>4
    <3>2. due'[s][m].id = k /\ m \in DOMAIN due'[s]
      BY <1>2, <1>3, <1>4, <2>2, <3>1
    <3> QED
      BY <1>8, <2>1, <3>2 DEF Collected
  <2> QED
    BY <2>3, <2>4
<1> QED
  BY <1>7, <1>8

-----------------------------------------------------------------------------
(* The actions, one by one.                                                  *)
LEMMA StartKeeps == ASSUME IInv, TypeOK', LoopOK', NEW s \in Services, Start(s) PROVE IInv'
<1> USE DEF IInv
<1>1. /\ UNCHANGED <<due, runs, copy, added, edits>>
      /\ loop[s] = "none" /\ loop' = [loop EXCEPT ![s] = "plan"]
      /\ copy.of # s /\ running' = [running EXCEPT ![s] = TRUE]
      /\ \A t \in Services : ~ running[t]
  BY DEF Start, Unused, clients
<1>2. /\ Drains
      /\ \A i \in Nat : Spent(i)' <=> Spent(i)
      /\ \A t \in Services, k \in Jobs : Collected(t, k)' <=> Collected(t, k)
  <2>1. \A t \in Services : loop'[t] = "call" <=> loop[t] = "call"
    BY <1>1 DEF TypeOK
  <2> QED
    BY <1>1, <2>1, SameDrains
<1>3. OnceOK'
  BY <1>2, DrainsKeeps
<1>4. /\ \A j \in Jobs : file'[j] = Recomputed(file[j]) /\ mem'[s][j] = Recomputed(file[j])
      /\ \A t \in Services \ {s} : mem'[t] = mem[t]
  <2>1. Store(s, [j \in Jobs |-> Recomputed(file[j])])
    BY DEF Start
  <2> QED
    BY <2>1 DEF Store, TypeOK
<1>5. \A j \in Jobs :
        LET job == Recomputed(file[j])
        IN /\ job.kind = file[j].kind /\ job.at = file[j].at /\ job.schedule = file[j].schedule
           /\ job.enabled = file[j].enabled
           /\ job.next = IF job.enabled THEN NextRun(file[j]) ELSE file[j].next
  <2> SUFFICES ASSUME NEW j \in Jobs
               PROVE  LET job == Recomputed(file[j])
                      IN /\ job.kind = file[j].kind /\ job.at = file[j].at
                         /\ job.schedule = file[j].schedule
                         /\ job.enabled = file[j].enabled
                         /\ job.next = IF job.enabled THEN NextRun(file[j]) ELSE file[j].next
    OBVIOUS
  <2>1. file[j] \in Job
    BY DEF TypeOK
  <2> QED
    BY <2>1 DEF Recomputed, Job
<1>6. \A j \in Jobs : file[j] \in HeldJobs(j) /\ (file[j].kind = "at" => file[j] \in OneTime(j))
  BY DEF HeldJobs, OneTime
<1>7. \A j \in Jobs : HeldJobs(j)' \subseteq HeldJobs(j) \cup {Recomputed(file[j])}
  BY <1>1, <1>4 DEF HeldJobs
<1>8. \A j \in Jobs : \A x \in OneTime(j)' :
        x \in OneTime(j) \/ (x = Recomputed(file[j]) /\ file[j] \in OneTime(j))
  BY <1>5, <1>6, <1>7 DEF OneTime
<1>9. \A j \in Jobs : file[j].kind = "at" => NextOK(Recomputed(file[j]))
  <2> SUFFICES ASSUME NEW j \in Jobs, file[j].kind = "at" PROVE NextOK(Recomputed(file[j]))
    OBVIOUS
  <2>1. NextOK(file[j])
    BY <1>6 DEF OneTimeOK
  <2>2. NextRun(file[j]) \in {None, file[j].at}
    BY DEF NextRun
  <2> QED
    BY <1>5, <2>1, <2>2 DEF NextOK
<1>10. OneTimeOK' /\ SchedulesOK'
  <2>1. \A j \in Jobs : \A x \in OneTime(j)' :
          /\ NextOK(x)
          /\ \E old \in OneTime(j) : old.schedule = x.schedule /\ x.at = old.at
    <3> SUFFICES ASSUME NEW j \in Jobs, NEW x \in OneTime(j)'
                 PROVE  /\ NextOK(x)
                        /\ \E old \in OneTime(j) : old.schedule = x.schedule /\ x.at = old.at
      OBVIOUS
    <3>1. CASE x \in OneTime(j)
      BY <3>1 DEF OneTimeOK
    <3>2. CASE x = Recomputed(file[j]) /\ file[j] \in OneTime(j)
      BY <1>5, <1>9, <3>2 DEF OneTime
    <3> QED
      BY <1>8, <3>1, <3>2
  <2>2. \A k \in Jobs : \A x \in OneTime(k) : x.at \in Nat /\ x.schedule \in Nat
    BY HeldAreJobs, ConstantsAssumption DEF OneTime, Job
  <2>3. \A k \in Jobs : \A old \in OneTime(k) :
          /\ copy' # NoCopy => old.schedule # copy'.edit
          /\ Spent(old.schedule)' => old.at = 0
    BY <1>1, <1>2, <2>2 DEF OneTimeOK
  <2>4. edits <= edits'
    BY <1>1, ConstantsAssumption DEF TypeOK
  <2> QED
    BY <2>1, <2>3, <2>4, JobsStay
<1>11. KnownOK'
  BY <1>1, <1>5, <1>6, <1>7 DEF KnownOK
<1>12. NumbersOK'
  BY <1>1, <1>2 DEF NumbersOK
<1>13. MemOK'
  <2> SUFFICES ASSUME NEW t \in Services, NEW k \in Jobs, running'[t]
               PROVE  Safe(t, k, mem[t][k])'
    BY DEF MemOK
  <2>1. t = s
    BY <1>1 DEF TypeOK
  <2>2. PICK job : job = Recomputed(file[k])
    OBVIOUS
  <2>3. mem'[s][k] = job
    BY <1>4, <2>2
  <2>4. ASSUME job.kind = "at", job.next # None PROVE ~ Spent(job.schedule)'
    <3>1. file[k] \in OneTime(k) /\ job.schedule = file[k].schedule /\ file[k].kind = "at"
      BY <1>5, <1>6, <2>2, <2>4
    <3>2. NextOK(file[k])
      BY <3>1 DEF OneTimeOK
    <3>3. job.enabled
      BY <1>5, <2>2, <2>4, <3>2 DEF NextOK
    <3>4. NextRun(file[k]) # None
      BY <1>5, <2>2, <2>4, <3>3
    <3>5. file[k].at > 0 /\ file[k].at # 0
      BY <3>1, <3>4 DEF NextRun
    <3>6. ~ Spent(file[k].schedule)
      BY <3>1, <3>5 DEF OneTimeOK
    <3>7. file[k].schedule \in Nat
      BY DEF TypeOK, Job
    <3> QED
      BY <1>2, <3>1, <3>6, <3>7
  <2> QED
    BY <2>1, <2>3, <2>4 DEF Safe
<1>14. CopyOK'
  <2> SUFFICES ASSUME copy # NoCopy, Exists(copy.of, copy.id)'
               PROVE  /\ SameSchedule(mem[copy.of][copy.id], copy.job)'
                      /\ running'[copy.of] => Safe(copy.of, copy.id, copy.job)'
    BY <1>1 DEF CopyOK
  <2>1. PICK t \in Services, k \in Jobs, x \in Job : t = copy.of /\ k = copy.id /\ x = copy.job
    BY DEF TypeOK
  <2>2. t # s /\ mem'[t] = mem[t] /\ running'[t] = running[t]
    BY <1>1, <1>4, <2>1 DEF TypeOK
  <2>3. SameSchedule(mem[t][k], x)
    BY <1>1, <2>1, <2>2 DEF CopyOK, Exists
  <2> QED
    BY <1>1, <2>1, <2>2, <2>3
<1> QED
  BY <1>3, <1>10, <1>11, <1>12, <1>13, <1>14

LEMMA GetKeeps ==
  ASSUME IInv, TypeOK', LoopOK', NEW s \in Services, NEW j \in Jobs, Get(s, j) PROVE IInv'
<1> USE DEF IInv
<1>1. /\ UNCHANGED <<file, mem, running, loop, due, added, runs>>
      /\ copy = NoCopy /\ copy' = [of |-> s, id |-> j, job |-> mem[s][j], edit |-> edits + 1]
      /\ edits' = edits + 1 /\ Exists(s, j)
  BY DEF Get, looping
<1>2. /\ Drains
      /\ \A i \in Nat : Spent(i)' <=> Spent(i)
      /\ \A t \in Services, k \in Jobs : Collected(t, k)' <=> Collected(t, k)
  BY <1>1, SameDrains
<1>3. OnceOK'
  BY <1>2, DrainsKeeps
<1>4. copy'.of = s /\ copy'.id = j /\ copy'.job = mem[s][j] /\ copy'.edit = edits + 1
  BY <1>1
<1>5. \A k \in Jobs : HeldJobs(k)' \subseteq HeldJobs(k)
  BY <1>1, <1>4 DEF HeldJobs
<1>6. \A k \in Jobs : OneTime(k)' \subseteq OneTime(k)
  BY <1>5 DEF OneTime
<1>7. edits \in Nat
  BY ConstantsAssumption DEF TypeOK
<1>8. OneTimeOK' /\ SchedulesOK'
  <2>1. \A k \in Jobs : \A x \in OneTime(k)' :
          /\ NextOK(x)
          /\ \E old \in OneTime(k) : old.schedule = x.schedule /\ x.at = old.at
    BY <1>6 DEF OneTimeOK
  <2>2. \A k \in Jobs : \A old \in OneTime(k) :
          /\ old.schedule # copy'.edit
          /\ Spent(old.schedule)' => old.at = 0
    <3> SUFFICES ASSUME NEW k \in Jobs, NEW old \in OneTime(k)
                 PROVE  /\ old.schedule # copy'.edit
                        /\ Spent(old.schedule)' => old.at = 0
      OBVIOUS
    <3>1. old.schedule \in 1 .. edits /\ (Spent(old.schedule) => old.at = 0)
      BY DEF OneTimeOK
    <3>2. old.schedule \in Nat /\ old.schedule # edits + 1
      BY <1>7, <3>1
    <3> QED
      BY <1>2, <1>4, <3>1, <3>2
  <2>3. edits <= edits'
    BY <1>1, <1>7
  <2> QED
    BY <2>1, <2>2, <2>3, JobsStay
<1>9. KnownOK'
  BY <1>1, <1>5 DEF KnownOK
<1>10. NumbersOK'
  <2>1. j \in added
    BY <1>1 DEF KnownOK, HeldJobs, Exists
  <2>2. \A i \in 1 .. MaxEdits : Spent(i)' => Spent(i)
    BY <1>2
  <2> QED
    BY <1>1, <1>4, <1>7, <2>1, <2>2 DEF NumbersOK
<1>11. MemOK'
  <2> SUFFICES ASSUME NEW t \in Services, NEW k \in Jobs, running[t]
               PROVE  Safe(t, k, mem[t][k])'
    BY <1>1 DEF MemOK
  <2>1. Safe(t, k, mem[t][k]) /\ mem[t][k] \in Job
    BY DEF MemOK, TypeOK
  <2>2. mem[t][k].schedule \in Nat
    BY <2>1 DEF Job
  <2> QED
    BY <1>1, <1>2, <2>1, <2>2 DEF Safe
<1>12. CopyOK'
  <2>1. mem[s][j] \in Job /\ mem[s][j].schedule \in Nat
    BY DEF TypeOK, Job
  <2>2. running[s] => Safe(s, j, mem[s][j])
    BY DEF MemOK
  <2>3. running[s] => Safe(s, j, mem[s][j])'
    BY <1>1, <1>2, <2>1, <2>2 DEF Safe
  <2> QED
    BY <1>1, <1>4, <2>3 DEF CopyOK, SameSchedule, Safe
<1> QED
  BY <1>3, <1>8, <1>9, <1>10, <1>11, <1>12

LEMMA TickKeeps == ASSUME IInv, TypeOK', LoopOK', Tick PROVE IInv'
<1> USE DEF IInv
<1>1. /\ UNCHANGED <<running, loop, due, added, edits, runs>>
      /\ \A j \in Jobs : file'[j] = Later(file[j])
      /\ \A s \in Services, j \in Jobs : mem'[s][j] = Later(mem[s][j])
      /\ copy' = IF copy = NoCopy THEN NoCopy ELSE [copy EXCEPT !.job = Later(@)]
  BY DEF Tick
<1>2. /\ copy' # NoCopy <=> copy # NoCopy
      /\ copy # NoCopy => /\ copy'.of = copy.of /\ copy'.id = copy.id /\ copy'.edit = copy.edit
                          /\ copy'.job = Later(copy.job)
                          /\ copy.of \in Services /\ copy.id \in Jobs /\ copy.job \in Job
  <2>1. CASE copy = NoCopy
    BY <1>1, <2>1
  <2>2. CASE copy # NoCopy
    <3>1. copy \in [of : Services, id : Jobs, job : Job, edit : 1 .. MaxEdits]
      BY <2>2 DEF TypeOK
    <3>2. copy' = [copy EXCEPT !.job = Later(copy.job)]
      BY <1>1, <2>2, <3>1
    <3>3. /\ copy'.of = copy.of /\ copy'.id = copy.id /\ copy'.edit = copy.edit
          /\ copy'.job = Later(copy.job)
      BY <3>1, <3>2
    <3>4. copy'.of \in Services /\ None \notin Services
      BY <3>1, <3>3, ConstantsAssumption DEF None
    <3>5. copy' # NoCopy
      BY <3>4 DEF NoCopy
    <3> QED
      BY <2>2, <3>1, <3>3, <3>5
  <2> QED
    BY <2>1, <2>2
<1>3. /\ Drains
      /\ \A i \in Nat : Spent(i)' <=> Spent(i)
      /\ \A t \in Services, k \in Jobs : Collected(t, k)' <=> Collected(t, k)
  BY <1>1, SameDrains
<1>4. OnceOK'
  BY <1>3, DrainsKeeps
<1>5. \A job \in Job :
        LET x == Later(job)
        IN /\ x.kind = job.kind /\ x.schedule = job.schedule /\ x.enabled = job.enabled
           /\ x.at = Less(job.at) /\ x.next = Less(job.next)
  BY DEF Later, Job
<1>6. Less(None) = None /\ \A n \in Nat : Less(n) \in Nat /\ (Less(n) = None <=> n = None)
  BY DEF Less, None
<1>7. \A j \in Jobs : \A x \in HeldJobs(j)' : \E old \in HeldJobs(j) : x = Later(old)
  <2> SUFFICES ASSUME NEW j \in Jobs, NEW x \in HeldJobs(j)'
               PROVE  \E old \in HeldJobs(j) : x = Later(old)
    OBVIOUS
  <2>1. CASE x = file'[j]
    BY <1>1, <2>1 DEF HeldJobs
  <2>2. ASSUME NEW s \in Services, x = mem'[s][j] PROVE \E old \in HeldJobs(j) : x = Later(old)
    BY <1>1, <2>2 DEF HeldJobs
  <2>3. CASE copy' # NoCopy /\ copy'.id = j /\ x = copy'.job
    BY <1>2, <2>3 DEF HeldJobs
  <2> QED
    BY <2>1, <2>2, <2>3 DEF HeldJobs
<1>8. \A j \in Jobs : HeldJobs(j) \subseteq Job
  BY HeldAreJobs
<1>9. \A j \in Jobs : \A x \in OneTime(j)' : \E old \in OneTime(j) : x = Later(old)
  BY <1>5, <1>7, <1>8 DEF OneTime
<1>10. OneTimeOK' /\ SchedulesOK'
  <2> DEFINE g == [n \in Nat |-> Less(n)]
             new == {}
  <2>1. g \in [Nat -> Nat] /\ g[0] = 0 /\ new \in SUBSET Nat /\ \A n : n \notin new
    BY <1>6 DEF Less
  <2>2. \A j \in Jobs : \A job \in OneTime(j)' :
          /\ NextOK(job)
          /\ \/ job.schedule \in new
             \/ \E old \in OneTime(j) :
                  old.schedule = job.schedule /\ job.at = g[old.at]
    <3> SUFFICES ASSUME NEW j \in Jobs, NEW job \in OneTime(j)'
                 PROVE  /\ NextOK(job)
                        /\ \E old \in OneTime(j) :
                             old.schedule = job.schedule /\ job.at = g[old.at]
      OBVIOUS
    <3>1. PICK old \in OneTime(j) : job = Later(old)
      BY <1>9
    <3>2. old \in Job /\ old.at \in Nat
      BY <1>8 DEF OneTime, Job
    <3>3. NextOK(old)
      BY DEF OneTimeOK
    <3>4. /\ job.schedule = old.schedule /\ job.enabled = old.enabled
          /\ job.at = Less(old.at) /\ job.next = Less(old.next)
      BY <1>5, <3>1, <3>2
    <3>5. NextOK(job)
      BY <1>6, <3>3, <3>4 DEF NextOK
    <3> QED
      BY <3>2, <3>4, <3>5
  <2>3. \A j \in Jobs : \A old \in OneTime(j) :
          /\ old.schedule \notin new
          /\ copy' # NoCopy => old.schedule # copy'.edit
          /\ Spent(old.schedule)' => old.at = 0
    <3> SUFFICES ASSUME NEW j \in Jobs, NEW old \in OneTime(j)
                 PROVE  /\ copy' # NoCopy => old.schedule # copy'.edit
                        /\ Spent(old.schedule)' => old.at = 0
      BY <2>1
    <3>1. old.schedule \in Nat
      BY <1>8, ConstantsAssumption DEF OneTime, Job
    <3> QED
      BY <1>2, <1>3, <3>1 DEF OneTimeOK
  <2>4. \A n \in new :
          /\ n \in 1 .. edits' /\ ~ Spent(n)'
          /\ copy' # NoCopy => n # copy'.edit
    OBVIOUS
  <2>5. \A j, k \in Jobs : \A a \in OneTime(j)', b \in OneTime(k)' :
          a.schedule \in new /\ b.schedule = a.schedule => j = k /\ a.at = b.at
    OBVIOUS
  <2>6. OneTimeOK /\ SchedulesOK
    OBVIOUS
  <2>7. edits \in Nat /\ edits' \in Nat /\ edits <= edits'
    BY <1>1, ConstantsAssumption DEF TypeOK
  <2> HIDE DEF g, new
  <2> QED
    BY <2>1, <2>2, <2>3, <2>4, <2>5, <2>6, <2>7, JobsFollow
<1>11. KnownOK'
  <2> SUFFICES ASSUME NEW j \in Jobs, NEW x \in HeldJobs(j)', x.kind # "none" PROVE j \in added
    BY <1>1 DEF KnownOK
  <2>1. PICK old \in HeldJobs(j) : x = Later(old)
    BY <1>7
  <2> QED
    BY <1>5, <1>8, <2>1 DEF KnownOK
<1>12. NumbersOK'
  BY <1>1, <1>2, <1>3 DEF NumbersOK
<1>13. \A t \in Services, k \in Jobs, x \in Job : Safe(t, k, x) => Safe(t, k, Later(x))'
  <2> SUFFICES ASSUME NEW t \in Services, NEW k \in Jobs, NEW x \in Job, Safe(t, k, x)
               PROVE  Safe(t, k, Later(x))'
    OBVIOUS
  <2>1. PICK y : y = Later(x)
    OBVIOUS
  <2>2. y.kind = x.kind /\ y.schedule = x.schedule /\ y.next = Less(x.next)
    BY <1>5, <2>1
  <2>3. x.schedule \in Nat /\ (y.next # None => x.next # None)
    BY <1>6, <2>2 DEF Job
  <2> QED
    BY <1>3, <2>1, <2>2, <2>3 DEF Safe
<1>14. MemOK'
  <2> SUFFICES ASSUME NEW t \in Services, NEW k \in Jobs, running[t]
               PROVE  Safe(t, k, mem[t][k])'
    BY <1>1 DEF MemOK
  <2>1. PICK x \in Job : x = mem[t][k]
    BY StoredTypes
  <2>2. Safe(t, k, x)
    BY <2>1 DEF MemOK
  <2> QED
    BY <1>1, <1>13, <2>1, <2>2 DEF Safe
<1>15. CopyOK'
  <2> SUFFICES ASSUME copy # NoCopy, Exists(copy.of, copy.id)'
               PROVE  /\ SameSchedule(mem[copy.of][copy.id], copy.job)'
                      /\ running[copy.of]' => Safe(copy.of, copy.id, copy.job)'
    BY <1>2 DEF CopyOK
  <2>1. PICK t \in Services, k \in Jobs, x \in Job : t = copy.of /\ k = copy.id /\ x = copy.job
    BY <1>2
  <2>2. PICK y \in Job : y = mem[t][k]
    BY DEF TypeOK
  <2>3. mem'[t][k] = Later(y) /\ copy'.of = t /\ copy'.id = k /\ copy'.job = Later(x)
    BY <1>1, <1>2, <2>1, <2>2
  <2>4. Exists(t, k)
    BY <1>5, <2>2, <2>3 DEF Exists
  <2>5. SameSchedule(y, x) /\ (running[t] => Safe(t, k, x))
    BY <2>1, <2>2, <2>4 DEF CopyOK
  <2>6. SameSchedule(Later(y), Later(x))
    BY <1>5, <2>5 DEF SameSchedule
  <2>7. running[t] => Safe(t, k, Later(x))'
    BY <1>13, <2>5
  <2> QED
    BY <1>1, <2>3, <2>6, <2>7 DEF Safe
<1> QED
  BY <1>4, <1>10, <1>11, <1>12, <1>14, <1>15

LEMMA CollectKeeps ==
  ASSUME IInv, TypeOK', LoopOK', NEW s \in Services, Collect(s), running[s] PROVE IInv'
<1> USE DEF IInv
<1> DEFINE now == {j \in Jobs : IsDue(mem[s][j])}
<1>1. /\ UNCHANGED <<running, copy, added, edits, runs>>
      /\ loop[s] = "check" /\ due[s] = <<>>
  BY DEF Collect, clients, LoopOK
<1>2. PICK jobs \in Collections(s, now) : due' = [due EXCEPT ![s] = jobs]
  BY DEF Collect
<1>3. /\ Store(s, [j \in Jobs |-> IF j \in now THEN [mem[s][j] EXCEPT !.next = None] ELSE mem[s][j]])
      /\ loop' = [loop EXCEPT ![s] = IF now = {} THEN "plan" ELSE "run"]
  BY DEF Collect
<1>4. now \in SUBSET Jobs /\ \A j \in Jobs : j \in now <=> IsDue(mem[s][j])
  OBVIOUS
<1> HIDE DEF now
<1>5. /\ jobs \in Seq(Due)
      /\ \A n \in DOMAIN jobs : jobs[n].id \in now /\ jobs[n] = DueEntry(s, jobs[n].id)
      /\ \A m, n \in DOMAIN jobs : jobs[m].id = jobs[n].id => m = n
  BY <1>4, CollectionsAre
<1>6. /\ due'[s] = jobs /\ loop'[s] # "call"
      /\ \A t \in Services \ {s} : due'[t] = due[t] /\ loop'[t] = loop[t]
  BY <1>2, <1>3 DEF TypeOK
<1>7. /\ \A j \in Jobs : /\ mem'[s][j] = IF j \in now THEN [mem[s][j] EXCEPT !.next = None] ELSE mem[s][j]
                        /\ file'[j] = mem'[s][j]
      /\ \A t \in Services \ {s} : mem'[t] = mem[t]
  BY <1>3 DEF Store, TypeOK
<1>8. /\ Uncalled(s)' = DOMAIN jobs
      /\ \A t \in Services \ {s} : Uncalled(t)' = Uncalled(t)
  BY <1>6 DEF Uncalled
<1>9. \A i : Spent(i)' => Spent(i) \/ \E n \in DOMAIN jobs : jobs[n].schedule = i
  BY <1>1, <1>6, <1>8 DEF Spent
<1>10. \A k \in Jobs : ~ Collected(s, k)
  BY <1>1 DEF Collected
<1>11. \A j \in Jobs : mem[s][j] \in HeldJobs(j) /\ (mem[s][j].kind = "at" => mem[s][j] \in OneTime(j))
  BY DEF HeldJobs, OneTime
<1>12. ASSUME NEW n \in DOMAIN jobs, jobs[n].schedule # 0
       PROVE  /\ jobs[n].id \in now
              /\ mem[s][jobs[n].id] \in OneTime(jobs[n].id)
              /\ jobs[n].schedule = mem[s][jobs[n].id].schedule
              /\ mem[s][jobs[n].id].at = 0 /\ ~ Spent(jobs[n].schedule)
  <2>1. PICK j \in Jobs : j = jobs[n].id /\ j \in now
    BY <1>4, <1>5
  <2>2. PICK e : e = jobs[n] /\ e = DueEntry(s, j)
    BY <1>5, <2>1
  <2>3. e.schedule = IF mem[s][j].kind = "at" THEN mem[s][j].schedule ELSE 0
    BY <2>2 DEF DueEntry
  <2>4. mem[s][j].kind = "at" /\ jobs[n].schedule = mem[s][j].schedule
    BY <1>12, <2>2, <2>3
  <2>5. mem[s][j] \in OneTime(j)
    BY <1>11, <2>4
  <2>6. mem[s][j].next = 0
    BY <1>4, <2>1 DEF IsDue
  <2>7. NextOK(mem[s][j])
    BY <2>5 DEF OneTimeOK
  <2>8. mem[s][j].at = 0 /\ mem[s][j].next # None
    BY <2>6, <2>7 DEF NextOK, None
  <2>9. Safe(s, j, mem[s][j])
    BY DEF MemOK
  <2>10. ~ Spent(mem[s][j].schedule)
    BY <1>10, <2>4, <2>8, <2>9 DEF Safe
  <2> QED
    BY <2>1, <2>4, <2>5, <2>8, <2>10
<1>13. ASSUME NEW k \in Jobs, NEW old \in OneTime(k), NEW n \in DOMAIN jobs,
              jobs[n].schedule = old.schedule
       PROVE  jobs[n].id = k /\ k \in now /\ old.at = 0
  <2>1. old.schedule \in 1 .. edits
    BY DEF OneTimeOK
  <2>2. jobs[n].schedule # 0
    BY <1>13, <2>1
  <2>3. PICK j \in Jobs : j = jobs[n].id /\ j \in now
    BY <1>4, <1>5
  <2>4. /\ mem[s][j] \in OneTime(j) /\ mem[s][j].schedule = old.schedule
        /\ mem[s][j].at = 0
    BY <1>12, <1>13, <2>2, <2>3
  <2>5. j = k /\ mem[s][j].at = old.at
    BY <2>4 DEF SchedulesOK
  <2> QED
    BY <2>3, <2>4, <2>5
<1>14. DOMAIN runs = 1 .. MaxEdits /\ \A i \in 1 .. MaxEdits : runs[i] \in Nat
  BY DEF TypeOK
<1>15. \A n \in DOMAIN jobs : jobs[n].schedule # 0 => jobs[n].schedule \in 1 .. MaxEdits
  <2>1. \A n \in DOMAIN jobs : jobs[n] \in Due
    BY <1>5
  <2> QED
    BY <2>1, ConstantsAssumption DEF Due
<1>16. OnceOK'
  <2>1. \A i \in 1 .. MaxEdits : runs'[i] <= 1
    BY <1>1 DEF OnceOK
  <2>2. ASSUME NEW t \in Services, NEW n \in Uncalled(t)', due'[t][n].schedule # 0
        PROVE  /\ runs'[due'[t][n].schedule] = 0
               /\ \A u \in Services : \A m \in Uncalled(u)' :
                    due'[u][m].schedule = due'[t][n].schedule => u = t /\ m = n
    <3> DEFINE i == due'[t][n].schedule
    <3>1. CASE t = s
      <4>1. n \in DOMAIN jobs /\ due'[t][n] = jobs[n]
        BY <1>6, <1>8, <3>1
      <4>2. ~ Spent(i) /\ i \in 1 .. MaxEdits
        BY <1>12, <1>15, <2>2, <4>1
      <4>3. runs[i] = 0
        BY <1>14, <4>2 DEF Spent
      <4>4. ASSUME NEW u \in Services, NEW m \in Uncalled(u)', due'[u][m].schedule = i
            PROVE  u = t /\ m = n
        <5>1. CASE u = s
          <6>1. m \in DOMAIN jobs /\ jobs[m].schedule = i
            BY <1>6, <1>8, <4>4, <5>1
          <6>2. /\ mem[s][jobs[n].id] \in OneTime(jobs[n].id)
                /\ mem[s][jobs[n].id].schedule = i /\ jobs[n].id \in Jobs
            BY <1>4, <1>12, <2>2, <4>1
          <6>3. jobs[m].id = jobs[n].id
            BY <1>13, <6>1, <6>2
          <6> QED
            BY <1>5, <3>1, <4>1, <5>1, <6>1, <6>3
        <5>2. CASE u # s
          <6>1. m \in Uncalled(u) /\ due[u][m].schedule = i
            BY <1>6, <1>8, <4>4, <5>2
          <6> QED
            BY <4>2, <6>1 DEF Spent
        <5> QED
          BY <5>1, <5>2
      <4> QED
        BY <1>1, <4>3, <4>4
    <3>2. CASE t # s
      <4>1. n \in Uncalled(t) /\ due[t][n].schedule = i
        BY <1>6, <1>8, <3>2
      <4>2. runs[i] = 0
        BY <2>2, <4>1 DEF OnceOK
      <4>3. ASSUME NEW u \in Services, NEW m \in Uncalled(u)', due'[u][m].schedule = i
            PROVE  u = t /\ m = n
        <5>1. CASE u = s
          <6>1. m \in DOMAIN jobs /\ jobs[m].schedule = i
            BY <1>6, <1>8, <4>3, <5>1
          <6>2. ~ Spent(i)
            BY <1>12, <2>2, <6>1
          <6> QED
            BY <4>1, <6>2 DEF Spent
        <5>2. CASE u # s
          <6>1. m \in Uncalled(u) /\ due[u][m].schedule = i
            BY <1>6, <1>8, <4>3, <5>2
          <6> QED
            BY <2>2, <4>1, <6>1 DEF OnceOK
        <5> QED
          BY <5>1, <5>2
      <4> QED
        BY <1>1, <4>2, <4>3
    <3> QED
      BY <3>1, <3>2
  <2> QED
    BY <2>1, <2>2 DEF OnceOK
<1>17. \A j \in Jobs :
         /\ mem'[s][j].kind = mem[s][j].kind /\ mem'[s][j].at = mem[s][j].at
         /\ mem'[s][j].schedule = mem[s][j].schedule /\ mem'[s][j].enabled = mem[s][j].enabled
         /\ mem'[s][j].next = IF j \in now THEN None ELSE mem[s][j].next
  <2> SUFFICES ASSUME NEW j \in Jobs
               PROVE  /\ mem'[s][j].kind = mem[s][j].kind /\ mem'[s][j].at = mem[s][j].at
                      /\ mem'[s][j].schedule = mem[s][j].schedule
                      /\ mem'[s][j].enabled = mem[s][j].enabled
                      /\ mem'[s][j].next = IF j \in now THEN None ELSE mem[s][j].next
    OBVIOUS
  <2>1. PICK job \in Job : job = mem[s][j]
    BY DEF TypeOK
  <2>2. mem'[s][j] = IF j \in now THEN [job EXCEPT !.next = None] ELSE job
    BY <1>7, <2>1
  <2>3. CASE j \in now
    <3>1. PICK x : x = [job EXCEPT !.next = None]
      OBVIOUS
    <3>2. /\ x.kind = job.kind /\ x.at = job.at /\ x.schedule = job.schedule
          /\ x.enabled = job.enabled /\ x.next = None
      BY <3>1 DEF Job
    <3>3. mem'[s][j] = x
      BY <2>2, <2>3, <3>1
    <3> QED
      BY <2>1, <2>3, <3>2, <3>3
  <2>4. CASE j \notin now
    BY <2>1, <2>2, <2>4
  <2> QED
    BY <2>3, <2>4
<1>18. \A j \in Jobs : HeldJobs(j)' \subseteq HeldJobs(j) \cup {mem'[s][j]}
  <2> SUFFICES ASSUME NEW j \in Jobs, NEW x \in HeldJobs(j)'
               PROVE  x \in HeldJobs(j) \/ x = mem'[s][j]
    OBVIOUS
  <2>1. CASE x = file'[j]
    BY <1>7, <2>1
  <2>2. ASSUME NEW t \in Services, x = mem'[t][j] PROVE x \in HeldJobs(j) \/ x = mem'[s][j]
    <3>1. t # s => x = mem[t][j]
      BY <1>7, <2>2
    <3> QED
      BY <2>2, <3>1 DEF HeldJobs
  <2>3. CASE copy # NoCopy /\ copy.id = j /\ x = copy.job
    BY <2>3 DEF HeldJobs
  <2> QED
    BY <1>1, <2>1, <2>2, <2>3 DEF HeldJobs
<1>19. \A j \in Jobs : \A x \in OneTime(j)' :
         x \in OneTime(j) \/ (x = mem'[s][j] /\ mem[s][j] \in OneTime(j))
  BY <1>11, <1>17, <1>18 DEF OneTime
<1>20. \A k \in Jobs : \A x \in OneTime(k) : x.schedule \in Nat
  BY HeldAreJobs, ConstantsAssumption DEF OneTime, Job
<1>21. OneTimeOK' /\ SchedulesOK'
  <2>1. \A j \in Jobs : \A x \in OneTime(j)' :
          /\ NextOK(x)
          /\ \E old \in OneTime(j) : old.schedule = x.schedule /\ x.at = old.at
    <3> SUFFICES ASSUME NEW j \in Jobs, NEW x \in OneTime(j)'
                 PROVE  /\ NextOK(x)
                        /\ \E old \in OneTime(j) : old.schedule = x.schedule /\ x.at = old.at
      OBVIOUS
    <3>1. CASE x \in OneTime(j)
      BY <3>1 DEF OneTimeOK
    <3>2. CASE x = mem'[s][j] /\ mem[s][j] \in OneTime(j)
      <4>1. NextOK(mem[s][j])
        BY <3>2 DEF OneTimeOK
      <4> QED
        BY <1>17, <3>2, <4>1 DEF NextOK
    <3> QED
      BY <1>19, <3>1, <3>2
  <2>2. \A k \in Jobs : \A old \in OneTime(k) :
          /\ copy' # NoCopy => old.schedule # copy'.edit
          /\ Spent(old.schedule)' => old.at = 0
    BY <1>1, <1>9, <1>13 DEF OneTimeOK
  <2>3. edits <= edits'
    BY <1>1, ConstantsAssumption DEF TypeOK
  <2> QED
    BY <2>1, <2>2, <2>3, JobsStay
<1>22. KnownOK'
  BY <1>1, <1>11, <1>17, <1>18 DEF KnownOK
<1>23. NumbersOK'
  <2> SUFFICES ASSUME NEW i \in 1 .. MaxEdits, Spent(i)'
               PROVE  i <= edits /\ (copy # NoCopy => i # copy.edit)
    BY <1>1 DEF NumbersOK
  <2>1. CASE Spent(i)
    BY <2>1 DEF NumbersOK
  <2>2. ASSUME NEW n \in DOMAIN jobs, jobs[n].schedule = i
        PROVE  i <= edits /\ (copy # NoCopy => i # copy.edit)
    <3>1. PICK j \in Jobs : mem[s][j] \in OneTime(j) /\ mem[s][j].schedule = i
      BY <1>4, <1>12, <2>2
    <3> QED
      BY <3>1 DEF OneTimeOK
  <2> QED
    BY <1>9, <2>1, <2>2
<1>24. MemOK'
  <2> SUFFICES ASSUME NEW t \in Services, NEW k \in Jobs, running[t]
               PROVE  Safe(t, k, mem[t][k])'
    BY <1>1 DEF MemOK
  <2>1. t = s
    BY DEF LoopOK
  <2>2. PICK x : x = mem[s][k]
    OBVIOUS
  <2>3. ASSUME k \notin now, x.kind = "at", x.next # None, Spent(x.schedule)' PROVE FALSE
    <3>1. x \in OneTime(k)
      BY <1>11, <2>2, <2>3
    <3>2. Safe(s, k, x)
      BY <2>1, <2>2 DEF MemOK
    <3>3. ~ Spent(x.schedule)
      BY <1>10, <2>3, <3>2 DEF Safe
    <3>4. PICK n \in DOMAIN jobs : jobs[n].schedule = x.schedule
      BY <1>9, <2>3, <3>3
    <3> QED
      BY <1>13, <2>3, <3>1, <3>4
  <2>4. PICK y : y = mem'[s][k]
    OBVIOUS
  <2>5. y.kind = x.kind /\ y.schedule = x.schedule /\ y.next = IF k \in now THEN None ELSE x.next
    BY <1>17, <2>2, <2>4
  <2>6. ~ (y.kind = "at" /\ y.next # None /\ Spent(y.schedule)')
    BY <2>3, <2>5
  <2> QED
    BY <2>1, <2>4, <2>6 DEF Safe
<1>25. CopyOK'
  <2> SUFFICES ASSUME copy # NoCopy, Exists(copy.of, copy.id)'
               PROVE  /\ SameSchedule(mem[copy.of][copy.id], copy.job)'
                      /\ running[copy.of] => Safe(copy.of, copy.id, copy.job)'
    BY <1>1 DEF CopyOK
  <2>1. PICK t \in Services, k \in Jobs, x \in Job : t = copy.of /\ k = copy.id /\ x = copy.job
    BY DEF TypeOK
  <2>2. /\ mem'[t][k].kind = mem[t][k].kind /\ mem'[t][k].at = mem[t][k].at
        /\ mem'[t][k].schedule = mem[t][k].schedule
    BY <1>7, <1>17
  <2>3. SameSchedule(mem[t][k], x) /\ (running[t] => Safe(t, k, x))
    BY <1>1, <2>1, <2>2 DEF CopyOK, Exists
  <2>4. SameSchedule(mem'[t][k], x)
    BY <2>2, <2>3 DEF SameSchedule
  <2>5. ASSUME running[t], x.kind = "at", x.next # None, Spent(x.schedule)' PROVE Collected(t, k)'
    <3>1. t = s
      BY <2>5 DEF LoopOK
    <3>2. x \in OneTime(k)
      BY <2>1, <2>5 DEF OneTime, HeldJobs
    <3>3. ~ Spent(x.schedule)
      BY <1>10, <2>3, <2>5, <3>1 DEF Safe
    <3>4. PICK n \in DOMAIN jobs : jobs[n].schedule = x.schedule
      BY <1>9, <2>5, <3>3
    <3>5. jobs[n].id = k
      BY <1>13, <3>2, <3>4
    <3> QED
      BY <1>6, <3>1, <3>5 DEF Collected
  <2> QED
    BY <1>1, <2>1, <2>4, <2>5 DEF Safe
<1> QED
  BY <1>16, <1>21, <1>22, <1>23, <1>24, <1>25

LEMMA CallKeeps ==
  ASSUME IInv, TypeOK', LoopOK', NEW s \in Services, Run(s),
         mem[s][Head(due[s]).id].kind # "none"
  PROVE  IInv'
<1> USE DEF IInv
<1> DEFINE i == Head(due[s]).schedule
<1>1. /\ UNCHANGED <<file, mem, running, copy, added, edits, due>>
      /\ loop[s] = "run" /\ loop' = [loop EXCEPT ![s] = "call"]
      /\ runs' = [k \in DOMAIN runs |-> IF k = i THEN runs[k] + 1 ELSE runs[k]]
  BY DEF Run, clients
<1>2. due[s] \in Seq(Due) /\ due[s] # <<>> /\ Head(due[s]) = due[s][1]
  BY <1>1 DEF TypeOK, LoopOK
<1>3. 1 \in Uncalled(s) /\ due[s][1].schedule = i /\ i \in 0 .. MaxEdits
  <2>1. 1 \in DOMAIN due[s] /\ due[s][1] \in Due
    BY <1>2
  <2> QED
    BY <1>1, <1>2, <2>1 DEF Uncalled, Due
<1>4. /\ Uncalled(s)' = Uncalled(s) \ {1}
      /\ \A t \in Services \ {s} : Uncalled(t)' = Uncalled(t)
  BY <1>1 DEF Uncalled, TypeOK
<1> HIDE DEF i
<1>5. /\ runs \in [1 .. MaxEdits -> Nat]
      /\ \A k \in 1 .. MaxEdits : runs'[k] = IF k = i THEN runs[k] + 1 ELSE runs[k]
  BY <1>1 DEF TypeOK
<1>6. i # 0 => runs[i] = 0 /\ i \in 1 .. MaxEdits
  BY <1>3, ConstantsAssumption DEF OnceOK
<1>7. \A t \in Services : \A n \in Uncalled(t)' :
        n \in Uncalled(t) /\ (due[t][n].schedule # 0 => due[t][n].schedule # i)
  <2> SUFFICES ASSUME NEW t \in Services, NEW n \in Uncalled(t)'
               PROVE  /\ n \in Uncalled(t) /\ ~ (t = s /\ n = 1)
                      /\ due[t][n].schedule # 0 => due[t][n].schedule # i
    OBVIOUS
  <2>1. n \in Uncalled(t) /\ ~ (t = s /\ n = 1)
    BY <1>4
  <2> QED
    BY <1>3, <2>1 DEF OnceOK
<1>8. OnceOK'
  <2>1. \A k \in 1 .. MaxEdits : runs'[k] <= 1
    <3> SUFFICES ASSUME NEW k \in 1 .. MaxEdits PROVE runs'[k] <= 1
      OBVIOUS
    <3>1. CASE k = i
      BY <1>5, <1>6, <3>1
    <3>2. CASE k # i
      BY <1>5, <3>2 DEF OnceOK
    <3> QED
      BY <3>1, <3>2
  <2>2. ASSUME NEW t \in Services, NEW n \in Uncalled(t)', due[t][n].schedule # 0
        PROVE  /\ runs'[due[t][n].schedule] = 0
               /\ \A u \in Services : \A m \in Uncalled(u)' :
                    due[u][m].schedule = due[t][n].schedule => u = t /\ m = n
    <3>1. n \in Uncalled(t) /\ due[t][n].schedule # i
      BY <1>7, <2>2
    <3>2. due[t][n] \in Due
      BY <3>1 DEF Uncalled, TypeOK
    <3>3. due[t][n].schedule \in 1 .. MaxEdits
      BY <2>2, <3>2, ConstantsAssumption DEF Due
    <3>4. runs'[due[t][n].schedule] = 0
      BY <1>5, <2>2, <3>1, <3>3 DEF OnceOK
    <3>5. \A u \in Services : \A m \in Uncalled(u) :
            due[u][m].schedule = due[t][n].schedule => u = t /\ m = n
      BY <2>2, <3>1 DEF OnceOK
    <3> QED
      BY <1>7, <3>4, <3>5
  <2> QED
    BY <1>1, <2>1, <2>2 DEF OnceOK
<1>9. \A k \in Nat : Spent(k)' => Spent(k)
  <2> SUFFICES ASSUME NEW k \in Nat, Spent(k)' PROVE Spent(k)
    OBVIOUS
  <2>1. CASE k = i
    BY <1>3, <2>1 DEF Spent
  <2>2. ASSUME NEW t \in Services, NEW n \in Uncalled(t)', due'[t][n].schedule = k PROVE Spent(k)
    BY <1>1, <1>7, <2>2 DEF Spent
  <2>3. CASE k # i /\ k \in DOMAIN runs' /\ runs'[k] > 0
    BY <1>1, <2>3 DEF Spent
  <2> QED
    BY <2>1, <2>2, <2>3 DEF Spent
<1>10. \A t \in Services, k \in Jobs : Collected(t, k)' <=> Collected(t, k)
  BY <1>1 DEF Collected
<1> QED
  BY <1>1, <1>8, <1>9, <1>10, RunKeeps

LEMMA LoopKeeps ==
  ASSUME IInv, TypeOK', LoopOK', NEW s \in Services, LoopStep(s) PROVE IInv'
<1> USE DEF IInv
<1>1. CASE Plan(s) \/ Sleep(s)
  <2>1. /\ UNCHANGED <<file, mem, running, copy, added, edits, due, runs>>
        /\ \A t \in Services : loop'[t] = "call" <=> loop[t] = "call"
    BY <1>1 DEF Plan, Sleep, clients, TypeOK
  <2> QED
    BY <2>1, QuietKeeps
<1>2. CASE Wake(s)
  <2>1. /\ UNCHANGED <<file, running, copy, added, edits, due, runs>>
        /\ \A t \in Services : loop'[t] = "call" <=> loop[t] = "call"
    BY <1>2 DEF Wake, clients, TypeOK
  <2>2. \A t \in Services :
          \/ mem'[t] = mem[t]
          \/ mem'[t] = Empty /\ ~ running'[t] /\ copy.of # t
    BY <1>2 DEF Wake, TypeOK
  <2> QED
    BY <2>1, <2>2, QuietKeeps
<1>3. CASE Collect(s) /\ ~ running[s]
  <2>1. /\ UNCHANGED <<file, mem, running, copy, added, edits, due, runs>>
        /\ \A t \in Services : loop'[t] = "call" <=> loop[t] = "call"
    BY <1>3 DEF Collect, clients, TypeOK
  <2> QED
    BY <2>1, QuietKeeps
<1>4. CASE Collect(s) /\ running[s]
  BY <1>4, CollectKeeps
<1>5. CASE Run(s) /\ mem[s][Head(due[s]).id].kind # "none"
  BY <1>5, CallKeeps
<1>6. CASE Run(s) /\ mem[s][Head(due[s]).id].kind = "none"
  <2>1. /\ UNCHANGED <<file, mem, running, copy, added, edits, runs>>
        /\ loop[s] = "run" /\ NextDue(s)
    BY <1>6 DEF Run, clients
  <2>2. /\ Drains
        /\ \A t \in Services, k \in Jobs :
             Collected(t, k) /\ ~ Collected(t, k)' => t = s /\ k = Head(due[s]).id
    BY <2>1, NextDueDrains
  <2>3. (\A i \in Nat : Spent(i)' => Spent(i)) /\ OnceOK'
    BY <2>2, DrainsKeeps
  <2>4. \A t \in Services, k \in Jobs :
          Collected(t, k) /\ ~ Collected(t, k)' => mem[t][k].kind = "none"
    BY <1>6, <2>2
  <2> QED
    BY <2>1, <2>3, <2>4, RunKeeps
<1>7. CASE Finish(s)
  <2>1. /\ UNCHANGED <<running, copy, added, edits, runs>>
        /\ loop[s] = "call" /\ NextDue(s)
    BY <1>7 DEF Finish, clients
  <2>2. PICK j : j = Head(due[s]).id
    OBVIOUS
  <2>3. j \in Jobs
    <3>1. due[s] \in Seq(Due) /\ due[s] # <<>>
      BY <2>1 DEF TypeOK, LoopOK
    <3>2. Head(due[s]) \in Due
      BY <3>1
    <3> QED
      BY <2>2, <3>2 DEF Due
  <2>4. /\ Drains
        /\ \A t \in Services, k \in Jobs :
             Collected(t, k) /\ ~ Collected(t, k)' => t = s /\ k = j
    BY <2>1, <2>2, NextDueDrains
  <2>5. CASE mem[s][j].kind = "none"
    <3>1. UNCHANGED <<file, mem>>
      BY <1>7, <2>2, <2>5 DEF Finish
    <3>2. (\A i \in Nat : Spent(i)' => Spent(i)) /\ OnceOK'
      BY <2>4, DrainsKeeps
    <3>3. \A t \in Services, k \in Jobs :
            Collected(t, k) /\ ~ Collected(t, k)' => mem[t][k].kind = "none"
      BY <2>4, <2>5
    <3> QED
      BY <2>1, <3>1, <3>2, <3>3, RunKeeps
  <2>6. CASE mem[s][j].kind # "none"
    <3>1. PICK old \in Job : old = mem[s][j]
      BY <2>3 DEF TypeOK
    <3>2. PICK job : job = IF old.kind = "at" THEN NoJob ELSE [old EXCEPT !.next = NextRun(old)]
      OBVIOUS
    <3>3. StoreJob(s, j, job)
      BY <1>7, <2>2, <2>6, <3>1, <3>2 DEF Finish
    <3>4. job \in Job
      BY <3>1, <3>2, JobTypes
    <3>5. CASE old.kind = "at"
      <4>1. job.kind = "none"
        BY <3>2, <3>5 DEF NoJob
      <4>2. j \in added' /\ added \subseteq added'
        BY <2>1, <2>3, <2>6 DEF KnownOK, HeldJobs
      <4>3. edits <= edits'
        BY <2>1, ConstantsAssumption DEF TypeOK
      <4> QED
        BY <2>1, <2>3, <2>4, <3>3, <3>4, <4>1, <4>2, <4>3, WriteKeeps
    <3>6. CASE old.kind # "at"
      <4>1. job.kind = old.kind /\ job.at = old.at /\ job.schedule = old.schedule
        BY <3>1, <3>2, <3>6 DEF Job
      <4>2. j \in added' /\ added \subseteq added'
        BY <2>1, <2>3, <2>6 DEF KnownOK, HeldJobs
      <4>3. edits <= edits'
        BY <2>1, ConstantsAssumption DEF TypeOK
      <4>4. job.kind # "at" /\ Exists(s, j) /\ SameSchedule(mem[s][j], job)
        BY <2>6, <3>1, <3>6, <4>1 DEF Exists, SameSchedule
      <4> QED
        BY <2>1, <2>3, <2>4, <3>3, <3>4, <4>2, <4>3, <4>4, WriteKeeps
    <3> QED
      BY <3>5, <3>6
  <2> QED
    BY <2>5, <2>6
<1> QED
  BY <1>1, <1>2, <1>3, <1>4, <1>5, <1>6, <1>7 DEF LoopStep

(* A job an edit makes: its time is its next run, and it is on.              *)
LEMMA NewJobsAre ==
  ASSUME NEW n \in 1 .. MaxEdits, NEW job \in NewJobs(n)
  PROVE  /\ job \in Job /\ job.kind # "none" /\ job.schedule = n /\ job.enabled
         /\ job.kind = "at" => job.next = job.at
<1>1. CASE job = [kind |-> "every", at |-> 0, enabled |-> TRUE, next |-> Every, schedule |-> n]
  <2>1. /\ job.kind = "every" /\ job.schedule = n /\ job.enabled
    BY <1>1
  <2> QED
    BY <2>1, JobTypes
<1>2. ASSUME NEW d \in Delays,
             job = [kind |-> "at", at |-> d, enabled |-> TRUE, next |-> d, schedule |-> n]
      PROVE  /\ job \in Job /\ job.kind # "none" /\ job.schedule = n /\ job.enabled
             /\ job.kind = "at" => job.next = job.at
  <2>1. job.kind = "at" /\ job.schedule = n /\ job.enabled /\ job.at = d /\ job.next = d
    BY <1>2
  <2> QED
    BY <2>1, JobTypes
<1> QED
  BY <1>1, <1>2 DEF NewJobs

LEMMA ClientKeeps ==
  ASSUME IInv, TypeOK', LoopOK', NEW s \in Services, NEW j \in Jobs, ClientStep(s, j) PROVE IInv'
<1> USE DEF IInv
<1>0. edits \in Nat /\ MaxEdits \in Nat
  BY ConstantsAssumption DEF TypeOK
<1>1. CASE AddJob(s, j)
  <2>1. /\ UNCHANGED <<running, copy, runs>> /\ Notify(s)
        /\ j \notin added /\ added' = added \cup {j} /\ edits' = edits + 1 /\ edits < MaxEdits
    BY <1>1 DEF AddJob
  <2>2. PICK n \in 1 .. MaxEdits : n = edits + 1
    BY <1>0, <2>1
  <2>3. PICK job \in NewJobs(n) : StoreJob(s, j, job)
    BY <1>1, <2>2 DEF AddJob
  <2>4. /\ job \in Job /\ job.kind # "none" /\ job.schedule = n /\ job.enabled
        /\ job.kind = "at" => job.next = job.at
    BY NewJobsAre
  <2>5. /\ Drains
        /\ \A t \in Services, k \in Jobs : Collected(t, k)' <=> Collected(t, k)
    BY <2>1, NotifyDrains
  <2>6. ~ Spent(n)
    BY <1>0, <2>2 DEF NumbersOK
  <2>7. \A k \in Jobs : \A old \in OneTime(k) : old.schedule # n
    BY <1>0, <2>2 DEF OneTimeOK
  <2>8. copy # NoCopy => n # copy.edit /\ copy.id # j
    BY <1>0, <2>1, <2>2 DEF NumbersOK
  <2>9. job.kind = "at" => NextOK(job) /\ Safe(s, j, job)
    BY <2>4, <2>6 DEF NextOK, Safe
  <2>10. job.schedule \in 1 .. edits' /\ edits <= edits' /\ j \in added' /\ added \subseteq added'
    BY <1>0, <2>1, <2>2, <2>4
  <2> QED
    BY <2>1, <2>3, <2>4, <2>5, <2>6, <2>7, <2>8, <2>9, <2>10, WriteKeeps
<1>2. CASE RemoveJob(s, j)
  <2>1. /\ UNCHANGED <<running, copy, added, edits, runs>> /\ Notify(s)
        /\ StoreJob(s, j, NoJob)
    BY <1>2 DEF RemoveJob, clients
  <2>2. NoJob \in Job /\ NoJob.kind = "none"
    BY JobTypes DEF NoJob
  <2>3. /\ Drains
        /\ \A t \in Services, k \in Jobs : Collected(t, k)' <=> Collected(t, k)
    BY <2>1, NotifyDrains
  <2>4. edits <= edits' /\ added \subseteq added'
    BY <1>0, <2>1
  <2>5. PICK job \in Job : job = NoJob /\ job.kind = "none"
    BY <2>2
  <2> QED
    BY <2>1, <2>3, <2>4, <2>5, WriteKeeps
<1>3. CASE Get(s, j)
  BY <1>3, GetKeeps
<1>4. ASSUME NEW e \in BOOLEAN, EnableJob(s, j, e) PROVE IInv'
  <2>1. PICK old \in Job : old = mem[s][j] /\ old.kind # "none"
    <3>1. mem[s][j] \in Job
      BY StoredTypes
    <3> QED
      BY <1>4, <3>1 DEF EnableJob, Exists
  <2>2. PICK switched \in Job : switched = [old EXCEPT !.enabled = e]
    BY JobTypes
  <2>3. /\ switched.kind = old.kind /\ switched.at = old.at /\ switched.schedule = old.schedule
        /\ switched.enabled = e
    BY <2>2 DEF Job
  <2>4. PICK job : job = [switched EXCEPT !.next = IF e THEN NextRun(switched) ELSE None]
    OBVIOUS
  <2>5. job \in Job
    BY <2>2, <2>4, JobTypes
  <2>6. /\ job.kind = old.kind /\ job.at = old.at /\ job.schedule = old.schedule
        /\ job.enabled = e /\ job.next = IF e THEN NextRun(switched) ELSE None
    BY <2>3, <2>4 DEF Job
  <2>7. /\ UNCHANGED <<running, copy, added, runs>> /\ Notify(s) /\ edits' = edits + 1
        /\ StoreJob(s, j, job)
    BY <1>4, <2>1, <2>2, <2>4 DEF EnableJob
  <2>8. /\ Drains
        /\ \A t \in Services, k \in Jobs : Collected(t, k)' <=> Collected(t, k)
    BY <2>7, NotifyDrains
  <2>9. old.kind = "at" => old \in OneTime(j)
    BY <2>1 DEF OneTime, HeldJobs
  <2>10. ASSUME job.kind = "at" PROVE NextOK(job) /\ Safe(s, j, job)
    <3>1. job.next = IF e /\ job.at > 0 THEN job.at ELSE None
      BY <2>3, <2>6, <2>10 DEF NextRun
    <3>2. Spent(job.schedule) => job.at = 0
      BY <2>6, <2>9, <2>10 DEF OneTimeOK
    <3> QED
      BY <2>6, <3>1, <3>2 DEF NextOK, Safe
  <2>11. j \in added' /\ added \subseteq added' /\ edits <= edits'
    BY <1>0, <2>1, <2>7 DEF KnownOK, HeldJobs
  <2>12. Exists(s, j) /\ SameSchedule(mem[s][j], job)
    BY <2>1, <2>6 DEF Exists, SameSchedule
  <2>13. /\ mem[s][j].kind = job.kind /\ mem[s][j].schedule = job.schedule
         /\ mem[s][j].at = job.at
    BY <2>1, <2>6
  <2> QED
    BY <2>5, <2>7, <2>8, <2>10, <2>11, <2>12, <2>13, WriteKeeps
<1> QED
  BY <1>1, <1>2, <1>3, <1>4 DEF ClientStep

(* What UpdateJob writes is what it is given, with a next run of its own.    *)
LEMMA WrittenIs ==
  ASSUME NEW job \in Job, NEW new \in Job
  PROVE  /\ Written(job, new) \in Job
         /\ Written(job, new).kind = new.kind /\ Written(job, new).at = new.at
         /\ Written(job, new).schedule = new.schedule /\ Written(job, new).enabled = new.enabled
         /\ Written(job, new).next =
              IF ~ new.enabled THEN None
              ELSE IF job.enabled /\ SameSchedule(job, new) THEN new.next ELSE NextRun(new)
<1>1. Written(job, new) \in Job
  BY JobTypes
<1> QED
  BY <1>1 DEF Written, Job

LEMMA UpdateKeeps == ASSUME IInv, TypeOK', LoopOK', Update \/ Reschedule PROVE IInv'
<1> USE DEF IInv
<1>1. copy # NoCopy /\ copy \in [of : Services, id : Jobs, job : Job, edit : 1 .. MaxEdits]
  BY DEF Update, Reschedule, UpdateWith, TypeOK
<1>2. PICK s \in Services, j \in Jobs, x \in Job, n \in 1 .. MaxEdits :
         s = copy.of /\ j = copy.id /\ x = copy.job /\ n = copy.edit
  BY <1>1
<1>3. PICK new \in Job :
        /\ UpdateWith(new)
        /\ \/ new = x
           \/ new.schedule = n /\ new.kind # "none" /\ (new.kind = "at" => new.next = new.at)
  <2>1. CASE Update
    BY <1>2, <2>1 DEF Update
  <2>2. CASE Reschedule
    <3>1. PICK made \in NewJobs(n) : UpdateWith([made EXCEPT !.enabled = x.enabled])
      BY <1>2, <2>2 DEF Reschedule
    <3>2. /\ made \in Job /\ made.kind # "none" /\ made.schedule = n
          /\ made.kind = "at" => made.next = made.at
      BY NewJobsAre
    <3>3. x.enabled \in BOOLEAN
      BY DEF Job
    <3>4. PICK new \in Job : new = [made EXCEPT !.enabled = x.enabled]
      BY <3>2, <3>3, JobTypes
    <3>5. /\ new.kind = made.kind /\ new.at = made.at /\ new.next = made.next
          /\ new.schedule = made.schedule
      BY <3>2, <3>4 DEF Job
    <3> QED
      BY <3>1, <3>2, <3>4, <3>5
  <2> QED
    BY <2>1, <2>2
<1>4. copy' = NoCopy /\ UNCHANGED <<running, added, edits, runs>>
  BY <1>3 DEF UpdateWith
<1>5. CASE ~ Exists(s, j)
  <2>1. UNCHANGED <<file, mem, loop, due>>
    BY <1>2, <1>3, <1>5 DEF UpdateWith, looping
  <2> QED
    BY <1>4, <2>1, QuietKeeps
<1>6. CASE Exists(s, j)
  <2>1. PICK old \in Job : old = mem[s][j] /\ old.kind # "none"
    <3>1. mem[s][j] \in Job
      BY StoredTypes
    <3> QED
      BY <1>6, <3>1 DEF Exists
  <2>2. PICK job \in Job : job = Written(old, new)
    BY JobTypes
  <2>3. StoreJob(s, j, job) /\ Notify(s)
    BY <1>2, <1>3, <1>6, <2>1, <2>2 DEF UpdateWith
  <2>4. /\ job.kind = new.kind /\ job.at = new.at
        /\ job.schedule = new.schedule /\ job.enabled = new.enabled
        /\ job.next = IF ~ new.enabled THEN None
                      ELSE IF old.enabled /\ SameSchedule(old, new) THEN new.next ELSE NextRun(new)
    BY <2>2, WrittenIs
  <2>5. /\ Drains
        /\ \A t \in Services, k \in Jobs : Collected(t, k)' <=> Collected(t, k)
    BY <1>4, <2>3, NotifyDrains
  <2>6. j \in added' /\ added \subseteq added' /\ edits <= edits'
    <3>1. j \in added
      BY <2>1 DEF KnownOK, HeldJobs
    <3>2. edits \in Nat /\ edits' = edits
      BY <1>4, ConstantsAssumption DEF TypeOK
    <3> QED
      BY <1>4, <3>1, <3>2
  <2>7. SameSchedule(old, x) /\ (running[s] => Safe(s, j, x))
    BY <1>1, <1>2, <1>6, <2>1 DEF CopyOK
  <2>8. CASE new = x
    <3>1. /\ job.kind = old.kind /\ job.at = old.at /\ job.schedule = old.schedule
      BY <2>4, <2>7, <2>8 DEF SameSchedule
    <3>2. ASSUME job.kind = "at" PROVE NextOK(job) /\ (running[s] => Safe(s, j, job))
      <4>1. x \in OneTime(j) /\ x.kind = "at"
        BY <1>1, <1>2, <2>4, <2>8, <3>2 DEF OneTime, HeldJobs
      <4>2. NextOK(x) /\ (Spent(x.schedule) => x.at = 0)
        BY <4>1 DEF OneTimeOK
      <4>3. NextRun(x) = IF x.at > 0 THEN x.at ELSE None
        BY <4>1 DEF NextRun
      <4>4. job.next \in {None, x.next} \/ (job.next = x.at /\ x.at > 0)
        BY <2>4, <2>8, <4>3
      <4>5. NextOK(job)
        BY <2>4, <2>8, <4>2, <4>4 DEF NextOK
      <4>6. running[s] => Safe(s, j, job)
        BY <2>4, <2>7, <2>8, <4>2, <4>4 DEF Safe
      <4> QED
        BY <4>5, <4>6
    <3>3. /\ mem[s][j].kind = job.kind /\ mem[s][j].schedule = job.schedule
          /\ mem[s][j].at = job.at
      BY <2>1, <3>1
    <3> QED
      BY <1>4, <2>3, <2>5, <2>6, <3>2, <3>3, WriteKeeps
  <2>9. CASE new.schedule = n /\ new.kind # "none" /\ (new.kind = "at" => new.next = new.at)
    <3>1. job.schedule = n /\ ~ Spent(n) /\ n <= edits
      BY <1>1, <1>2, <2>4, <2>9 DEF NumbersOK
    <3>2. \A k \in Jobs : \A was \in OneTime(k) : was.schedule # job.schedule
      BY <1>1, <1>2, <3>1 DEF OneTimeOK
    <3>3. job.kind = "at" => NextOK(job) /\ Safe(s, j, job)
      BY <2>4, <2>9, <3>1 DEF NextOK, Safe, NextRun
    <3>4. job.schedule \in 1 .. edits'
      BY <1>4, <3>1, ConstantsAssumption DEF TypeOK
    <3> QED
      BY <1>4, <2>3, <2>5, <2>6, <3>1, <3>2, <3>3, <3>4, WriteKeeps
  <2> QED
    BY <1>3, <2>8, <2>9
<1> QED
  BY <1>5, <1>6

LEMMA Keeps == ASSUME IInv, [Next]_vars PROVE IInv'
<1>0. TypeOK' /\ LoopOK'
  BY Typing, LoopKept DEF IInv
<1>1. ASSUME NEW s \in Services, Start(s) PROVE IInv'
  BY <1>0, <1>1, StartKeeps
<1>2. ASSUME NEW s \in Services, LoopStep(s) PROVE IInv'
  BY <1>0, <1>2, LoopKeeps
<1>3. ASSUME NEW s \in Services, NEW j \in Jobs, ClientStep(s, j) PROVE IInv'
  BY <1>0, <1>3, ClientKeeps
<1>4. CASE Update \/ Reschedule
  BY <1>0, <1>4, UpdateKeeps
<1>5. CASE Stop
  <2>1. /\ UNCHANGED <<file, mem, loop, due, copy, added, edits, runs>>
        /\ \A s \in Services : running'[s] => running[s]
    BY <1>5 DEF Stop, looping, clients, IInv, TypeOK
  <2> QED
    BY <1>0, <2>1, QuietKeeps
<1>6. CASE Crash
  <2>1. /\ UNCHANGED <<file, added, edits, runs>> /\ copy' = NoCopy
        /\ \A s \in Services : mem'[s] = Empty /\ ~ running'[s] /\ due'[s] = <<>>
    BY <1>6 DEF Crash
  <2> QED
    BY <1>0, <2>1, QuietKeeps
<1>7. CASE Tick
  BY <1>0, <1>7, TickKeeps
<1>8. CASE UNCHANGED vars
  <2>1. UNCHANGED <<file, mem, running, loop, due, copy, added, edits, runs>>
    BY <1>8 DEF vars
  <2> QED
    BY <1>0, <2>1, QuietKeeps
<1> QED
  BY <1>1, <1>2, <1>3, <1>4, <1>5, <1>6, <1>7, <1>8 DEF Next

LEMMA Starts == ASSUME Init PROVE IInv
<1>1. TypeOK /\ LoopOK
  BY TypesStart
<1>2. /\ \A j \in Jobs : file[j] = NoJob /\ \A s \in Services : mem[s][j] = NoJob
      /\ copy = NoCopy /\ \A s \in Services : due[s] = <<>> /\ ~ running[s]
      /\ \A i \in 1 .. MaxEdits : runs[i] = 0
      /\ DOMAIN runs = 1 .. MaxEdits
  BY DEF Init, Empty
<1>3. \A j \in Jobs : HeldJobs(j) \subseteq {NoJob} /\ OneTime(j) = {}
  BY <1>2 DEF HeldJobs, OneTime, NoJob
<1>4. (\A s \in Services : Uncalled(s) = {}) /\ \A i : ~ Spent(i)
  BY <1>2 DEF Uncalled, Spent
<1>5. KnownOK /\ OneTimeOK /\ SchedulesOK
  BY <1>3 DEF KnownOK, OneTimeOK, SchedulesOK, NoJob
<1>6. NumbersOK /\ OnceOK /\ MemOK /\ CopyOK
  BY <1>2, <1>4 DEF NumbersOK, OnceOK, MemOK, CopyOK
<1> QED
  BY <1>1, <1>5, <1>6 DEF IInv

(* The time of a one-time job leads to at most one call.                     *)
THEOREM AtMostOnceHolds == Spec => []AtMostOnce
<1>1. Init => IInv
  BY Starts
<1>2. IInv /\ [Next]_vars => IInv'
  BY Keeps
<1>3. IInv => AtMostOnce
  <2> SUFFICES ASSUME IInv, NEW s \in Services, NEW j \in Jobs, mem[s][j].kind = "at"
               PROVE  runs[mem[s][j].schedule] <= 1
    BY DEF AtMostOnce
  <2>1. mem[s][j] \in OneTime(j)
    BY DEF OneTime, HeldJobs
  <2>2. mem[s][j].schedule \in 1 .. MaxEdits
    BY <2>1, ConstantsAssumption DEF IInv, OneTimeOK, TypeOK
  <2> QED
    BY <2>2 DEF IInv, OnceOK
<1> QED
  BY <1>1, <1>2, <1>3, PTL DEF Spec

-----------------------------------------------------------------------------
(* The cooldown tracker.                                                     *)

(* The shape of the tracker, all the argument needs of the types.            *)
TrackerOK ==
  /\ errors \in [Keys -> 0 .. Len(Standard)]
  /\ billings \in [Keys -> 0 .. Len(Billing)]
  /\ cooling \in [Keys -> Nat]
  /\ disabled \in [Keys -> Nat]
  /\ age \in [Keys -> Nat]

(* What is left of an expiry and the age of the last failure never add up to *)
(* more than the backoff its count asks for.                                 *)
Owed(left, n, table, old) == left > 0 => n > 0 /\ left + old <= table[n]

Ledger ==
  \A k \in Keys : /\ Owed(cooling[k], errors[k], Standard, age[k])
                  /\ Owed(disabled[k], billings[k], Billing, age[k])

LedgerInv == TrackerOK /\ Ledger

(* A request is always at a candidate of its chain.                          *)
RequestOK ==
  /\ at \in [Requests -> Nat]
  /\ \A q \in Requests : at[q] \in 1 .. Len(Chain[q])
  /\ pc \in [Requests -> Places]

-----------------------------------------------------------------------------
(* The count a failure computes its backoff from is at least the one the     *)
(* running expiry came from, unless that has run out.                        *)
LEMMA CountGrows ==
  ASSUME NEW table, Backoff(table, Window),
         NEW left \in Nat, NEW old \in Nat, NEW n \in 0 .. Len(table),
         Owed(left, n, table, old),
         NEW m, m = Next1(IF old > Window THEN 0 ELSE n, Len(table))
  PROVE  /\ m \in 1 .. Len(table)
         /\ table[m] \in Nat
         /\ left <= table[m]
<1>1. /\ Len(table) \in Nat \ {0}
      /\ \A i \in 1 .. Len(table) : table[i] \in Nat
  BY DEF Backoff
<1>2. m \in 1 .. Len(table)
  BY <1>1 DEF Next1
<1>3. \A i \in 1 .. Len(table) : table[i] <= Window
  BY DEF Backoff
<1>4. CASE left = 0
  BY <1>1, <1>2, <1>4
<1>5. CASE left > 0
  <2>1. n \in 1 .. Len(table) /\ left + old <= table[n]
    BY <1>1, <1>5 DEF Owed
  <2>2. old <= Window
    BY <1>1, <1>3, <2>1, BackoffAssumption
  <2>3. m >= n
    BY <1>1, <2>1, <2>2, BackoffAssumption DEF Next1
  <2>4. table[n] <= table[m]
    BY <1>2, <2>1, <2>3 DEF Backoff
  <2> QED
    BY <1>1, <1>2, <2>1, <2>4
<1> QED
  BY <1>4, <1>5

(* The same count also covers an expiry the failure leaves alone.            *)
LEMMA FailureKeepsLedger ==
  ASSUME LedgerInv, NEW k \in Keys, NEW reason, MarkFailure(k, reason)
  PROVE  /\ LedgerInv'
         /\ \A j \in Keys : cooling[j] <= cooling'[j] /\ disabled[j] <= disabled'[j]
<1> DEFINE e == Next1(IF age[k] > Window THEN 0 ELSE errors[k], Len(Standard))
           was == IF age[k] > Window THEN 0 ELSE billings[k]
           nb == Next1(was, Len(Billing))
<1>1. /\ Backoff(Standard, Window) /\ Backoff(Billing, Window)
      /\ Len(Standard) \in Nat /\ Len(Billing) \in Nat /\ Window \in Nat
  BY BackoffAssumption DEF Backoff
<1>2. /\ cooling[k] \in Nat /\ disabled[k] \in Nat /\ age[k] \in Nat
      /\ errors[k] \in 0 .. Len(Standard) /\ billings[k] \in 0 .. Len(Billing)
  BY DEF LedgerInv, TrackerOK
<1>3. /\ e \in 1 .. Len(Standard) /\ Standard[e] \in Nat /\ cooling[k] <= Standard[e]
  <2> HIDE DEF e
  <2>1. Owed(cooling[k], errors[k], Standard, age[k])
    BY DEF LedgerInv, Ledger
  <2>2. e = Next1(IF age[k] > Window THEN 0 ELSE errors[k], Len(Standard))
    BY DEF e
  <2> QED
    BY <1>1, <1>2, <2>1, <2>2, CountGrows
<1>4. /\ nb \in 1 .. Len(Billing) /\ Billing[nb] \in Nat /\ disabled[k] <= Billing[nb]
  <2> HIDE DEF nb
  <2>1. Owed(disabled[k], billings[k], Billing, age[k])
    BY DEF LedgerInv, Ledger
  <2>2. nb = Next1(IF age[k] > Window THEN 0 ELSE billings[k], Len(Billing))
    BY DEF nb
  <2> QED
    BY <1>1, <1>2, <2>1, <2>2, CountGrows
<1>5. /\ errors' = [errors EXCEPT ![k] = e]
      /\ age' = [age EXCEPT ![k] = 0]
  BY DEF MarkFailure
<1>6. CASE reason = "billing"
  <2>1. /\ billings' = [billings EXCEPT ![k] = nb]
        /\ disabled' = [disabled EXCEPT ![k] = Billing[nb]]
        /\ cooling' = cooling
    BY <1>6 DEF MarkFailure
  <2> HIDE DEF e, nb
  <2>2. TrackerOK'
    <3>1. errors' \in [Keys -> 0 .. Len(Standard)] /\ age' \in [Keys -> Nat]
      BY <1>1, <1>3, <1>5 DEF LedgerInv, TrackerOK
    <3>2. billings' \in [Keys -> 0 .. Len(Billing)]
      BY <1>1, <1>4, <2>1 DEF LedgerInv, TrackerOK
    <3>3. cooling' \in [Keys -> Nat] /\ disabled' \in [Keys -> Nat]
      BY <1>4, <2>1 DEF LedgerInv, TrackerOK
    <3> QED
      BY <3>1, <3>2, <3>3 DEF TrackerOK
  <2>3. Ledger'
    <3> SUFFICES ASSUME NEW j \in Keys
                 PROVE  /\ Owed(cooling'[j], errors'[j], Standard, age'[j])
                        /\ Owed(disabled'[j], billings'[j], Billing, age'[j])
      BY DEF Ledger
    <3>1. CASE j # k
      <4>1. /\ cooling'[j] = cooling[j] /\ errors'[j] = errors[j] /\ age'[j] = age[j]
            /\ disabled'[j] = disabled[j] /\ billings'[j] = billings[j]
        BY <1>5, <2>1, <3>1 DEF LedgerInv, TrackerOK
      <4> QED
        BY <4>1 DEF LedgerInv, Ledger
    <3>2. CASE j = k
      <4>1. /\ cooling'[k] = cooling[k] /\ errors'[k] = e /\ age'[k] = 0
            /\ disabled'[k] = Billing[nb] /\ billings'[k] = nb
        BY <1>5, <2>1 DEF LedgerInv, TrackerOK
      <4>2. Owed(cooling[k], e, Standard, 0)
        BY <1>2, <1>3 DEF Owed
      <4>3. Owed(Billing[nb], nb, Billing, 0)
        BY <1>4 DEF Owed
      <4> QED
        BY <3>2, <4>1, <4>2, <4>3
    <3> QED
      BY <3>1, <3>2
  <2>4. \A j \in Keys : cooling[j] <= cooling'[j]
    BY <2>1 DEF LedgerInv, TrackerOK
  <2>5. \A j \in Keys : disabled[j] <= disabled'[j]
    BY <1>2, <1>4, <2>1 DEF LedgerInv, TrackerOK
  <2>6. LedgerInv'
    BY <2>2, <2>3 DEF LedgerInv
  <2> QED
    BY <2>4, <2>5, <2>6
<1>7. CASE reason # "billing"
  <2>1. /\ billings' = [billings EXCEPT ![k] = was]
        /\ cooling' = [cooling EXCEPT ![k] = Standard[e]]
        /\ disabled' = disabled
    BY <1>7 DEF MarkFailure
  <2>2. disabled[k] > 0 => was = billings[k]
    <3> SUFFICES ASSUME disabled[k] > 0 PROVE age[k] <= Window
      BY <1>1, <1>2
    <3>1. /\ billings[k] > 0
          /\ disabled[k] + age[k] <= Billing[billings[k]]
      BY DEF LedgerInv, Ledger, Owed
    <3>2. /\ Billing[billings[k]] \in Nat
          /\ Billing[billings[k]] <= Window
      BY <1>1, <1>2, <3>1 DEF Backoff
    <3> HIDE DEF e, was, nb
    <3> QED
      BY <1>1, <1>2, <3>1, <3>2
  <2>3. was \in 0 .. Len(Billing)
    BY <1>1, <1>2
  <2>4. \A i \in 1 .. Len(Billing) : Billing[i] \in Nat
    BY <1>1 DEF Backoff
  <2> HIDE DEF e, was
  <2>5. TrackerOK'
    BY <1>1, <1>3, <1>5, <2>1, <2>3 DEF LedgerInv, TrackerOK
  <2>6. ASSUME NEW j \in Keys
        PROVE  /\ Owed(cooling'[j], errors'[j], Standard, age'[j])
               /\ Owed(disabled'[j], billings'[j], Billing, age'[j])
    <3>1. CASE j # k
      <4>1. /\ cooling'[j] = cooling[j] /\ errors'[j] = errors[j] /\ age'[j] = age[j]
            /\ disabled'[j] = disabled[j] /\ billings'[j] = billings[j]
        BY <1>5, <2>1, <3>1 DEF LedgerInv, TrackerOK
      <4> QED
        BY <4>1 DEF LedgerInv, Ledger
    <3>2. CASE j = k
      <4>1. Owed(cooling'[k], errors'[k], Standard, age'[k])
        <5>1. cooling'[k] = Standard[e] /\ errors'[k] = e /\ age'[k] = 0
          BY <1>5, <2>1 DEF LedgerInv, TrackerOK
        <5> QED
          BY <1>3, <5>1 DEF Owed
      <4>2. disabled'[k] = disabled[k] /\ billings'[k] = was /\ age'[k] = 0
        BY <1>5, <2>1 DEF LedgerInv, TrackerOK
      <4>3. Owed(disabled'[k], billings'[k], Billing, age'[k])
        BY <1>2, <2>2, <2>3, <2>4, <4>2 DEF LedgerInv, Ledger, Owed
      <4> QED
        BY <3>2, <4>1, <4>3
    <3> QED
      BY <3>1, <3>2
  <2>7. LedgerInv'
    BY <2>5, <2>6 DEF LedgerInv, Ledger
  <2>8. \A j \in Keys : cooling[j] <= cooling'[j]
    <3>1. cooling'[k] = Standard[e]
      BY <2>1 DEF LedgerInv, TrackerOK
    <3>2. ASSUME NEW j \in Keys, j # k PROVE cooling'[j] = cooling[j] /\ cooling[j] \in Nat
      BY <2>1, <3>2 DEF LedgerInv, TrackerOK
    <3> QED
      BY <1>3, <3>1, <3>2
  <2>9. \A j \in Keys : disabled[j] <= disabled'[j]
    BY <2>1 DEF LedgerInv, TrackerOK
  <2> QED
    BY <2>7, <2>8, <2>9
<1> QED
  BY <1>6, <1>7

LEMMA SuccessKeepsLedger ==
  ASSUME LedgerInv, NEW k \in Keys, MarkSuccess(k)
  PROVE  /\ LedgerInv'
         /\ \A j \in Keys \ {k} : cooling'[j] = cooling[j] /\ disabled'[j] = disabled[j]
<1>1. Len(Standard) \in Nat /\ Len(Billing) \in Nat
  BY BackoffAssumption DEF Backoff
<1>2. TrackerOK'
  BY <1>1 DEF LedgerInv, TrackerOK, MarkSuccess
<1>3. Ledger'
  BY DEF LedgerInv, TrackerOK, Ledger, Owed, MarkSuccess
<1> QED
  BY <1>2, <1>3 DEF LedgerInv, TrackerOK, MarkSuccess

LEMMA TimeKeepsLedger ==
  ASSUME LedgerInv, TimePasses
  PROVE  LedgerInv'
<1>1. /\ Window \in Nat
      /\ \A i \in 1 .. Len(Standard) : Standard[i] \in Nat
      /\ \A i \in 1 .. Len(Billing) : Billing[i] \in Nat
  BY BackoffAssumption DEF Backoff
<1>2. TrackerOK'
  BY <1>1 DEF LedgerInv, TrackerOK, TimePasses, Less1, Next1
<1>3. Ledger'
  <2> SUFFICES ASSUME NEW k \in Keys
               PROVE  /\ Owed(cooling'[k], errors'[k], Standard, age'[k])
                      /\ Owed(disabled'[k], billings'[k], Billing, age'[k])
    BY DEF Ledger
  <2>1. /\ cooling'[k] = Less1(cooling[k]) /\ disabled'[k] = Less1(disabled[k])
        /\ age'[k] <= age[k] + 1 /\ age'[k] \in Nat
        /\ errors'[k] = errors[k] /\ billings'[k] = billings[k]
    BY <1>1 DEF LedgerInv, TrackerOK, TimePasses, Next1
  <2>2. /\ cooling[k] \in Nat /\ disabled[k] \in Nat /\ age[k] \in Nat
        /\ errors[k] \in 0 .. Len(Standard) /\ billings[k] \in 0 .. Len(Billing)
        /\ Owed(cooling[k], errors[k], Standard, age[k])
        /\ Owed(disabled[k], billings[k], Billing, age[k])
    BY DEF LedgerInv, TrackerOK, Ledger
  <2>3. Owed(cooling'[k], errors'[k], Standard, age'[k])
    <3> SUFFICES ASSUME cooling'[k] > 0
                 PROVE  errors'[k] > 0 /\ cooling'[k] + age'[k] <= Standard[errors'[k]]
      BY DEF Owed
    <3>1. cooling[k] > 0 /\ cooling'[k] = cooling[k] - 1
      BY <2>1, <2>2 DEF Less1
    <3>2. errors[k] \in 1 .. Len(Standard) /\ cooling[k] + age[k] <= Standard[errors[k]]
      BY <2>2, <3>1 DEF Owed
    <3>3. Standard[errors[k]] \in Nat /\ cooling[k] \in Nat /\ age[k] \in Nat
      BY <1>1, <2>2, <3>2
    <3>4. errors'[k] = errors[k] /\ age'[k] \in Nat /\ age'[k] <= age[k] + 1
      BY <2>1
    <3>5. cooling'[k] + age'[k] <= cooling[k] + age[k]
      BY <3>1, <3>3, <3>4
    <3>6. cooling'[k] + age'[k] \in Nat /\ cooling[k] + age[k] \in Nat
      BY <3>1, <3>3, <3>4
    <3> QED
      BY <3>2, <3>3, <3>4, <3>5, <3>6
  <2>4. Owed(disabled'[k], billings'[k], Billing, age'[k])
    <3> SUFFICES ASSUME disabled'[k] > 0
                 PROVE  billings'[k] > 0 /\ disabled'[k] + age'[k] <= Billing[billings'[k]]
      BY DEF Owed
    <3>1. disabled[k] > 0 /\ disabled'[k] = disabled[k] - 1
      BY <2>1, <2>2 DEF Less1
    <3>2. billings[k] \in 1 .. Len(Billing) /\ disabled[k] + age[k] <= Billing[billings[k]]
      BY <2>2, <3>1 DEF Owed
    <3>3. Billing[billings[k]] \in Nat /\ disabled[k] \in Nat /\ age[k] \in Nat
      BY <1>1, <2>2, <3>2
    <3>4. billings'[k] = billings[k] /\ age'[k] \in Nat /\ age'[k] <= age[k] + 1
      BY <2>1
    <3>5. disabled'[k] + age'[k] <= disabled[k] + age[k]
      BY <3>1, <3>3, <3>4
    <3>6. disabled'[k] + age'[k] \in Nat /\ disabled[k] + age[k] \in Nat
      BY <3>1, <3>3, <3>4
    <3> QED
      BY <3>2, <3>3, <3>4, <3>5, <3>6
  <2> QED
    BY <2>3, <2>4
<1> QED
  BY <1>2, <1>3 DEF LedgerInv

-----------------------------------------------------------------------------
(* Every step keeps the position of a request inside its chain.              *)
LEMMA RequestStep == RequestOK /\ [FallbackNext]_fallbackVars => RequestOK'
<1> SUFFICES ASSUME RequestOK, [FallbackNext]_fallbackVars PROVE RequestOK'
  OBVIOUS
<1>1. CASE at' = at /\ (pc' = pc \/ \E q \in Requests, place \in Places : GoTo(q, place))
  BY <1>1 DEF RequestOK, GoTo
<1>2. ASSUME NEW q \in Requests, Return(q) PROVE RequestOK'
  <2>1. \A x \in Requests : Len(Chain[x]) \in Nat \ {0}
    BY ChainAssumption
  <2> QED
    BY <1>2, <2>1 DEF RequestOK, Return, GoTo, Places
<1>3. ASSUME NEW q \in Requests, Advance(q) PROVE RequestOK'
  <2>1. CASE Last(q)
    BY <1>2, <1>3, <2>1 DEF Advance
  <2>2. CASE ~ Last(q)
    <3>1. at' = [at EXCEPT ![q] = @ + 1] /\ GoTo(q, "check")
      BY <1>3, <2>2 DEF Advance
    <3>2. at[q] \in Nat /\ at[q] + 1 \in 1 .. Len(Chain[q])
      <4>1. Chain[q] \in Seq(Keys)
        BY ChainAssumption
      <4>2. Len(Chain[q]) \in Nat
        BY <4>1
      <4> QED
        BY <2>2, <4>2 DEF RequestOK, Last
    <3> QED
      BY <3>1, <3>2 DEF RequestOK, GoTo, Places
  <2> QED
    BY <2>1, <2>2
<1>4. ASSUME NEW q \in Requests, Progress(q) PROVE RequestOK'
  BY <1>1, <1>2, <1>3, <1>4
     DEF Progress, StopCanceled, SkipBlocked, PassCheck, Acquire, SkipSaturated,
         StartWait, WaitEnds, Succeed, FailForGood, FailOver, Places
<1>5. ASSUME NEW q \in Requests, Begin(q) \/ ContextEnds(q) PROVE RequestOK'
  BY <1>1, <1>5 DEF Begin, ContextEnds, Places
<1>6. CASE UNCHANGED fallbackVars
  BY <1>1, <1>6 DEF fallbackVars
<1>7. CASE TimePasses
  BY <1>1, <1>7 DEF TimePasses, request
<1> QED
  BY <1>4, <1>5, <1>6, <1>7 DEF FallbackNext

(* A step is a tick, leaves the tracker alone, or is the mark a call ends in. *)
LEMMA StepKinds ==
  ASSUME RequestOK, [FallbackNext]_fallbackVars
  PROVE  \/ TimePasses
         \/ UNCHANGED tracker
         \/ \E q \in Requests : /\ Key(q) \in Keys
                                /\ \/ pc[q] = "call" /\ Succeed(q) /\ MarkSuccess(Key(q))
                                   \/ FailOver(q) /\ \E reason \in {"billing", "other"} :
                                                       MarkFailure(Key(q), reason)
<1>1. \A q \in Requests : Key(q) \in Keys
  BY ChainAssumption DEF RequestOK, Key
<1>2. CASE UNCHANGED fallbackVars
  BY <1>2 DEF fallbackVars, tracker
<1>3. ASSUME NEW q \in Requests, Progress(q)
      PROVE  \/ UNCHANGED tracker
             \/ pc[q] = "call" /\ Succeed(q) /\ MarkSuccess(Key(q))
             \/ FailOver(q) /\ \E reason \in {"billing", "other"} : MarkFailure(Key(q), reason)
  <2>1. CASE Succeed(q)
    BY <2>1 DEF Succeed
  <2>2. CASE FailOver(q)
    BY <2>2 DEF FailOver
  <2> QED
    BY <1>3, <2>1, <2>2
       DEF Progress, StopCanceled, SkipBlocked, PassCheck, Acquire, SkipSaturated,
           StartWait, WaitEnds, FailForGood
<1>4. ASSUME NEW q \in Requests, Begin(q) \/ ContextEnds(q)
      PROVE  UNCHANGED tracker
  BY <1>4 DEF Begin, ContextEnds
<1> QED
  BY <1>1, <1>2, <1>3, <1>4 DEF FallbackNext

LEMMA LedgerStep == RequestOK /\ LedgerInv /\ [FallbackNext]_fallbackVars => LedgerInv'
<1> SUFFICES ASSUME RequestOK, LedgerInv, [FallbackNext]_fallbackVars PROVE LedgerInv'
  OBVIOUS
<1>1. CASE UNCHANGED tracker
  BY <1>1 DEF tracker, LedgerInv, TrackerOK, Ledger
<1> QED
  BY <1>1, StepKinds, TimeKeepsLedger, SuccessKeepsLedger, FailureKeepsLedger

LEMMA LedgerInit == FallbackInit => RequestOK /\ LedgerInv
<1> SUFFICES ASSUME FallbackInit PROVE RequestOK /\ LedgerInv
  OBVIOUS
<1>1. Len(Standard) \in Nat /\ Len(Billing) \in Nat /\ Window \in Nat
  BY BackoffAssumption DEF Backoff
<1>2. RequestOK
  BY ChainAssumption DEF FallbackInit, RequestOK, Places
<1>3. LedgerInv
  BY <1>1 DEF FallbackInit, LedgerInv, TrackerOK, Ledger, Owed
<1> QED
  BY <1>2, <1>3

(* The tracker invariant: what remains of an expiry and the age of the last  *)
(* failure never exceed the backoff of the count (cooldown.go:42).           *)
THEOREM LedgerHolds == FallbackSpec => [](RequestOK /\ LedgerInv)
<1>1. RequestOK /\ LedgerInv /\ [FallbackNext]_fallbackVars => (RequestOK /\ LedgerInv)'
  BY RequestStep, LedgerStep
<1> QED
  BY <1>1, LedgerInit, PTL DEF FallbackSpec

(* For every set of requests and keys, every chain, bucket and pair of       *)
(* growing tables below the window: only the clock and a success shorten     *)
(* what remains of a block.                                                  *)
THEOREM NeverShortenedHolds == FallbackSpec => NeverShortened
<1>1. ASSUME RequestOK, LedgerInv, [FallbackNext]_fallbackVars
      PROVE  \A k \in Keys : Remaining(k)' < Remaining(k) =>
               \/ TimePasses
               \/ \E q \in Requests : pc[q] = "call" /\ Key(q) = k /\ Succeed(q)
  <2> SUFFICES ASSUME NEW k \in Keys, Remaining(k)' < Remaining(k), ~ TimePasses
               PROVE  \E q \in Requests : pc[q] = "call" /\ Key(q) = k /\ Succeed(q)
    OBVIOUS
  <2>1. /\ cooling[k] \in Nat /\ disabled[k] \in Nat
        /\ cooling'[k] \in Nat /\ disabled'[k] \in Nat
    BY <1>1, LedgerStep DEF LedgerInv, TrackerOK
  <2>2. ~ (cooling[k] <= cooling'[k] /\ disabled[k] <= disabled'[k])
    BY <2>1 DEF Remaining
  <2>3. ~ UNCHANGED tracker
    BY <2>1, <2>2 DEF tracker
  <2>4. PICK q \in Requests :
          /\ Key(q) \in Keys
          /\ \/ pc[q] = "call" /\ Succeed(q) /\ MarkSuccess(Key(q))
             \/ \E reason \in {"billing", "other"} : MarkFailure(Key(q), reason)
    BY <1>1, <2>3, StepKinds
  <2>5. pc[q] = "call" /\ Succeed(q) /\ MarkSuccess(Key(q))
    BY <1>1, <2>2, <2>4, FailureKeepsLedger
  <2>6. Key(q) = k
    BY <1>1, <2>1, <2>2, <2>4, <2>5, SuccessKeepsLedger
  <2> QED
    BY <2>5, <2>6
<1> QED
  BY <1>1, LedgerHolds, PTL DEF FallbackSpec, NeverShortened

(* No request passes the check of a blocked key.                             *)
LEMMA BlockedDrains ==
  ASSUME RequestOK, [FallbackNext]_fallbackVars, NEW k \in Keys, ~ IsAvailable(k)
  PROVE  InFlight(k)' \subseteq InFlight(k)
<1> SUFFICES ASSUME NEW x \in Requests, pc'[x] \in {"acquire", "wait", "call"}, Key(x)' = k
             PROVE  pc[x] \in {"acquire", "wait", "call"} /\ Key(x) = k
  BY DEF InFlight
<1>1. CASE at' = at /\ pc' = pc
  BY <1>1 DEF Key
<1>2. ASSUME NEW q \in Requests, Return(q) PROVE x # q /\ at'[x] = at[x] /\ pc'[x] = pc[x]
  BY <1>2 DEF RequestOK, Return, GoTo
<1>3. ASSUME NEW q \in Requests, Advance(q) PROVE x # q /\ at'[x] = at[x] /\ pc'[x] = pc[x]
  BY <1>2, <1>3 DEF RequestOK, Advance, GoTo
<1>4. ASSUME NEW q \in Requests, Progress(q)
      PROVE  pc[x] \in {"acquire", "wait", "call"} /\ Key(x) = k
  <2>1. CASE PassCheck(q)
    <3>1. x # q
      BY <2>1 DEF PassCheck, Key
    <3> QED
      BY <2>1, <3>1 DEF PassCheck, GoTo, RequestOK, Key
  <2>2. CASE Acquire(q) \/ StartWait(q)
    BY <2>2 DEF Acquire, StartWait, GoTo, RequestOK, Key
  <2>3. CASE StopCanceled(q) \/ WaitEnds(q) \/ Succeed(q) \/ FailForGood(q)
    BY <1>2, <2>3 DEF StopCanceled, WaitEnds, Succeed, FailForGood, Key
  <2>4. CASE SkipBlocked(q) \/ SkipSaturated(q) \/ FailOver(q)
    BY <1>3, <2>4 DEF SkipBlocked, SkipSaturated, FailOver, Key
  <2> QED
    BY <1>4, <2>1, <2>2, <2>3, <2>4 DEF Progress
<1>5. ASSUME NEW q \in Requests, Begin(q) PROVE x # q /\ at' = at /\ pc'[x] = pc[x]
  BY <1>5 DEF Begin, GoTo, RequestOK
<1> QED
  BY <1>1, <1>4, <1>5 DEF FallbackNext, fallbackVars, TimePasses, request, ContextEnds, Key

(* A failure spends the passage of its request.                              *)
LEMMA FailureSpends ==
  ASSUME RequestOK, NEW q \in Requests, FailOver(q)
  PROVE  q \in InFlight(Key(q)) /\ \A k \in Keys : q \notin InFlight(k)'
<1>1. pc[q] = "call"
  BY DEF FailOver
<1>2. pc'[q] \in {"check", "idle"}
  BY DEF FailOver, Advance, Return, GoTo, RequestOK
<1> QED
  BY <1>1, <1>2 DEF InFlight

(* What is owed is within the failure window.                                *)
LEMMA OwedIsWithin ==
  ASSUME NEW table, Backoff(table, Window),
         NEW left \in Nat, NEW old \in Nat, NEW n \in 0 .. Len(table),
         Owed(left, n, table, old)
  PROVE  left > 0 => left + old <= Window
<1>1. Window \in Nat /\ Len(table) \in Nat
  BY BackoffAssumption DEF Backoff
<1> SUFFICES ASSUME left > 0 PROVE left + old <= Window
  OBVIOUS
<1>2. n \in 1 .. Len(table) /\ left + old <= table[n]
  BY <1>1 DEF Owed
<1>3. table[n] \in Nat /\ table[n] <= Window
  BY <1>2 DEF Backoff
<1> QED
  BY <1>1, <1>2, <1>3

(* One request fewer pays for a new expiry.                                  *)
LEMMA Pays ==
  ASSUME NEW W \in Nat, NEW m \in Nat, NEW n \in Nat
  PROVE  /\ m <= n => W * m <= W * n
         /\ m < n => W + W * m <= W * n
         /\ W * m \in Nat
<1>1. W * m \in Nat /\ W * n \in Nat
  OBVIOUS
<1>2. ASSUME m <= n PROVE W * m <= W * n
  <2>1. PICK d \in Nat : n = m + d
    BY <1>2
  <2>2. W * n = W * m + W * d /\ W * d \in Nat
    BY <2>1
  <2> QED
    BY <1>1, <2>2
<1>3. ASSUME m < n PROVE W + W * m <= W * n
  <2>1. PICK d \in Nat : n = m + 1 + d
    BY <1>3
  <2>2. W * n = W * m + W + W * d /\ W * d \in Nat
    BY <2>1
  <2> QED
    BY <1>1, <2>2
<1> QED
  BY <1>1, <1>2, <1>3

(* For every set of requests and keys, every chain, bucket and pair of       *)
(* growing tables below the window: a block outlasts what remained at its    *)
(* beginning by no more than one failure window for each request that had    *)
(* passed the check by then, whatever those requests and all others do.      *)
THEOREM BlocksRunOutHolds == FallbackSpec => BlocksRunOut
<1>1. ASSUME RequestOK, LedgerInv, [FallbackNext]_fallbackVars,
             NEW k \in Keys, ~ IsAvailable(k), ~ IsAvailable(k)'
      PROVE  /\ Patience(k)' <= Patience(k)
             /\ TimePasses => Patience(k)' < Patience(k)
  <2> DEFINE n == Cardinality(InFlight(k))
             m == Cardinality(InFlight(k))'
  <2>1. IsFiniteSet(InFlight(k)) /\ InFlight(k)' \subseteq InFlight(k)
    BY <1>1, BlockedDrains, RequestsAssumption, FS_Subset DEF InFlight
  <2>2. n \in Nat /\ m \in Nat /\ m <= n /\ (m = n => InFlight(k)' = InFlight(k))
    <3>1. /\ IsFiniteSet(InFlight(k)')
          /\ Cardinality(InFlight(k)') <= Cardinality(InFlight(k))
          /\ Cardinality(InFlight(k)) = Cardinality(InFlight(k)') => InFlight(k) = InFlight(k)'
      BY <2>1, FS_Subset
    <3> QED
      BY <2>1, <3>1, FS_CardinalityType
  <2>3. Remaining(k) \in Nat /\ Remaining(k)' \in Nat /\ Remaining(k)' <= Window
    <3>1. LedgerInv'
      BY <1>1, LedgerStep
    <3>2. cooling[k] \in Nat /\ disabled[k] \in Nat
      BY <1>1 DEF LedgerInv, TrackerOK
    <3>3. /\ cooling'[k] \in Nat /\ disabled'[k] \in Nat /\ age'[k] \in Nat
          /\ errors'[k] \in 0 .. Len(Standard) /\ billings'[k] \in 0 .. Len(Billing)
          /\ Owed(cooling'[k], errors'[k], Standard, age'[k])
          /\ Owed(disabled'[k], billings'[k], Billing, age'[k])
      BY <3>1 DEF LedgerInv, TrackerOK, Ledger
    <3>4. /\ Window \in Nat
          /\ cooling'[k] > 0 => cooling'[k] + age'[k] <= Window
          /\ disabled'[k] > 0 => disabled'[k] + age'[k] <= Window
      BY <3>3, BackoffAssumption, OwedIsWithin
    <3> QED
      BY <3>2, <3>3, <3>4 DEF Remaining
  <2>4. Patience(k) = Remaining(k) + Window * n /\ Patience(k)' = Remaining(k)' + Window * m
    BY DEF Patience
  <2>5. Window \in Nat
    BY BackoffAssumption
  <2> HIDE DEF n, m
  <2>6. /\ Window * m \in Nat /\ Window * n \in Nat /\ Window * m <= Window * n
        /\ m < n => Window + Window * m <= Window * n
    BY <2>2, <2>5, Pays
  <2>7. CASE TimePasses
    <3>1. cooling'[k] = Less1(cooling[k]) /\ disabled'[k] = Less1(disabled[k])
      BY <2>7 DEF TimePasses
    <3>2. /\ cooling[k] \in Nat /\ disabled[k] \in Nat
          /\ cooling[k] > 0 \/ disabled[k] > 0
      BY <1>1 DEF LedgerInv, TrackerOK, IsAvailable
    <3>3. Remaining(k)' < Remaining(k)
      BY <3>1, <3>2 DEF Remaining, Less1
    <3> QED
      BY <2>3, <2>4, <2>6, <3>3
  <2>8. CASE UNCHANGED tracker
    <3>1. Remaining(k)' = Remaining(k)
      BY <2>8 DEF tracker, Remaining
    <3> QED
      BY <2>3, <2>4, <2>6, <2>7, <3>1
  <2>9. ASSUME NEW q \in Requests, FailOver(q) PROVE Patience(k)' <= Patience(k)
    <3>1. CASE Key(q) = k
      <4>1. InFlight(k)' # InFlight(k)
        BY <1>1, <2>9, <3>1, FailureSpends
      <4>2. m < n
        BY <2>2, <4>1
      <4> QED
        BY <2>3, <2>4, <2>5, <2>6, <4>2
    <3>2. CASE Key(q) # k
      <4>1. Remaining(k)' = Remaining(k)
        BY <1>1, <2>9, <3>2 DEF FailOver, MarkFailure, Remaining, LedgerInv, TrackerOK
      <4> QED
        BY <2>3, <2>4, <2>6, <4>1
    <3> QED
      BY <3>1, <3>2
  <2>10. ASSUME NEW q \in Requests, Succeed(q) PROVE Patience(k)' <= Patience(k)
    <3>1. Key(q) \in Keys
      BY <1>1, ChainAssumption DEF RequestOK, Key
    <3>2. Key(q) # k
      BY <1>1, <2>10, <3>1 DEF Succeed, MarkSuccess, IsAvailable, LedgerInv, TrackerOK
    <3>3. Remaining(k)' = Remaining(k)
      BY <1>1, <2>10, <3>2 DEF Succeed, MarkSuccess, Remaining, LedgerInv, TrackerOK
    <3> QED
      BY <2>3, <2>4, <2>6, <3>3
  <2>11. TimePasses \/ UNCHANGED tracker \/ \E q \in Requests : FailOver(q) \/ Succeed(q)
    BY <1>1, StepKinds
  <2> QED
    BY <2>7, <2>8, <2>9, <2>10, <2>11
<1>2. RequestOK /\ LedgerInv /\ [FallbackNext]_fallbackVars =>
        \A k \in Keys : ~ IsAvailable(k) /\ ~ IsAvailable(k)' =>
          /\ Patience(k)' <= Patience(k)
          /\ TimePasses => Patience(k)' < Patience(k)
  BY <1>1
<1> QED
  BY <1>2, LedgerHolds, PTL DEF FallbackSpec, BlocksRunOut
-----------------------------------------------------------------------------
(* Whatever kinds of failure are mixed, a block is over once nothing has     *)
(* failed for as long as the failure window: no backoff exceeds it, and the  *)
(* age of the last failure is part of the ledger (cooldown.go:42).           *)
THEOREM BlocksEndHolds ==
  FallbackSpec => [](\A k \in Keys : ~ IsAvailable(k) => Remaining(k) + age[k] <= Window)
<1>1. LedgerInv => \A k \in Keys : ~ IsAvailable(k) => Remaining(k) + age[k] <= Window
  <2> SUFFICES ASSUME LedgerInv, NEW k \in Keys, ~ IsAvailable(k)
               PROVE  Remaining(k) + age[k] <= Window
    OBVIOUS
  <2>1. /\ cooling[k] \in Nat /\ disabled[k] \in Nat /\ age[k] \in Nat
        /\ errors[k] \in 0 .. Len(Standard) /\ billings[k] \in 0 .. Len(Billing)
        /\ Owed(cooling[k], errors[k], Standard, age[k])
        /\ Owed(disabled[k], billings[k], Billing, age[k])
    BY DEF LedgerInv, TrackerOK, Ledger
  <2>2. /\ cooling[k] > 0 => cooling[k] + age[k] <= Window
        /\ disabled[k] > 0 => disabled[k] + age[k] <= Window
    BY <2>1, BackoffAssumption, OwedIsWithin
  <2>3. cooling[k] > 0 \/ disabled[k] > 0
    BY <2>1 DEF IsAvailable
  <2> QED
    BY <2>1, <2>2, <2>3, BackoffAssumption DEF Remaining
<1> QED
  BY <1>1, LedgerHolds, PTL

(* What the ledger does not say of the types: the bucket of a key never      *)
(* holds more than its burst, however requests and the clock come together.  *)
Buckets ==
  /\ tokens \in [Keys -> Nat]
  /\ \A k \in Keys : tokens[k] <= Burst[k]

AgesOK ==
  /\ \A k \in Keys : age[k] <= Window + 1
  /\ ctx \in [Requests -> {"live", "canceled", "expired"}]

LEMMA BucketsStep ==
  ASSUME RequestOK, Buckets, [FallbackNext]_fallbackVars PROVE Buckets'
<1>0. Burst \in [Keys -> Nat]
  BY BurstAssumption
<1>1. CASE UNCHANGED tokens
  BY <1>1 DEF Buckets
<1>2. CASE TimePasses
  <2>1. tokens' = [k \in Keys |-> Next1(tokens[k], Burst[k])]
    BY <1>2 DEF TimePasses
  <2>2. ASSUME NEW k \in Keys PROVE tokens'[k] \in Nat /\ tokens'[k] <= Burst[k]
    <3>1. tokens[k] \in Nat /\ tokens[k] <= Burst[k] /\ Burst[k] \in Nat
      BY <1>0 DEF Buckets
    <3>2. tokens'[k] = Next1(tokens[k], Burst[k])
      BY <2>1
    <3> QED
      BY <3>1, <3>2 DEF Next1
  <2> QED
    BY <2>1, <2>2 DEF Buckets
<1>3. ASSUME NEW q \in Requests, Acquire(q) PROVE Buckets'
  <2>1. PICK key : key = Key(q)
    OBVIOUS
  <2>2. key \in Keys
    BY <2>1, ChainAssumption DEF RequestOK, Key
  <2>3. CASE tokens[key] > 0 /\ tokens' = [tokens EXCEPT ![key] = @ - 1]
    <3>1. tokens'[key] = tokens[key] - 1 /\ \A k \in Keys : k # key => tokens'[k] = tokens[k]
      BY <2>2, <2>3 DEF Buckets
    <3>2. tokens[key] \in Nat /\ tokens[key] <= Burst[key] /\ Burst[key] \in Nat
      BY <1>0, <2>2 DEF Buckets
    <3>3. tokens'[key] \in Nat /\ tokens'[key] <= Burst[key]
      BY <2>3, <3>1, <3>2
    <3>4. \A k \in Keys : tokens'[k] \in Nat /\ tokens'[k] <= Burst[k]
      BY <3>1, <3>3 DEF Buckets
    <3>5. tokens' \in [Keys -> Nat]
      BY <2>3, <3>4 DEF Buckets
    <3> QED
      BY <3>4, <3>5 DEF Buckets
  <2> QED
    BY <1>1, <1>3, <2>1, <2>3 DEF Acquire, TakeToken
<1>4. ASSUME NEW q \in Requests, Begin(q) \/ ContextEnds(q) PROVE UNCHANGED tokens
  BY <1>4 DEF Begin, ContextEnds
<1>5. ASSUME NEW q \in Requests, Progress(q), ~ Acquire(q) PROVE UNCHANGED tokens
  BY <1>5 DEF Progress, StopCanceled, SkipBlocked, PassCheck, SkipSaturated, StartWait, WaitEnds,
              Succeed, FailForGood, FailOver
<1>6. CASE UNCHANGED fallbackVars
  BY <1>1, <1>6 DEF fallbackVars
<1> QED
  BY <1>1, <1>2, <1>3, <1>4, <1>5, <1>6 DEF FallbackNext

LEMMA AgesStep ==
  ASSUME RequestOK, LedgerInv, AgesOK, [FallbackNext]_fallbackVars PROVE AgesOK'
<1>0. Window \in Nat
  BY BackoffAssumption
<1>1. \A k \in Keys : age'[k] <= Window + 1
  <2>1. CASE UNCHANGED tracker
    BY <2>1 DEF tracker, AgesOK
  <2>2. CASE TimePasses
    <3>1. \A k \in Keys : age'[k] = Next1(age[k], Window + 1)
      BY <2>2 DEF TimePasses
    <3>2. \A k \in Keys : age[k] \in Nat /\ age[k] <= Window + 1
      BY DEF LedgerInv, TrackerOK, AgesOK
    <3> QED
      BY <1>0, <3>1, <3>2 DEF Next1
  <2>3. ASSUME NEW q \in Requests, MarkSuccess(Key(q)) PROVE \A k \in Keys : age'[k] <= Window + 1
    BY <2>3 DEF MarkSuccess, AgesOK
  <2>4. ASSUME NEW q \in Requests, NEW reason, MarkFailure(Key(q), reason)
        PROVE  \A k \in Keys : age'[k] <= Window + 1
    <3>1. \A k \in Keys : age'[k] \in {age[k], 0}
      BY <2>4 DEF MarkFailure, LedgerInv, TrackerOK
    <3> QED
      BY <1>0, <3>1 DEF AgesOK
  <2> QED
    BY <2>1, <2>2, <2>3, <2>4, StepKinds
<1>2. ctx' \in [Requests -> {"live", "canceled", "expired"}]
  <2> USE DEF AgesOK
  <2>1. ASSUME NEW q \in Requests, Return(q) PROVE ctx' \in [Requests -> {"live", "canceled", "expired"}]
    BY <2>1 DEF Return
  <2>2. ASSUME NEW q \in Requests, Advance(q) PROVE ctx' \in [Requests -> {"live", "canceled", "expired"}]
    BY <2>1, <2>2 DEF Advance
  <2>3. ASSUME NEW q \in Requests, Progress(q)
        PROVE  ctx' \in [Requests -> {"live", "canceled", "expired"}]
    BY <2>1, <2>2, <2>3 DEF Progress, StopCanceled, SkipBlocked, PassCheck, Acquire, SkipSaturated,
       StartWait, WaitEnds, Succeed, FailForGood, FailOver
  <2>4. ASSUME NEW q \in Requests, Begin(q) \/ ContextEnds(q)
        PROVE  ctx' \in [Requests -> {"live", "canceled", "expired"}]
    BY <2>4 DEF Begin, ContextEnds
  <2>5. CASE TimePasses \/ UNCHANGED fallbackVars
    BY <2>5 DEF TimePasses, request, fallbackVars
  <2> QED
    BY <2>3, <2>4, <2>5 DEF FallbackNext
<1> QED
  BY <1>1, <1>2 DEF AgesOK

(* Every variable of the tracker, of the buckets and of the requests keeps   *)
(* its type: a request is at a candidate of its chain whatever it skipped,   *)
(* and counts and ages stay where the tables end.                            *)
THEOREM FallbackTypes == FallbackSpec => []FallbackTypeOK
<1>1. FallbackInit => Buckets /\ AgesOK
  BY BurstAssumption, BackoffAssumption DEF FallbackInit, Buckets, AgesOK
<1>2. RequestOK /\ LedgerInv /\ Buckets /\ AgesOK /\ [FallbackNext]_fallbackVars
        => Buckets' /\ AgesOK'
  BY BucketsStep, AgesStep
<1>3. FallbackSpec => [](Buckets /\ AgesOK)
  BY <1>1, <1>2, LedgerHolds, PTL DEF FallbackSpec
<1>4. RequestOK /\ LedgerInv /\ Buckets /\ AgesOK => FallbackTypeOK
  <2> SUFFICES ASSUME RequestOK, LedgerInv, Buckets, AgesOK PROVE FallbackTypeOK
    OBVIOUS
  <2>1. \A k \in Keys : age[k] \in 0 .. Window + 1
    BY BackoffAssumption DEF LedgerInv, TrackerOK, AgesOK
  <2>2. age \in [Keys -> 0 .. Window + 1]
    BY <2>1 DEF LedgerInv, TrackerOK
  <2>3. \A q \in Requests : at[q] \in Nat \ {0} /\ at[q] <= Len(Chain[q])
    BY DEF RequestOK
  <2>4. at \in [Requests -> Nat \ {0}]
    BY <2>3 DEF RequestOK
  <2> QED
    BY <2>2, <2>3, <2>4 DEF FallbackTypeOK, RequestOK, LedgerInv, TrackerOK, Buckets, AgesOK
<1> QED
  BY <1>3, <1>4, LedgerHolds, PTL

(* The bucket of a key never holds more than its burst and never less than   *)
(* nothing, though TryAcquire and Wait of many requests take from it while   *)
(* it is refilled (ratelimiter.go:21, 43, 76).                               *)
THEOREM BucketsHold == FallbackSpec => []Buckets
<1>1. FallbackInit => Buckets
  BY BurstAssumption DEF FallbackInit, Buckets
<1>2. RequestOK /\ Buckets /\ [FallbackNext]_fallbackVars => Buckets'
  BY BucketsStep
<1> QED
  BY <1>1, <1>2, LedgerHolds, PTL DEF FallbackSpec
=============================================================================
