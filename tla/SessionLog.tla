----------------------------- MODULE SessionLog -----------------------------
(***************************************************************************)
(* What the store of conversations promises its callers, with no file,     *)
(* metadata, lock or goroutine in sight.  Each session is a log of         *)
(* messages.  While no operation on it fails, every operation happens at   *)
(* once: it adds a newer message, keeps an end of the log or a beginning,  *)
(* or gives an empty session the log of another.  A failed operation       *)
(* damages its session and no other: from then on less than what was asked *)
(* for may be kept, until the log is written anew.                         *)
(***************************************************************************)
EXTENDS Integers, Sequences

CONSTANTS Sessions, Messages

VARIABLES
  log,      \* [Sessions -> Seq(Messages)]
  damaged   \* sessions with a failed operation since their log was written anew

vars == <<log, damaged>>

Init ==
  /\ log = [s \in Sessions |-> <<>>]
  /\ damaged = {}

Within(p, q) == \A i \in DOMAIN p : \E j \in DOMAIN q : p[i] = q[j]
InOrder(q) == \A i, j \in DOMAIN q : i < j => q[i] < q[j]

\* The new log of s is some log in the order of the messages.
Rewritten(s) ==
  /\ log'[s] \in Seq(Messages)
  /\ InOrder(log'[s])
  /\ log' = [log EXCEPT ![s] = log'[s]]

Add(s) ==
  /\ \E m \in Messages :
       /\ \A i \in DOMAIN log[s] : log[s][i] < m
       /\ log' = [log EXCEPT ![s] = Append(@, m)]
  /\ UNCHANGED damaged

\* Truncation and compaction keep an end, rollback a beginning.
Keep(s) ==
  /\ s \notin damaged
  /\ \E k \in 0 .. Len(log[s]) :
       \E part \in {SubSeq(log[s], 1, k), SubSeq(log[s], k + 1, Len(log[s]))} :
         log' = [log EXCEPT ![s] = part]
  /\ UNCHANGED damaged

Promote(s, alias) ==
  /\ s \notin damaged
  /\ s # alias
  /\ log[s] = <<>>
  /\ IF alias \in damaged THEN Rewritten(s) ELSE log' = [log EXCEPT ![s] = log[alias]]
  /\ UNCHANGED damaged

\* Operations fail, or the process dies: what was promised stands.
Damage ==
  /\ damaged \subseteq damaged'
  /\ damaged' \subseteq Sessions
  /\ UNCHANGED log

\* An operation on a damaged log keeps some of it.
Lose(s) ==
  /\ s \in damaged
  /\ Rewritten(s)
  /\ Within(log'[s], log[s])
  /\ UNCHANGED damaged

Repair(s) ==
  /\ s \in damaged
  /\ Rewritten(s)
  /\ damaged' = damaged \ {s}

Next ==
  \/ Damage
  \/ \E s \in Sessions :
       \/ Add(s) \/ Keep(s) \/ Lose(s) \/ Repair(s)
       \/ \E alias \in Sessions : Promote(s, alias)

Spec == Init /\ [][Next]_vars
=============================================================================
