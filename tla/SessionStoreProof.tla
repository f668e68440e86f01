-------------------------- MODULE SessionStoreProof --------------------------
(***************************************************************************)
(* Proofs about the session store, whatever the number of goroutines,      *)
(* sessions, messages, failures and crashes, and however keys are hashed   *)
(* onto mutexes.                                                           *)
(*                                                                         *)
(* The locks exclude: no two operations are at the files of one session.   *)
(* An operation holds the mutex of every session it uses, and a promotion  *)
(* that waits for its second mutex holds the first (Owns).  A mutex has    *)
(* one holder, and a step of one goroutine neither takes nor releases a    *)
(* mutex of another (Others).                                              *)
(*                                                                         *)
(* So the data of a session change by one operation at a time (Frame), and *)
(* it is enough that each leaves them well (Data): messages rise along a   *)
(* file; what callers were told is in it or was appended in vain; a last   *)
(* line without newline is no part of that; and what an operation still    *)
(* has to write is good whether it is written or given up.  From this      *)
(* follow NothingElseIsLost, VisibleInOrder and ExactWhenClean.            *)
(*                                                                         *)
(* What all this is to a caller is the refinement of SessionLog, where an  *)
(* operation is one step (StoreKeepsLog).  And no mutex stays locked       *)
(* behind an operation that returned, failed or died (Needed).             *)
(***************************************************************************)
EXTENDS SessionStore, SequenceTheorems, FiniteSetTheorems, WellFoundedInduction, TLAPS

PromotionSteps == {"first", "second", "examine", "promoteMeta", "rollback"}

\* What worker v holds, and what of its operation this depends on.
Owns(v) ==
  /\ op[v] # Idle => op[v].on \in Sessions
  /\ op[v] # Idle /\ op[v].at \in PromotionSteps =>
       op[v].todo \in Seq(Sessions) /\ op[v].todo # <<>>
  /\ At(v, "second") => held[Shard[Smaller(v)]] = v
  /\ \A s \in Using(v) : held[Shard[s]] = v

IInv ==
  /\ held \in [Shards -> Workers \cup {None}]
  /\ op = [v \in Workers |-> op[v]]
  /\ \A v \in Workers : Owns(v)

-----------------------------------------------------------------------------
\* What is left of a non-empty sequence.
LEMMA HeadAndTail ==
  ASSUME NEW q \in Seq(Sessions), q # <<>>
  PROVE  /\ Head(q) \in Sessions
         /\ Tail(q) \in Seq(Sessions)
         /\ Len(q) # 1 => Tail(q) # <<>>
<1>1. Head(q) \in Sessions /\ Tail(q) \in Seq(Sessions) /\ Len(Tail(q)) = Len(q) - 1
  BY HeadTailProperties
<1>2. Len(q) \in Nat
  BY LenProperties
<1>3. ASSUME Tail(q) = <<>> PROVE Len(q) = 1
  <2>1. Len(Tail(q)) = 0
    BY <1>3, EmptySeq
  <2>. QED  BY <2>1, <1>1, <1>2
<1>. QED  BY <1>1, <1>3

\* The other workers keep what they own when a step changes only the operation
\* of worker w, and mutexes that were free or that w held.
LEMMA Others ==
  ASSUME IInv, NEW w \in Workers,
         \A v \in Workers : v # w => op'[v] = op[v],
         \A k \in Shards : held[k] # w /\ held[k] # None => held'[k] = held[k],
         NEW v \in Workers, v # w
  PROVE  Owns(v)'
<1>. USE SessionStoreAssumption
<1>1. Owns(v) /\ op'[v] = op[v]
  BY DEF IInv
<1>2. \A s \in Sessions : held[Shard[s]] = v => held'[Shard[s]] = v
  BY DEF IInv
<1>3. op[v] # Idle /\ op[v].at \in PromotionSteps => Alias(v) \in Sessions
  BY <1>1, HeadAndTail DEF Owns, Alias
<1>4. Using(v)' = Using(v) /\ Using(v) \subseteq Sessions
  BY <1>1, <1>3 DEF Using, Alias, Owns, PromotionSteps
<1>5. At(v, "second")' => At(v, "second") /\ Smaller(v)' = Smaller(v) /\ Smaller(v) \in Sessions
  BY <1>1, <1>3 DEF At, Smaller, Alias, Owns, PromotionSteps
<1>. QED  BY <1>1, <1>2, <1>4, <1>5 DEF Owns

\* A worker that returns, giving back what it held.
LEMMA Returning ==
  ASSUME IInv, NEW w \in Workers, Return(w)
  PROVE  IInv'
<1>. USE SessionStoreAssumption
<1>1. op' = [op EXCEPT ![w] = Idle] /\ held' = Unlocked(w)
  BY DEF Return
<1>2. held' \in [Shards -> Workers \cup {None}]
  BY <1>1 DEF IInv, Unlocked
<1>3. op' = [v \in Workers |-> op'[v]]
  BY <1>1 DEF IInv
<1>4. op'[w] = Idle /\ \A v \in Workers : v # w => op'[v] = op[v]
  BY <1>1 DEF IInv
<1>5. \A k \in Shards : held[k] # w /\ held[k] # None => held'[k] = held[k]
  BY <1>1 DEF Unlocked
<1>6. ASSUME NEW v \in Workers PROVE Owns(v)'
  <2>1. CASE v = w
    BY <2>1, <1>4 DEF Owns, At, Using
  <2>2. CASE v # w
    BY <2>2, <1>4, <1>5, Others
  <2>. QED  BY <2>1, <2>2
<1>. QED  BY <1>2, <1>3, <1>6 DEF IInv

\* A worker that starts an operation on one session, with its lock.
LEMMA Starting ==
  ASSUME IInv, NEW w \in Workers, NEW s \in Sessions, NEW r,
         op[w] = Idle, Available(s), Lock(w, s),
         op' = [op EXCEPT ![w] = r],
         r # Idle, r.at \notin PromotionSteps, r.on = s
  PROVE  IInv'
<1>. USE SessionStoreAssumption
<1>1. held' \in [Shards -> Workers \cup {None}] /\ held'[Shard[s]] = w
  BY DEF IInv, Lock
<1>2. op' = [v \in Workers |-> op'[v]]
  BY DEF IInv
<1>3. op'[w] = r /\ \A v \in Workers : v # w => op'[v] = op[v]
  BY DEF IInv
<1>4. \A k \in Shards : held[k] # w /\ held[k] # None => held'[k] = held[k]
  BY DEF Lock, Available, IInv
<1>5. ASSUME NEW v \in Workers PROVE Owns(v)'
  <2>1. CASE v = w
    <3>1. Using(w)' = {s}
      BY <1>3 DEF Using, PromotionSteps
    <3>. QED  BY <2>1, <3>1, <1>1, <1>3 DEF Owns, At, PromotionSteps
  <2>2. CASE v # w
    BY <2>2, <1>3, <1>4, Others
  <2>. QED  BY <2>1, <2>2
<1>. QED  BY <1>1, <1>2, <1>5 DEF IInv

\* A worker that goes on with both locks of its promotion, or with the lock of
\* the session it works on.
LEMMA GoingOn ==
  ASSUME IInv, NEW w \in Workers, NEW r,
         op[w] # Idle, op[w].at \in {"examine", "promoteMeta"}, UNCHANGED held,
         op' = [op EXCEPT ![w] = r],
         r # Idle, r.at \in {"promoteMeta", "rollback"}, r.on = op[w].on, r.todo = op[w].todo
  PROVE  IInv'
<1>1. op' = [v \in Workers |-> op'[v]]
  BY DEF IInv
<1>2. op'[w] = r /\ \A v \in Workers : v # w => op'[v] = op[v]
  BY DEF IInv
<1>3. ASSUME NEW v \in Workers PROVE Owns(v)'
  <2>1. CASE v = w
    <3>1. Owns(w)
      BY DEF IInv
    <3>2. Using(w)' = Using(w)
      BY <1>2 DEF Using, Alias
    <3>. QED  BY <2>1, <3>1, <3>2, <1>2 DEF Owns, At, PromotionSteps
  <2>2. CASE v # w
    BY <2>2, <1>2, Others
  <2>. QED  BY <2>1, <2>2
<1>. QED  BY <1>1, <1>3 DEF IInv

-----------------------------------------------------------------------------
\* The steps of a promotion that take locks or give them back.
LEMMA PromotionLocks ==
  ASSUME IInv, NEW w \in Workers,
         \/ \E s \in Sessions : PromoteStart(w, s)
         \/ PromoteFirst(w) \/ PromoteSecond(w) \/ PromoteNothing(w)
  PROVE  IInv'
<1>. USE SessionStoreAssumption
<1>0. Owns(w)
  BY DEF IInv
<1>a. op[w] # Idle /\ op[w].at \in PromotionSteps => Alias(w) \in Sessions /\ op[w].on \in Sessions
  BY <1>0, HeadAndTail DEF Owns, Alias
<1>1. ASSUME NEW s \in Sessions, PromoteStart(w, s) PROVE IInv'
  <2>1. op' = [v \in Workers |-> op'[v]] /\ UNCHANGED held
    BY <1>1 DEF IInv, PromoteStart
  <2>2. op'[w] = [at |-> "first", on |-> s, todo |-> Aliases[s]]
        /\ \A v \in Workers : v # w => op'[v] = op[v]
    BY <1>1 DEF IInv, PromoteStart
  <2>3. Aliases[s] \in Seq(Sessions) /\ Aliases[s] # <<>>
    BY <1>1 DEF PromoteStart
  <2>4. Owns(w)'
    BY <2>2, <2>3 DEF Owns, At, Using, Idle
  <2>5. ASSUME NEW v \in Workers, v # w PROVE Owns(v)'
    BY <2>1, <2>2, <2>5, Others
  <2>. QED  BY <2>1, <2>4, <2>5 DEF IInv
<1>2. ASSUME PromoteFirst(w) PROVE IInv'
  <2>1. op[w] # Idle /\ op[w].at = "first" /\ Smaller(w) \in Sessions /\ held[Shard[Smaller(w)]] = None
    BY <1>2, <1>a DEF PromoteFirst, At, Available, Smaller, PromotionSteps
  <2>2. held' \in [Shards -> Workers \cup {None}] /\ held'[Shard[Smaller(w)]] = w
    BY <1>2, <2>1 DEF IInv, PromoteFirst, Lock
  <2>3. op' = [v \in Workers |-> op'[v]]
        /\ \A v \in Workers : v # w => op'[v] = op[v]
    BY <1>2 DEF IInv, PromoteFirst, Goto
  <2>4. PICK step \in {"examine", "second"} :
          /\ op'[w] = [at |-> step, on |-> op[w].on, todo |-> op[w].todo]
          /\ step = "examine" => Shard[op[w].on] = Shard[Alias(w)]
    BY <1>2 DEF IInv, PromoteFirst, Goto
  <2>5. Smaller(w)' = Smaller(w) /\ Alias(w)' = Alias(w) /\ op'[w].on = op[w].on
    BY <2>4 DEF Smaller, Alias
  <2>6. Owns(w)'
    <3>1. op'[w].on \in Sessions /\ op'[w].todo \in Seq(Sessions) /\ op'[w].todo # <<>>
      BY <2>1, <2>4, <1>0 DEF Owns, PromotionSteps
    <3>2. ASSUME NEW s \in Using(w)' PROVE held'[Shard[s]] = w
      <4>1. step = "examine" /\ s \in {op[w].on, Alias(w)}
        BY <3>2, <2>4, <2>5 DEF Using
      <4>. QED  BY <4>1, <2>2, <2>4 DEF Smaller
    <3>. QED  BY <3>1, <3>2, <2>2, <2>5 DEF Owns
  <2>7. \A k \in Shards : held[k] # w /\ held[k] # None => held'[k] = held[k]
    BY <1>2, <2>1 DEF PromoteFirst, Lock, IInv
  <2>8. ASSUME NEW v \in Workers, v # w PROVE Owns(v)'
    BY <2>3, <2>7, <2>8, Others
  <2>. QED  BY <2>2, <2>3, <2>6, <2>8 DEF IInv
<1>3. ASSUME PromoteSecond(w) PROVE IInv'
  <2>1. op[w] # Idle /\ op[w].at = "second" /\ {Smaller(w), Larger(w)} \subseteq Sessions
        /\ held[Shard[Larger(w)]] = None
    BY <1>3, <1>a DEF PromoteSecond, At, Available, Smaller, Larger, PromotionSteps
  <2>2. held' \in [Shards -> Workers \cup {None}] /\ held'[Shard[Larger(w)]] = w
    BY <1>3, <2>1 DEF IInv, PromoteSecond, Lock
  <2>3. held'[Shard[Smaller(w)]] = w
    BY <1>3, <2>1, <1>0 DEF IInv, PromoteSecond, Lock, Owns, At
  <2>4. op' = [v \in Workers |-> op'[v]]
        /\ \A v \in Workers : v # w => op'[v] = op[v]
    BY <1>3 DEF IInv, PromoteSecond, Goto
  <2>5. op'[w] = [at |-> "examine", on |-> op[w].on, todo |-> op[w].todo]
    BY <1>3 DEF IInv, PromoteSecond, Goto
  <2>6. Owns(w)'
    <3>1. op'[w].on \in Sessions /\ op'[w].todo \in Seq(Sessions) /\ op'[w].todo # <<>>
      BY <2>1, <2>5, <1>0 DEF Owns, PromotionSteps
    <3>2. Using(w)' = {Smaller(w), Larger(w)}
      BY <2>5 DEF Using, Smaller, Larger, Alias, Idle
    <3>3. ~At(w, "second")'
      BY <2>5 DEF At
    <3>. QED  BY <3>1, <3>2, <3>3, <2>2, <2>3 DEF Owns
  <2>7. \A k \in Shards : held[k] # w /\ held[k] # None => held'[k] = held[k]
    BY <1>3, <2>1 DEF PromoteSecond, Lock, IInv
  <2>8. ASSUME NEW v \in Workers, v # w PROVE Owns(v)'
    BY <2>4, <2>7, <2>8, Others
  <2>. QED  BY <2>2, <2>4, <2>6, <2>8 DEF IInv
<1>4. ASSUME PromoteNothing(w) PROVE IInv'
  <2>1. held' = Unlocked(w) /\ op[w] # Idle /\ op[w].at = "examine"
    BY <1>4 DEF PromoteNothing, NextAlias, At
  <2>2. held' \in [Shards -> Workers \cup {None}]
    BY <2>1 DEF IInv, Unlocked
  <2>3. op' = [v \in Workers |-> op'[v]]
        /\ \A v \in Workers : v # w => op'[v] = op[v]
    BY <1>4 DEF IInv, PromoteNothing, NextAlias
  <2>4. \/ op'[w] = Idle
        \/ /\ op'[w] = [at |-> "first", on |-> op[w].on, todo |-> Tail(op[w].todo)]
           /\ Len(op[w].todo) # 1
    BY <1>4 DEF IInv, PromoteNothing, NextAlias
  <2>5. Owns(w)'
    <3>1. CASE op'[w] = Idle
      BY <3>1 DEF Owns, At, Using
    <3>2. CASE op'[w] # Idle
      <4>1. op[w].on \in Sessions /\ op[w].todo \in Seq(Sessions) /\ op[w].todo # <<>>
        BY <2>1, <1>0 DEF Owns, PromotionSteps
      <4>2. Tail(op[w].todo) \in Seq(Sessions) /\ Tail(op[w].todo) # <<>>
        BY <3>2, <4>1, <2>4, HeadAndTail
      <4>3. /\ op'[w] # Idle /\ op'[w].at = "first" /\ op'[w].on = op[w].on
            /\ op'[w].todo = Tail(op[w].todo)
        <5>. DEFINE r == [at |-> "first", on |-> op[w].on, todo |-> Tail(op[w].todo)]
        <5>1. op'[w] = r
          BY <3>2, <2>4
        <5>2. r.at = "first" /\ r.on = op[w].on /\ r.todo = Tail(op[w].todo)
          OBVIOUS
        <5>. HIDE DEF r
        <5>. QED  BY <3>2, <5>1, <5>2
      <4>4. ~At(w, "second")' /\ Using(w)' = {}
        BY <4>3 DEF At, Using
      <4>. QED  BY <4>1, <4>2, <4>3, <4>4 DEF Owns
    <3>. QED  BY <3>1, <3>2
  <2>6. \A k \in Shards : held[k] # w /\ held[k] # None => held'[k] = held[k]
    BY <2>1 DEF Unlocked
  <2>7. ASSUME NEW v \in Workers, v # w PROVE Owns(v)'
    BY <2>3, <2>6, <2>7, Others
  <2>. QED  BY <2>2, <2>3, <2>5, <2>7 DEF IInv
<1>. QED  BY <1>1, <1>2, <1>3, <1>4

-----------------------------------------------------------------------------
\* The invariant is inductive: one step per action.
LEMMA Inductive == IInv /\ [Next]_vars => IInv'
<1>. SUFFICES ASSUME IInv, [Next]_vars PROVE IInv'
  OBVIOUS
<1>1. ASSUME NEW w \in Workers, NEW s \in Sessions,
             AddAppend(w, s) \/ SetHistory(w, s) \/ Compact(w, s)
      PROVE  IInv'
  <2>1. CASE AddAppend(w, s)
    <3>. DEFINE r == [at |-> "addMeta", on |-> s, msg |-> next]
    <3>1. op[w] = Idle /\ Available(s) /\ Lock(w, s) /\ op' = [op EXCEPT ![w] = r]
      BY <2>1 DEF AddAppend
    <3>2. r # Idle /\ r.at \notin PromotionSteps /\ r.on = s
      BY DEF Idle, PromotionSteps
    <3>. HIDE DEF r
    <3>. QED  BY <3>1, <3>2, Starting
  <2>2. CASE SetHistory(w, s)
    <3>1. PICK h : op' = [op EXCEPT ![w] = [at |-> "setRewrite", on |-> s, new |-> h]]
      BY <2>2 DEF SetHistory
    <3>. DEFINE r == [at |-> "setRewrite", on |-> s, new |-> h]
    <3>2. op[w] = Idle /\ Available(s) /\ Lock(w, s) /\ op' = [op EXCEPT ![w] = r]
      BY <2>2, <3>1 DEF SetHistory
    <3>3. r # Idle /\ r.at \notin PromotionSteps /\ r.on = s
      BY DEF Idle, PromotionSteps
    <3>. HIDE DEF r
    <3>. QED  BY <3>2, <3>3, Starting
  <2>3. CASE Compact(w, s)
    <3>. DEFINE r == [at |-> "compactRewrite", on |-> s, new |-> Visible(s)]
    <3>1. op[w] = Idle /\ Available(s) /\ Lock(w, s) /\ op' = [op EXCEPT ![w] = r]
      BY <2>3 DEF Compact
    <3>2. r # Idle /\ r.at \notin PromotionSteps /\ r.on = s
      BY DEF Idle, PromotionSteps
    <3>. HIDE DEF r
    <3>. QED  BY <3>1, <3>2, Starting
  <2>. QED  BY <1>1, <2>1, <2>2, <2>3
<1>2. ASSUME NEW w \in Workers,
             \/ AddMeta(w) \/ SetRewrite(w) \/ CompactRewrite(w) \/ PromoteRewriteFails(w)
             \/ PromoteMeta(w) \/ PromoteRollback(w) \/ SecondWriteFails(w)
      PROVE  IInv'
  <2>1. Return(w)
    BY <1>2 DEF AddMeta, SetRewrite, CompactRewrite, PromoteRewriteFails, PromoteMeta,
                PromoteRollback, SecondWriteFails
  <2>. QED  BY <2>1, Returning
<1>3. ASSUME UNCHANGED <<op, held>> PROVE IInv'
  BY <1>3 DEF IInv, Owns, At, Using, Smaller, Alias
<1>4. ASSUME NEW w \in Workers, NEW s \in Sessions,
             AddTear(w, s) \/ SetSummary(w, s) \/ TruncateHistory(w, s)
      PROVE  IInv'
  BY <1>3, <1>4 DEF AddTear, SetSummary, TruncateHistory
<1>5. ASSUME NEW w \in Workers,
             \/ \E s \in Sessions : PromoteStart(w, s)
             \/ PromoteFirst(w) \/ PromoteSecond(w) \/ PromoteNothing(w)
      PROVE  IInv'
  BY <1>5, PromotionLocks
<1>6. ASSUME NEW w \in Workers, PromoteRewrite(w) PROVE IInv'
  <2>. DEFINE r == [at |-> "promoteMeta", on |-> op[w].on, todo |-> op[w].todo,
                    old |-> file[op[w].on], oldTail |-> tail[op[w].on]]
  <2>1. op[w] # Idle /\ op[w].at = "examine" /\ UNCHANGED held /\ op' = [op EXCEPT ![w] = r]
    BY <1>6 DEF PromoteRewrite, At
  <2>2. r # Idle /\ r.at = "promoteMeta" /\ r.on = op[w].on /\ r.todo = op[w].todo
    BY DEF Idle
  <2>. HIDE DEF r
  <2>. QED  BY <2>1, <2>2, GoingOn
<1>7. ASSUME NEW w \in Workers, PromoteMetaFails(w) PROVE IInv'
  <2>. DEFINE r == [at |-> "rollback", on |-> op[w].on, todo |-> op[w].todo,
                    old |-> op[w].old, oldTail |-> op[w].oldTail]
  <2>1. op[w] # Idle /\ op[w].at = "promoteMeta" /\ UNCHANGED held /\ op' = [op EXCEPT ![w] = r]
    BY <1>7 DEF PromoteMetaFails, At
  <2>2. r # Idle /\ r.at = "rollback" /\ r.on = op[w].on /\ r.todo = op[w].todo
    BY DEF Idle
  <2>. HIDE DEF r
  <2>. QED  BY <2>1, <2>2, GoingOn
<1>8. ASSUME Crash PROVE IInv'
  BY <1>8 DEF Crash, IInv, Owns, At, Using
<1>9. CASE UNCHANGED vars
  BY <1>3, <1>9 DEF vars
<1>. QED  BY <1>1, <1>2, <1>4, <1>5, <1>6, <1>7, <1>8, <1>9 DEF Next, Operation

LEMMA Initial == Init => IInv
  BY DEF Init, IInv, Owns, At, Using

\* In every reachable state a worker holds the mutexes of the sessions it uses.
THEOREM WorkersHoldTheirLocks == Spec => []IInv
<1>. QED  BY Initial, Inductive, PTL DEF Spec

\* No two goroutines are at the files of one session: addMsg, TruncateHistory,
\* SetHistory, Compact and promoteAliasHistoryLocked exclude each other.
THEOREM StoreExcludes == Spec => []OneOperationPerSession
<1>1. IInv => OneOperationPerSession
  BY DEF IInv, Owns, OneOperationPerSession
<1>. QED  BY <1>1, WorkersHoldTheirLocks, PTL

-----------------------------------------------------------------------------
(***************************************************************************)
(* What Kept keeps.  The theorems on induction take a predicate, which the *)
(* provers cannot instantiate: here a set of numbers takes its place.      *)
(***************************************************************************)

\* A set of numbers has a least element: induction over data without a predicate.
LEMMA Least ==
  ASSUME NEW T, T \subseteq Nat, T # {} PROVE \E x \in T : \A y \in T : x <= y
<1>1. IsWellFoundedOn(OpToRel(<, Nat), Nat) BY NatLessThanWellFounded
<1>2. PICK x \in T : \A y \in T : ~(<<y, x>> \in OpToRel(<, Nat)) BY <1>1, WFMin
<1>3. \A y \in T : ~(y < x) BY <1>2 DEF OpToRel
<1> QED BY <1>3

\* g reads q as Kept does, up to its n-th element.
Reads(g, n, q, k, S) ==
  g = [i \in 0 .. n |-> IF i <= k THEN <<>>
                        ELSE IF q[i] \in S THEN Append(g[i - 1], q[i]) ELSE g[i - 1]]

\* The recursive function of Kept exists, up to every n: otherwise there is a least
\* n up to which it does not.
LEMMA Readable ==
  ASSUME NEW q, NEW k \in Nat, NEW S
  PROVE  \A n \in Nat : \E g : Reads(g, n, q, k, S)
<1> DEFINE T == {n \in Nat : ~\E g : Reads(g, n, q, k, S)}
<1> SUFFICES ASSUME T # {} PROVE FALSE OBVIOUS
<1>1. PICK n \in T : \A m \in T : n <= m
  <2>1. T \subseteq Nat OBVIOUS
  <2> HIDE DEF T
  <2> QED BY <2>1, Least
<1>2. n # 0
  <2> DEFINE g == [i \in 0 .. 0 |-> <<>>]
  <2>1. Reads(g, 0, q, k, S) BY DEF Reads
  <2> QED BY <2>1
<1>3. n - 1 \in Nat /\ n - 1 \notin T BY <1>1, <1>2
<1>4. PICK g : Reads(g, n - 1, q, k, S) BY <1>3
<1> DEFINE h == [i \in 0 .. n |-> IF i < n THEN g[i] ELSE IF i <= k THEN <<>>
                        ELSE IF q[i] \in S THEN Append(g[i - 1], q[i]) ELSE g[i - 1]]
<1>5. Reads(h, n, q, k, S)
  <2>1. n \in Nat OBVIOUS
  <2>2. \A i \in 0 .. n - 1 : h[i] = g[i] /\ i \in 0 .. n BY <2>1
  <2>3. \A i \in 0 .. n : h[i] = IF i <= k THEN <<>>
                        ELSE IF q[i] \in S THEN Append(h[i - 1], q[i]) ELSE h[i - 1]
    <3> SUFFICES ASSUME NEW i \in 0 .. n
                 PROVE  h[i] = IF i <= k THEN <<>>
                        ELSE IF q[i] \in S THEN Append(h[i - 1], q[i]) ELSE h[i - 1]
      OBVIOUS
    <3>1. i > 0 => i - 1 \in 0 .. n - 1 /\ h[i - 1] = g[i - 1] BY <2>1, <2>2
    <3>2. i <= k \/ i > 0 OBVIOUS
    <3>3. CASE i = n BY <3>1, <3>2, <3>3
    <3>4. CASE i < n
      <4>1. h[i] = g[i] BY <3>4
      <4>2. i \in 0 .. n - 1 BY <2>1, <3>4
      <4>3. g[i] = IF i <= k THEN <<>>
                   ELSE IF q[i] \in S THEN Append(g[i - 1], q[i]) ELSE g[i - 1]
        BY <1>4, <4>2 DEF Reads
      <4> QED BY <3>1, <3>2, <4>1, <4>3
    <3> QED BY <2>1, <3>3, <3>4
  <2>4. h = [i \in 0 .. n |-> h[i]] OBVIOUS
  <2> HIDE DEF h
  <2> QED BY <2>3, <2>4 DEF Reads
<1> HIDE DEF h
<1> QED BY <1>5

\* Kept is that function's value at the end of q.
LEMMA KeptReads ==
  ASSUME NEW q, Len(q) \in Nat, NEW k \in Nat, NEW S
  PROVE  \E g : Reads(g, Len(q), q, k, S) /\ Kept(q, k, S) = g[Len(q)]
<1> DEFINE g == CHOOSE g : Reads(g, Len(q), q, k, S)
<1>1. Reads(g, Len(q), q, k, S) BY Readable
<1>2. Kept(q, k, S) = g[Len(q)] BY DEF Kept, Reads
<1> QED BY <1>1, <1>2

\* Induction over 0 .. n, with a set in the place of a predicate.
LEMMA Upward ==
  ASSUME NEW T, NEW n \in Nat, 0 \in T, \A i \in 0 .. n - 1 : i \in T => i + 1 \in T
  PROVE  \A i \in 0 .. n : i \in T
<1> DEFINE U == {i \in 0 .. n : i \notin T}
<1> SUFFICES ASSUME U # {} PROVE FALSE OBVIOUS
<1>1. PICK i \in U : \A j \in U : i <= j
  <2>1. U \subseteq Nat OBVIOUS
  <2> HIDE DEF U
  <2> QED BY <2>1, Least
<1>2. i # 0 /\ i \in 0 .. n BY <1>1
<1>3. i - 1 \in 0 .. n - 1 /\ i - 1 \in 0 .. n /\ (i - 1) + 1 = i BY <1>2
<1>4. i - 1 \in T BY <1>1, <1>3
<1> QED BY <1>1, <1>3, <1>4

\* The positions up to n of what Kept keeps, and their number.
Chosen(q, k, S, n) == {b \in 1 .. n : b > k /\ q[b] \in S}
Rank(q, k, S, n) == Cardinality(Chosen(q, k, S, n))

\* The rank of a position is the number of positions kept up to it.
LEMMA RankOfNext ==
  ASSUME NEW q, NEW k \in Nat, NEW S, NEW n \in Nat
  PROVE  /\ IsFiniteSet(Chosen(q, k, S, n)) /\ Rank(q, k, S, n) \in Nat
         /\ Rank(q, k, S, 0) = 0
         /\ n + 1 > k /\ q[n + 1] \in S =>
              /\ Chosen(q, k, S, n + 1) = Chosen(q, k, S, n) \cup {n + 1}
              /\ Rank(q, k, S, n + 1) = Rank(q, k, S, n) + 1
         /\ ~(n + 1 > k /\ q[n + 1] \in S) => Chosen(q, k, S, n + 1) = Chosen(q, k, S, n)
<1>1. IsFiniteSet(Chosen(q, k, S, n))
  <2>1. IsFiniteSet(1 .. n) BY FS_Interval
  <2> QED BY <2>1, FS_Subset DEF Chosen
<1>2. Chosen(q, k, S, 0) = {} BY DEF Chosen
<1>3. n + 1 > k /\ q[n + 1] \in S => Chosen(q, k, S, n + 1) = Chosen(q, k, S, n) \cup {n + 1}
  BY DEF Chosen
<1>4. ~(n + 1 > k /\ q[n + 1] \in S) => Chosen(q, k, S, n + 1) = Chosen(q, k, S, n)
  BY DEF Chosen
<1>5. n + 1 \notin Chosen(q, k, S, n) BY DEF Chosen
<1>6. Rank(q, k, S, n) \in Nat BY <1>1, FS_CardinalityType DEF Rank
<1>7. Rank(q, k, S, 0) = 0 BY <1>2, FS_EmptySet DEF Rank
<1>8. Chosen(q, k, S, n + 1) = Chosen(q, k, S, n) \cup {n + 1} => Rank(q, k, S, n + 1) = Rank(q, k, S, n) + 1
  BY <1>1, <1>5, FS_AddElement DEF Rank
<1> QED BY <1>1, <1>3, <1>4, <1>6, <1>7, <1>8

\* Position a has rank r: the r-th element kept is the one at a.
LEMMA KeptRanks ==
  ASSUME NEW q, Len(q) \in Nat, NEW k \in Nat, NEW S
  PROVE  LET kept == Kept(q, k, S)
             rank(a) == Rank(q, k, S, a)
         IN /\ kept \in Seq(S) /\ Len(kept) = rank(Len(q))
            /\ \A a \in Chosen(q, k, S, Len(q)) :
                 rank(a) \in 1 .. Len(kept) /\ kept[rank(a)] = q[a]
            /\ \A r \in 1 .. Len(kept) : \E a \in Chosen(q, k, S, Len(q)) : rank(a) = r
<1> DEFINE rank(a) == Rank(q, k, S, a)
           chosen(n) == Chosen(q, k, S, n)
<1>1. PICK g : Reads(g, Len(q), q, k, S) /\ Kept(q, k, S) = g[Len(q)] BY KeptReads
<1> DEFINE T == {n \in 0 .. Len(q) :
                   /\ g[n] \in Seq(S) /\ Len(g[n]) = rank(n)
                   /\ \A a \in chosen(n) : rank(a) \in 1 .. Len(g[n]) /\ g[n][rank(a)] = q[a]
                   /\ \A r \in 1 .. Len(g[n]) : \E a \in chosen(n) : rank(a) = r}
<1>2. \A i \in 0 .. Len(q) : g[i] = IF i <= k THEN <<>>
                        ELSE IF q[i] \in S THEN Append(g[i - 1], q[i]) ELSE g[i - 1]
  BY <1>1 DEF Reads
<1>3. 0 \in T
  <2>1. g[0] = <<>> /\ chosen(0) = {} BY <1>2 DEF Chosen
  <2>2. rank(0) = 0 BY RankOfNext
  <2>3. <<>> \in Seq(S) /\ Len(<<>>) = 0 BY EmptySeq
  <2>4. /\ g[0] \in Seq(S) /\ Len(g[0]) = rank(0) /\ chosen(0) = {} /\ 1 .. Len(g[0]) = {}
        /\ 0 \in 0 .. Len(q)
    BY <2>1, <2>2, <2>3
  <2> HIDE DEF rank, chosen
  <2> QED BY <2>4
<1>4. ASSUME NEW n \in 0 .. Len(q) - 1, n \in T PROVE n + 1 \in T
  <2>0. n \in Nat /\ n + 1 \in 0 .. Len(q) /\ (n + 1) - 1 = n OBVIOUS
  <2>1. /\ g[n] \in Seq(S) /\ Len(g[n]) = rank(n)
        /\ \A a \in chosen(n) : rank(a) \in 1 .. Len(g[n]) /\ g[n][rank(a)] = q[a]
        /\ \A r \in 1 .. Len(g[n]) : \E a \in chosen(n) : rank(a) = r
    BY <1>4
  <2> HIDE DEF T
  <2>2. CASE n + 1 > k /\ q[n + 1] \in S
    <3>1. g[n + 1] = Append(g[n], q[n + 1])
      <4>1. ~(n + 1 <= k) BY <2>0, <2>2
      <4> QED BY <1>2, <2>0, <2>2, <4>1
    <3>2. chosen(n + 1) = chosen(n) \cup {n + 1} /\ rank(n + 1) = rank(n) + 1 /\ rank(n) \in Nat
      <4>1. n \in Nat BY <2>0
      <4>2. /\ Rank(q, k, S, n) \in Nat
            /\ n + 1 > k /\ q[n + 1] \in S =>
                 /\ Chosen(q, k, S, n + 1) = Chosen(q, k, S, n) \cup {n + 1}
                 /\ Rank(q, k, S, n + 1) = Rank(q, k, S, n) + 1
        BY <4>1, RankOfNext
      <4> QED BY <2>2, <4>2
    <3> DEFINE old == g[n]
               new == g[n + 1]
    <3>3. /\ new \in Seq(S) /\ Len(new) = Len(old) + 1 /\ new[Len(old) + 1] = q[n + 1]
          /\ \A i \in 1 .. Len(old) : new[i] = old[i]
      BY <2>1, <2>2, <3>1, AppendProperties
    <3> HIDE DEF old, new, rank, chosen
    <3>4. Len(new) = rank(n + 1) /\ Len(old) = rank(n) BY <2>1, <3>2, <3>3 DEF old
    <3>5. ASSUME NEW a \in chosen(n + 1)
          PROVE  rank(a) \in 1 .. Len(new) /\ new[rank(a)] = q[a]
      <4>1. CASE a \in chosen(n)
        <5>1. rank(a) \in 1 .. Len(old) /\ old[rank(a)] = q[a] BY <2>1, <4>1 DEF old
        <5> QED BY <3>2, <3>3, <3>4, <5>1
      <4>2. CASE a = n + 1 BY <3>2, <3>3, <3>4, <4>2
      <4> QED BY <3>2, <4>1, <4>2
    <3>6. ASSUME NEW r \in 1 .. Len(new) PROVE \E a \in chosen(n + 1) : rank(a) = r
      <4>1. CASE r \in 1 .. Len(old)
        <5>1. PICK a \in chosen(n) : rank(a) = r BY <2>1, <4>1 DEF old
        <5> QED BY <3>2, <5>1
      <4>2. CASE r = rank(n + 1) BY <3>2, <4>2
      <4> QED BY <3>2, <3>3, <3>4, <4>1, <4>2
    <3> QED BY <2>0, <3>3, <3>4, <3>5, <3>6 DEF T, new
  <2>3. CASE ~(n + 1 > k /\ q[n + 1] \in S)
    <3>1. g[n + 1] = g[n]
      <4>1. CASE n + 1 <= k
        <5>1. n <= k /\ n \in 0 .. Len(q) BY <2>0, <4>1
        <5> QED BY <1>2, <2>0, <4>1, <5>1
      <4>2. CASE ~(n + 1 <= k)
        <5>1. q[n + 1] \notin S BY <2>0, <2>3, <4>2
        <5> QED BY <1>2, <2>0, <4>2, <5>1
      <4> QED BY <4>1, <4>2
    <3>2. chosen(n + 1) = chosen(n) BY <2>0, <2>3, RankOfNext
    <3>3. rank(n + 1) = rank(n) BY <3>2 DEF Rank
    <3> QED BY <2>0, <2>1, <3>1, <3>2, <3>3 DEF T
  <2> QED BY <2>2, <2>3
<1> HIDE DEF T
<1>5. \A i \in 0 .. Len(q) : i \in T BY <1>3, <1>4, Upward
<1>6. Len(q) \in T BY <1>5
<1> QED BY <1>1, <1>6 DEF T

-----------------------------------------------------------------------------
\* The elements of Kept, without ranks; in order they stay.
Rises(q) == \A i, j \in 1 .. Len(q) : i < j /\ q[i] # Junk /\ q[j] # Junk => q[i] < q[j]

\* Ranks are in the order of the positions.
LEMMA RankRises ==
  ASSUME NEW q, NEW k \in Nat, NEW S, NEW a \in Nat, NEW b \in Nat
  PROVE  /\ a <= b => Rank(q, k, S, a) <= Rank(q, k, S, b)
         /\ a < b /\ b > k /\ q[b] \in S => Rank(q, k, S, a) < Rank(q, k, S, b)
<1>1. ASSUME NEW c \in Nat, a <= c PROVE Rank(q, k, S, a) <= Rank(q, k, S, c)
  <2>1. Chosen(q, k, S, a) \subseteq Chosen(q, k, S, c) BY <1>1 DEF Chosen
  <2> QED BY <2>1, RankOfNext, FS_Subset DEF Rank
<1>2. ASSUME a < b, b > k, q[b] \in S PROVE Rank(q, k, S, a) < Rank(q, k, S, b)
  <2>1. b - 1 \in Nat /\ a <= b - 1 /\ (b - 1) + 1 = b BY <1>2
  <2>2. Rank(q, k, S, a) <= Rank(q, k, S, b - 1) BY <1>1, <2>1
  <2>3. Rank(q, k, S, b) = Rank(q, k, S, b - 1) + 1 BY <1>2, <2>1, RankOfNext
  <2>4. Rank(q, k, S, a) \in Nat /\ Rank(q, k, S, b - 1) \in Nat BY <2>1, RankOfNext
  <2> QED BY <2>2, <2>3, <2>4
<1> QED BY <1>1, <1>2

\* What is kept of q: its elements after the first k that are in S ...
LEMMA KeptElements ==
  ASSUME NEW q, Len(q) \in Nat, NEW k \in Nat, NEW S
  PROVE  /\ Kept(q, k, S) \in Seq(S)
         /\ Elements(Kept(q, k, S)) = {q[a] : a \in Chosen(q, k, S, Len(q))}
<1> DEFINE kept == Kept(q, k, S)
           rank(a) == Rank(q, k, S, a)
           chosen == Chosen(q, k, S, Len(q))
<1>1. /\ kept \in Seq(S)
      /\ \A a \in chosen : rank(a) \in 1 .. Len(kept) /\ kept[rank(a)] = q[a]
      /\ \A r \in 1 .. Len(kept) : \E a \in chosen : rank(a) = r
  BY KeptRanks
<1>2. DOMAIN kept = 1 .. Len(kept) BY <1>1, LenProperties
<1> HIDE DEF kept, rank, chosen
<1>3. Elements(kept) = {q[a] : a \in chosen}
  <2>1. ASSUME NEW r \in 1 .. Len(kept) PROVE kept[r] \in {q[a] : a \in chosen}
    <3>1. PICK a \in chosen : rank(a) = r BY <1>1
    <3> QED BY <1>1, <3>1
  <2>2. ASSUME NEW a \in chosen PROVE \E r \in 1 .. Len(kept) : kept[r] = q[a] BY <1>1
  <2> QED BY <1>2, <2>1, <2>2 DEF Elements
<1> QED BY <1>1, <1>3 DEF kept, chosen

\* ... in the order in which they are in q.
LEMMA KeptRises ==
  ASSUME NEW q, Len(q) \in Nat, NEW k \in Nat, NEW S, Junk \notin S, Rises(q)
  PROVE  Rises(Kept(q, k, S))
<1> DEFINE kept == Kept(q, k, S)
           rank(a) == Rank(q, k, S, a)
           chosen == Chosen(q, k, S, Len(q))
<1>1. /\ kept \in Seq(S)
      /\ \A a \in chosen : rank(a) \in 1 .. Len(kept) /\ kept[rank(a)] = q[a]
      /\ \A r \in 1 .. Len(kept) : \E a \in chosen : rank(a) = r
  BY KeptRanks
<1>2. \A a \in chosen : a \in 1 .. Len(q) /\ a \in Nat /\ q[a] # Junk BY DEF Chosen
<1>3. \A a, b \in Nat : a <= b => rank(a) <= rank(b) BY RankRises
<1> HIDE DEF kept, rank, chosen
<1>4. ASSUME NEW i \in 1 .. Len(kept), NEW j \in 1 .. Len(kept), i < j
      PROVE  kept[i] < kept[j]
  <2>0. Len(kept) \in Nat BY <1>1, LenProperties
  <2>1. PICK a \in chosen : rank(a) = i BY <1>1
  <2>2. PICK b \in chosen : rank(b) = j BY <1>1
  <2>3. ~(b <= a)
    <3>1. b <= a => rank(b) <= rank(a) BY <1>2, <1>3
    <3> QED BY <1>4, <2>0, <2>1, <2>2, <3>1
  <2>4. a < b BY <1>2, <2>3
  <2>5. q[a] < q[b] BY <1>2, <2>4 DEF Rises
  <2> QED BY <1>1, <2>1, <2>2, <2>5
<1> QED BY <1>4 DEF Rises, kept

\* Messages in order are told apart by which they are.
LEMMA SameMessages ==
  ASSUME NEW p \in Seq(Messages), NEW q \in Seq(Messages), Rises(p), Rises(q),
         Elements(p) = Elements(q)
  PROVE  p = q
<1>0. /\ Len(p) \in Nat /\ DOMAIN p = 1 .. Len(p)
      /\ Len(q) \in Nat /\ DOMAIN q = 1 .. Len(q)
  BY LenProperties
<1>1. \A i \in 1 .. Len(p) : p[i] \in Nat /\ p[i] # Junk /\ \E j \in 1 .. Len(q) : q[j] = p[i]
  <2> SUFFICES ASSUME NEW i \in 1 .. Len(p)
               PROVE  p[i] \in Nat /\ p[i] # Junk /\ \E j \in 1 .. Len(q) : q[j] = p[i]
    OBVIOUS
  <2>1. p[i] \in Messages BY ElementOfSeq
  <2>2. p[i] \in Elements(q) BY <1>0 DEF Elements
  <2> QED BY <1>0, <2>1, <2>2, SessionStoreAssumption DEF Elements, Messages, Junk
<1>2. \A i \in 1 .. Len(q) : q[i] \in Nat /\ q[i] # Junk /\ \E j \in 1 .. Len(p) : p[j] = q[i]
  <2> SUFFICES ASSUME NEW i \in 1 .. Len(q)
               PROVE  q[i] \in Nat /\ q[i] # Junk /\ \E j \in 1 .. Len(p) : p[j] = q[i]
    OBVIOUS
  <2>1. q[i] \in Messages BY ElementOfSeq
  <2>2. q[i] \in Elements(p) BY <1>0 DEF Elements
  <2> QED BY <1>0, <2>1, <2>2, SessionStoreAssumption DEF Elements, Messages, Junk
<1>3. \A i, j \in 1 .. Len(p) : i < j => p[i] < p[j] BY <1>1 DEF Rises
<1>4. \A i, j \in 1 .. Len(q) : i < j => q[i] < q[j] BY <1>2 DEF Rises
\* The first place where they differ, if there is one.
<1> DEFINE D == {i \in Nat : i \in 1 .. Len(p) /\ i \in 1 .. Len(q) /\ p[i] # q[i]}
<1>5. D = {}
  <2> SUFFICES ASSUME D # {} PROVE FALSE OBVIOUS
  <2>1. PICK i \in D : \A j \in D : i <= j
    <3>1. D \subseteq Nat OBVIOUS
    <3> HIDE DEF D
    <3> QED BY <3>1, Least
  <2>2. i \in 1 .. Len(p) /\ i \in 1 .. Len(q) /\ p[i] # q[i] OBVIOUS
  <2>6. p[i] \in Nat /\ q[i] \in Nat BY <1>1, <1>2, <2>2
  <2>3. \A j \in 1 .. i - 1 : p[j] = q[j]
    <3> SUFFICES ASSUME NEW j \in 1 .. i - 1, p[j] # q[j] PROVE FALSE OBVIOUS
    <3>1. j \in Nat /\ j \in 1 .. Len(p) /\ j \in 1 .. Len(q) /\ ~(i <= j) BY <1>0, <2>2
    <3> QED BY <2>1, <3>1
  <2> HIDE DEF D
  <2>4. CASE p[i] < q[i]
    <3>1. PICK j \in 1 .. Len(q) : q[j] = p[i] BY <1>1, <2>2
    <3>2. CASE j < i
      <4>1. p[j] = q[j] /\ j \in 1 .. Len(p) BY <1>0, <2>2, <2>3, <3>2
      <4>2. p[j] < p[i] BY <1>3, <2>2, <3>2, <4>1
      <4> QED BY <1>1, <2>2, <3>1, <4>1, <4>2
    <3>3. CASE j >= i
      <4>1. q[j] >= q[i] BY <1>2, <1>4, <2>2, <3>3
      <4>2. q[j] \in Nat BY <1>2
      <4> QED BY <2>4, <2>6, <3>1, <4>1, <4>2
    <3> QED BY <2>2, <3>2, <3>3
  <2>5. CASE q[i] < p[i]
    <3>1. PICK j \in 1 .. Len(p) : p[j] = q[i] BY <1>2, <2>2
    <3>2. CASE j < i
      <4>1. p[j] = q[j] /\ j \in 1 .. Len(q) BY <1>0, <2>2, <2>3, <3>2
      <4>2. q[j] < q[i] BY <1>4, <2>2, <3>2, <4>1
      <4> QED BY <1>2, <2>2, <3>1, <4>1, <4>2
    <3>3. CASE j >= i
      <4>1. p[j] >= p[i] BY <1>1, <1>3, <2>2, <3>3
      <4>2. p[j] \in Nat BY <1>1
      <4> QED BY <2>5, <2>6, <3>1, <4>1, <4>2
    <3> QED BY <2>2, <3>2, <3>3
  <2>7. p[i] < q[i] \/ q[i] < p[i] BY <2>2, <2>6
  <2> QED BY <2>4, <2>5, <2>7
<1>6. \A i \in 1 .. Len(p) : i \in 1 .. Len(q) => p[i] = q[i] BY <1>5
<1> HIDE DEF D
<1>7. ~(Len(p) < Len(q))
  <2> SUFFICES ASSUME Len(p) < Len(q) PROVE FALSE OBVIOUS
  <2>1. Len(p) + 1 \in 1 .. Len(q) BY <1>0
  <2>2. PICK j \in 1 .. Len(p) : p[j] = q[Len(p) + 1] BY <1>2, <2>1
  <2>3. j \in 1 .. Len(q) /\ j < Len(p) + 1 BY <1>0
  <2>4. q[j] = q[Len(p) + 1] BY <1>6, <2>2, <2>3
  <2>5. q[j] < q[Len(p) + 1] BY <1>4, <2>1, <2>3
  <2> QED BY <1>2, <2>3, <2>4, <2>5
<1>8. ~(Len(q) < Len(p))
  <2> SUFFICES ASSUME Len(q) < Len(p) PROVE FALSE OBVIOUS
  <2>1. Len(q) + 1 \in 1 .. Len(p) BY <1>0
  <2>2. PICK j \in 1 .. Len(q) : q[j] = p[Len(q) + 1] BY <1>1, <2>1
  <2>3. j \in 1 .. Len(p) /\ j < Len(q) + 1 BY <1>0
  <2>4. p[j] = p[Len(q) + 1] BY <1>6, <2>2, <2>3
  <2>5. p[j] < p[Len(q) + 1] BY <1>3, <2>1, <2>3
  <2> QED BY <1>1, <2>3, <2>4, <2>5
<1>9. Len(p) = Len(q)
  <2>1. \A m, n \in Nat : ~(m < n) /\ ~(n < m) => m = n OBVIOUS
  <2>2. Len(p) \in Nat /\ Len(q) \in Nat BY <1>0
  <2> QED BY <1>7, <1>8, <2>1, <2>2
<1> QED BY <1>0, <1>6, <1>9, SeqEqual

-----------------------------------------------------------------------------
(***************************************************************************)
(* What a reader finds in a file, and what the writes make of it.           *)
(***************************************************************************)

\* Messages are numbers, and lines are messages or junk.
LEMMA LineFacts ==
  /\ Messages \subseteq Nat /\ Junk \notin Messages /\ Messages \subseteq Line /\ Junk \in Line
  /\ \A x \in Line : x # Junk => x \in Messages
  /\ \A x \in Line : x \in Nat
  /\ Seq(Messages) \subseteq Seq(Line)
<1>1. Messages \subseteq Nat /\ Junk \notin Messages BY SessionStoreAssumption DEF Messages, Junk
<1>2. Seq(Messages) \subseteq Seq(Line)
  <2>1. Messages \subseteq Line BY DEF Line
  <2> QED BY <2>1, SeqMonotonic
<1> QED BY <1>1, <1>2 DEF Line, Junk

\* The elements of a sequence.
LEMMA ElementOf ==
  ASSUME NEW S, NEW q \in Seq(S)
  PROVE  /\ Elements(q) \subseteq S /\ Len(q) \in Nat
         /\ \A m : m \in Elements(q) <=> \E i \in 1 .. Len(q) : q[i] = m
<1>1. DOMAIN q = 1 .. Len(q) /\ Len(q) \in Nat BY LenProperties
<1> QED BY <1>1, ElementOfSeq DEF Elements

\* readMessages returns the messages after the first k lines, in their order.
LEMMA Reading ==
  ASSUME NEW q \in Seq(Line), NEW k \in Nat
  PROVE  /\ ReadMessages(q, k) \in Seq(Messages)
         /\ \A m : m \in Elements(ReadMessages(q, k)) <=>
              \E b \in 1 .. Len(q) : b > k /\ q[b] \in Messages /\ q[b] = m
         /\ Rises(q) => Rises(ReadMessages(q, k))
<1>1. Len(q) \in Nat BY LenProperties
<1>2. /\ ReadMessages(q, k) \in Seq(Messages)
      /\ Elements(ReadMessages(q, k)) = {q[a] : a \in Chosen(q, k, Messages, Len(q))}
  BY <1>1, KeptElements DEF ReadMessages
<1>3. Rises(q) => Rises(ReadMessages(q, k)) BY <1>1, LineFacts, KeptRises DEF ReadMessages
<1> QED BY <1>2, <1>3 DEF Chosen

\* A line more is a message more, for a reader who does not skip it.
LEMMA ReadAppend ==
  ASSUME NEW q \in Seq(Line), NEW k \in Nat, NEW x \in Line
  PROVE  /\ Append(q, x) \in Seq(Line) /\ Len(Append(q, x)) = Len(q) + 1
         /\ Append(q, x)[Len(q) + 1] = x
         /\ Elements(ReadMessages(q, k)) \subseteq Elements(ReadMessages(Append(q, x), k))
         /\ \A m \in Elements(ReadMessages(Append(q, x), k)) :
              m \in Elements(ReadMessages(q, k)) \/ m = x
         /\ x \in Messages /\ k <= Len(q) => x \in Elements(ReadMessages(Append(q, x), k))
         /\ Rises(q) /\ (\A i \in 1 .. Len(q) : q[i] < x) => Rises(Append(q, x))
         /\ Rises(q) /\ x = Junk => Rises(Append(q, x))
<1> DEFINE p == Append(q, x)
<1>1. /\ p \in Seq(Line) /\ Len(p) = Len(q) + 1 /\ Len(q) \in Nat /\ p[Len(q) + 1] = x
      /\ \A i \in 1 .. Len(q) : p[i] = q[i]
  BY AppendProperties, LenProperties
<1> HIDE DEF p
<1>2. \A i \in 1 .. Len(p) : i \in 1 .. Len(q) \/ i = Len(q) + 1 BY <1>1
<1>3. Elements(ReadMessages(q, k)) \subseteq Elements(ReadMessages(p, k))
  <2> SUFFICES ASSUME NEW m \in Elements(ReadMessages(q, k)) PROVE m \in Elements(ReadMessages(p, k))
    OBVIOUS
  <2>1. PICK b \in 1 .. Len(q) : b > k /\ q[b] \in Messages /\ q[b] = m BY Reading
  <2>2. b \in 1 .. Len(p) /\ p[b] = m BY <1>1, <2>1
  <2> QED BY <1>1, <2>1, <2>2, Reading
<1>4. ASSUME NEW m \in Elements(ReadMessages(p, k)) PROVE m \in Elements(ReadMessages(q, k)) \/ m = x
  <2>1. PICK b \in 1 .. Len(p) : b > k /\ p[b] \in Messages /\ p[b] = m BY <1>1, Reading
  <2>2. CASE b \in 1 .. Len(q)
    <3>1. q[b] = m BY <1>1, <2>1, <2>2
    <3> QED BY <2>1, <2>2, <3>1, Reading
  <2>3. CASE b = Len(q) + 1 BY <1>1, <2>1, <2>3
  <2> QED BY <1>2, <2>2, <2>3
<1>5. ASSUME x \in Messages, k <= Len(q) PROVE x \in Elements(ReadMessages(p, k))
  <2>1. Len(q) + 1 \in 1 .. Len(p) /\ Len(q) + 1 > k BY <1>1, <1>5
  <2> QED BY <1>1, <1>5, <2>1, Reading
<1>6. ASSUME Rises(q), \A i \in 1 .. Len(q) : q[i] < x PROVE Rises(p)
  <2> SUFFICES ASSUME NEW i \in 1 .. Len(p), NEW j \in 1 .. Len(p), i < j, p[i] # Junk, p[j] # Junk
               PROVE  p[i] < p[j]
    BY DEF Rises
  <2>1. i \in 1 .. Len(q) /\ p[i] = q[i] BY <1>1
  <2>2. CASE j \in 1 .. Len(q) BY <1>1, <1>6, <2>1, <2>2 DEF Rises
  <2>3. CASE j = Len(q) + 1 BY <1>1, <1>6, <2>1, <2>3
  <2> QED BY <1>2, <2>2, <2>3
<1>7. ASSUME Rises(q), x = Junk PROVE Rises(p)
  <2> SUFFICES ASSUME NEW i \in 1 .. Len(p), NEW j \in 1 .. Len(p), i < j, p[i] # Junk, p[j] # Junk
               PROVE  p[i] < p[j]
    BY DEF Rises
  <2>1. i \in 1 .. Len(q) /\ p[i] = q[i] BY <1>1
  <2>2. j # Len(q) + 1 BY <1>1, <1>7
  <2>3. j \in 1 .. Len(q) /\ p[j] = q[j] BY <1>1, <1>2, <2>2
  <2> QED BY <1>7, <2>1, <2>3 DEF Rises
<1> QED BY <1>1, <1>3, <1>4, <1>5, <1>6, <1>7 DEF p

\* The last line is spoilt by what is written behind it.
LEMMA Spoilt ==
  ASSUME NEW q \in Seq(Line), Len(q) > 0
  PROVE  LET p == [q EXCEPT ![Len(q)] = Junk]
         IN  /\ p \in Seq(Line) /\ Len(p) = Len(q)
             /\ \A i \in 1 .. Len(q) : p[i] = IF i = Len(q) THEN Junk ELSE q[i]
<1>1. Len(q) \in 1 .. Len(q) /\ Junk \in Line BY LineFacts, LenProperties
<1> QED BY <1>1, ExceptSeq

\* A reader of a file whose last line is spoilt loses that line only.
LEMMA ReadSpoilt ==
  ASSUME NEW q \in Seq(Line), Len(q) > 0, NEW k \in Nat, NEW p \in Seq(Line), Len(p) = Len(q),
         \A i \in 1 .. Len(q) : p[i] = IF i = Len(q) THEN Junk ELSE q[i]
  PROVE  /\ p[Len(p)] = Junk
         /\ Elements(ReadMessages(p, k)) \subseteq Elements(ReadMessages(q, k))
         /\ \A m \in Elements(ReadMessages(q, k)) :
              m \in Elements(ReadMessages(p, k)) \/ m = q[Len(q)]
         /\ Rises(q) => Rises(p)
         /\ \A i \in 1 .. Len(q) : p[i] = q[i] \/ p[i] = Junk
<1>0. Len(q) \in Nat /\ DOMAIN q = 1 .. Len(q) BY LenProperties
<1>1. \A i \in 1 .. Len(q) : p[i] = IF i = Len(q) THEN Junk ELSE q[i] OBVIOUS
<1>2. p[Len(p)] = Junk BY <1>0, <1>1
<1>3. Elements(ReadMessages(p, k)) \subseteq Elements(ReadMessages(q, k))
  <2> SUFFICES ASSUME NEW m \in Elements(ReadMessages(p, k)) PROVE m \in Elements(ReadMessages(q, k))
    OBVIOUS
  <2>1. PICK b \in 1 .. Len(p) : b > k /\ p[b] \in Messages /\ p[b] = m BY Reading
  <2>2. b \in 1 .. Len(q) /\ q[b] = m BY <1>1, <2>1, LineFacts
  <2> QED BY <2>1, <2>2, Reading
<1>4. ASSUME NEW m \in Elements(ReadMessages(q, k))
      PROVE  m \in Elements(ReadMessages(p, k)) \/ m = q[Len(q)]
  <2>1. PICK b \in 1 .. Len(q) : b > k /\ q[b] \in Messages /\ q[b] = m BY Reading
  <2>2. CASE b # Len(q)
    <3>1. b \in 1 .. Len(p) /\ p[b] = m BY <1>1, <2>1, <2>2
    <3> QED BY <1>1, <2>1, <3>1, Reading
  <2> QED BY <2>1, <2>2
<1>5. ASSUME Rises(q) PROVE Rises(p) BY <1>1, <1>5 DEF Rises
<1> QED BY <1>1, <1>2, <1>3, <1>4, <1>5

\* A file of nothing but messages is read as it is.
LEMMA ReadAll ==
  ASSUME NEW q \in Seq(Messages), Rises(q) PROVE ReadMessages(q, 0) = q
<1>1. q \in Seq(Line) BY LineFacts
<1>2. ReadMessages(q, 0) \in Seq(Messages) /\ Rises(ReadMessages(q, 0)) BY <1>1, Reading
<1>3. Elements(ReadMessages(q, 0)) = Elements(q)
  <2>1. ASSUME NEW m \in Elements(q) PROVE m \in Elements(ReadMessages(q, 0))
    <3>1. PICK b \in 1 .. Len(q) : q[b] = m BY ElementOf
    <3>2. b > 0 /\ q[b] \in Messages BY ElementOfSeq
    <3> QED BY <1>1, <3>1, <3>2, Reading
  <2>2. ASSUME NEW m \in Elements(ReadMessages(q, 0)) PROVE m \in Elements(q)
    <3>1. PICK b \in 1 .. Len(q) : q[b] = m BY <1>1, <2>2, Reading
    <3> QED BY <3>1, ElementOf
  <2> QED BY <2>1, <2>2
<1> QED BY <1>2, <1>3, SameMessages

\* Skipping less shows more.
LEMMA ReadMore ==
  ASSUME NEW q \in Seq(Line), NEW k \in Nat, NEW j \in Nat, j <= k
  PROVE  Elements(ReadMessages(q, k)) \subseteq Elements(ReadMessages(q, j))
<1> SUFFICES ASSUME NEW m \in Elements(ReadMessages(q, k)) PROVE m \in Elements(ReadMessages(q, j))
  OBVIOUS
<1>1. PICK b \in 1 .. Len(q) : b > k /\ q[b] \in Messages /\ q[b] = m BY Reading
<1>2. b > j BY <1>1
<1> QED BY <1>1, <1>2, Reading

\* What is left of a conversation.
LEMMA KeptOf ==
  ASSUME NEW q \in Seq(Messages), Rises(q), NEW h \in Seq(Messages)
  PROVE  LET kept == Kept(q, 0, Elements(h))
         IN  /\ kept \in Seq(Messages) /\ Rises(kept)
             /\ Elements(kept) = Elements(q) \cap Elements(h)
<1> DEFINE S == Elements(h)
           kept == Kept(q, 0, S)
<1>1. S \subseteq Messages BY ElementOf
<1>2. Len(q) \in Nat /\ Junk \notin S BY <1>1, LenProperties, LineFacts
<1> HIDE DEF S
<1>3. kept \in Seq(S) /\ Elements(kept) = {q[a] : a \in Chosen(q, 0, S, Len(q))} /\ Rises(kept)
  BY <1>2, KeptElements, KeptRises
<1>4. kept \in Seq(Messages) BY <1>1, <1>3, SeqMonotonic
<1>5. {q[a] : a \in Chosen(q, 0, S, Len(q))} = Elements(q) \cap S
  <2>1. Chosen(q, 0, S, Len(q)) = {b \in 1 .. Len(q) : q[b] \in S} BY <1>2 DEF Chosen
  <2> QED BY <2>1, ElementOf
<1> QED BY <1>3, <1>4, <1>5 DEF S

\* A piece of a conversation.
LEMMA Pieces ==
  ASSUME NEW q \in Seq(Messages), Rises(q), NEW m \in 1 .. Len(q) + 1, NEW n \in 0 .. Len(q)
  PROVE  LET piece == SubSeq(q, m, n)
         IN  /\ piece \in Seq(Messages) /\ Rises(piece) /\ Elements(piece) \subseteq Elements(q)
             /\ \A x : x \in Elements(piece) <=> \E i \in m .. n : q[i] = x
<1> DEFINE piece == SubSeq(q, m, n)
<1>0. Len(q) \in Nat BY LenProperties
<1>1. /\ piece \in Seq(Messages) /\ Len(piece) = IF m <= n THEN (n - m) + 1 ELSE 0
      /\ \A i \in 1 .. (n - m) + 1 : piece[i] = q[m + i - 1]
  <2>1. \A i \in m .. n : q[i] \in Messages
    <3> SUFFICES ASSUME NEW i \in m .. n PROVE q[i] \in Messages OBVIOUS
    <3>1. i \in 1 .. Len(q) BY <1>0
    <3> QED BY <3>1, ElementOfSeq
  <2> QED BY <1>0, <2>1, SubSeqProperties
<1> HIDE DEF piece
<1>2. Rises(piece)
  <2> SUFFICES ASSUME NEW i \in 1 .. Len(piece), NEW j \in 1 .. Len(piece), i < j,
                      piece[i] # Junk, piece[j] # Junk
               PROVE  piece[i] < piece[j]
    BY DEF Rises
  <2>1. m <= n /\ i \in 1 .. (n - m) + 1 /\ j \in 1 .. (n - m) + 1 BY <1>0, <1>1
  <2>2. /\ m + i - 1 \in 1 .. Len(q) /\ m + j - 1 \in 1 .. Len(q) /\ m + i - 1 < m + j - 1
    BY <1>0, <2>1
  <2> QED BY <1>1, <2>1, <2>2 DEF Rises
<1>3. ASSUME NEW x PROVE x \in Elements(piece) <=> \E i \in m .. n : q[i] = x
  <2>1. ASSUME x \in Elements(piece) PROVE \E i \in m .. n : q[i] = x
    <3>1. PICK i \in 1 .. Len(piece) : piece[i] = x BY <1>1, <2>1, ElementOf
    <3>2. m <= n /\ i \in 1 .. (n - m) + 1 /\ m + i - 1 \in m .. n BY <1>0, <1>1
    <3> QED BY <1>1, <3>1, <3>2
  <2>2. ASSUME NEW i \in m .. n, q[i] = x PROVE x \in Elements(piece)
    <3>1. m <= n /\ (i - m) + 1 \in 1 .. (n - m) + 1 /\ m + ((i - m) + 1) - 1 = i BY <1>0
    <3>2. piece[(i - m) + 1] = x /\ (i - m) + 1 \in 1 .. Len(piece) BY <1>1, <2>2, <3>1
    <3> QED BY <1>1, <3>2, ElementOf
  <2> QED BY <2>1, <2>2
<1>4. Elements(piece) \subseteq Elements(q)
  <2> SUFFICES ASSUME NEW x \in Elements(piece) PROVE x \in Elements(q) OBVIOUS
  <2>1. PICK i \in m .. n : q[i] = x BY <1>3
  <2>2. i \in 1 .. Len(q) BY <1>0
  <2> QED BY <2>1, <2>2, ElementOf
<1> QED BY <1>1, <1>2, <1>3, <1>4 DEF piece

\* TruncateHistory: the new skip shows the last messages, as many as are to be
\* kept.
LEMMA Truncation ==
  ASSUME NEW s \in Sessions, file[s] \in Seq(Line), meta[s].skip \in Nat, Rises(file[s]),
         NEW keepLast \in Nat \ {0}
  PROVE  /\ TruncatedSkip(s, keepLast) \in Nat /\ TruncatedSkip(s, keepLast) <= Len(file[s])
         /\ LastOf(Visible(s), keepLast) \in Seq(Messages)
         /\ Elements(ReadMessages(file[s], TruncatedSkip(s, keepLast)))
              = Elements(LastOf(Visible(s), keepLast))
<1> DEFINE q == file[s]
           k == meta[s].skip
           count == Len(q)
           skip == IF k > count THEN count ELSE k
           chosen == {i \in Retained(s) : i > skip}
           rank(a) == Rank(q, k, Messages, a)
           shown == Visible(s)
           over == Cardinality(chosen) - keepLast
           kept == LastOf(shown, keepLast)
           new == TruncatedSkip(s, keepLast)
<1>0. count \in Nat /\ DOMAIN q = 1 .. count /\ k \in Nat BY LenProperties
<1>1. \A i \in 1 .. count : q[i] # Junk <=> q[i] \in Messages BY LineFacts, ElementOfSeq
<1>2. chosen = Chosen(q, k, Messages, count)
  <2>1. Retained(s) = {i \in 1 .. count : q[i] \in Messages} BY <1>0, <1>1 DEF Retained
  <2>2. \A i \in 1 .. count : i > skip <=> i > k BY <1>0
  <2> QED BY <2>1, <2>2 DEF Chosen
<1>3. new = IF chosen = {} THEN count
            ELSE IF over > 0
                 THEN CHOOSE i \in chosen : Cardinality({j \in chosen : j <= i}) = over
            ELSE skip
  <2>1. ~(keepLast <= 0) OBVIOUS
  <2> QED BY <2>1 DEF TruncatedSkip
<1> HIDE DEF chosen
<1>a. rank(count) = Cardinality(chosen) BY <1>2 DEF Rank
<1>4. /\ shown \in Seq(Messages) /\ Len(shown) = rank(count)
      /\ \A a \in chosen : rank(a) \in 1 .. Len(shown) /\ shown[rank(a)] = q[a]
      /\ \A r \in 1 .. Len(shown) : \E a \in chosen : rank(a) = r
  <2> DEFINE told == Kept(q, k, Messages)
  <2>1. /\ told \in Seq(Messages) /\ Len(told) = rank(count)
        /\ \A a \in Chosen(q, k, Messages, count) :
             rank(a) \in 1 .. Len(told) /\ told[rank(a)] = q[a]
        /\ \A r \in 1 .. Len(told) : \E a \in Chosen(q, k, Messages, count) : rank(a) = r
    <3>1. Len(q) \in Nat /\ k \in Nat BY <1>0
    <3> HIDE DEF q, k, count
    <3>2. told \in Seq(Messages) /\ Len(told) = rank(Len(q)) BY <3>1, KeptRanks
    <3>3. \A a \in Chosen(q, k, Messages, Len(q)) :
            rank(a) \in 1 .. Len(told) /\ told[rank(a)] = q[a]
      BY <3>1, KeptRanks
    <3>4. \A r \in 1 .. Len(told) : \E a \in Chosen(q, k, Messages, Len(q)) : rank(a) = r
      BY <3>1, KeptRanks
    <3> QED BY <3>2, <3>3, <3>4 DEF count
  <2>2. shown = told BY DEF Visible, ReadMessages
  <2> HIDE DEF told, shown, rank
  <2> QED BY <1>2, <2>1, <2>2
<1>5. Rises(shown) BY <1>0, Reading DEF Visible
<1>6. /\ Elements(shown) = {q[a] : a \in chosen}
  BY <1>0, <1>2, KeptElements DEF Visible, ReadMessages
<1>7. Len(shown) \in Nat BY <1>4, LenProperties
<1>8. ASSUME NEW n \in Nat
      PROVE  \A m : m \in Elements(ReadMessages(q, n)) <=>
               \E b \in 1 .. count : b > n /\ q[b] \in Messages /\ q[b] = m
  BY <1>0, Reading
<1>9. \A b : b \in chosen <=> b \in 1 .. count /\ b > k /\ q[b] \in Messages BY <1>2 DEF Chosen
<1>10. \A m : m \in Elements(shown) <=> \E b \in chosen : q[b] = m BY <1>6
<1>11. CASE chosen = {}
  <2>1. new = count BY <1>3, <1>11
  <2>2. Len(shown) = 0 BY <1>4, <1>a, <1>11, FS_EmptySet
  <2>3. kept = shown /\ Elements(shown) = {} BY <1>7, <1>10, <1>11, <2>2 DEF LastOf
  <2>4. Elements(ReadMessages(q, count)) = {}
    <3>1. ~\E b \in 1 .. count : b > count BY <1>0
    <3> QED BY <1>0, <1>8, <3>1
  <2> QED BY <1>0, <1>4, <2>1, <2>3, <2>4
<1>12. CASE chosen # {} /\ ~(over > 0)
  <2>1. new = skip /\ skip \in Nat /\ skip <= count BY <1>0, <1>3, <1>12
  <2>2. kept = shown BY <1>4, <1>7, <1>a, <1>12 DEF LastOf
  <2>3. \A m : m \in Elements(ReadMessages(q, skip)) <=> m \in Elements(shown)
    <3>1. \A b \in 1 .. count : b > skip <=> b > k BY <1>0
    <3> QED BY <1>8, <1>9, <1>10, <2>1, <3>1
  <2>4. Elements(ReadMessages(q, skip)) = Elements(shown) BY <2>3
  <2> QED BY <1>4, <2>1, <2>2, <2>4
<1>13. CASE chosen # {} /\ over > 0
  <2> HIDE DEF chosen, rank, shown, over
  <2>1. over \in Nat /\ over \in 1 .. Len(shown) /\ over = Len(shown) - keepLast
    BY <1>4, <1>7, <1>a, <1>13 DEF over
  <2>2. \A i \in chosen : i \in Nat /\ i \in 1 .. count BY <1>0, <1>9
  <2>3. \A i \in chosen : Cardinality({j \in chosen : j <= i}) = rank(i)
    <3> SUFFICES ASSUME NEW i \in chosen PROVE Cardinality({j \in chosen : j <= i}) = rank(i)
      OBVIOUS
    <3>1. {j \in chosen : j <= i} = Chosen(q, k, Messages, i)
      BY <1>0, <1>9, <2>2 DEF Chosen
    <3> QED BY <3>1 DEF rank, Rank
  <2>4. \E i \in chosen : Cardinality({j \in chosen : j <= i}) = over BY <1>4, <2>1, <2>3
  <2> DEFINE cut == CHOOSE i \in chosen : Cardinality({j \in chosen : j <= i}) = over
  <2>5. cut \in chosen /\ rank(cut) = over BY <2>3, <2>4
  <2>6. new = cut BY <1>3, <1>13
  <2> HIDE DEF cut, new, skip
  <2>7. cut \in Nat /\ cut <= count /\ cut > k BY <1>0, <1>9, <2>2, <2>5
  <2>8. kept = SubSeq(shown, over + 1, Len(shown))
    BY <1>7, <2>1 DEF LastOf
  <2>9. /\ kept \in Seq(Messages)
        /\ \A m : m \in Elements(kept) <=> \E r \in over + 1 .. Len(shown) : shown[r] = m
    <3>1. over + 1 \in 1 .. Len(shown) + 1 /\ Len(shown) \in 0 .. Len(shown) BY <1>7, <2>1
    <3>2. shown \in Seq(Messages) /\ Rises(shown) BY <1>4, <1>5 DEF shown
    <3> DEFINE piece == SubSeq(shown, over + 1, Len(shown))
    <3>3. /\ piece \in Seq(Messages)
          /\ \A m : m \in Elements(piece) <=> \E r \in over + 1 .. Len(shown) : shown[r] = m
      BY <3>1, <3>2, Pieces
    <3> HIDE DEF kept, piece
    <3>4. kept = piece BY <2>8 DEF piece
    <3> QED BY <3>3, <3>4
  <2> HIDE DEF kept
  <2>10. \A b \in chosen : b > cut <=> rank(b) > over
    <3> SUFFICES ASSUME NEW b \in chosen PROVE b > cut <=> rank(b) > over OBVIOUS
    <3>1. b \in Nat /\ b > k /\ q[b] \in Messages BY <1>9, <2>2
    <3>2. cut < b => rank(cut) < rank(b) BY <1>0, <2>7, <3>1, RankRises DEF rank
    <3>3. b <= cut => rank(b) <= rank(cut) BY <1>0, <2>7, <3>1, RankRises DEF rank
    <3>4. rank(b) \in Nat BY <1>0, <3>1, RankOfNext DEF rank
    <3> QED BY <2>1, <2>5, <2>7, <3>1, <3>2, <3>3, <3>4
  <2>11. ASSUME NEW m \in Elements(ReadMessages(q, cut)) PROVE m \in Elements(kept)
    <3>1. PICK b \in 1 .. count : b > cut /\ q[b] \in Messages /\ q[b] = m BY <1>8, <2>7
    <3>2. b > k BY <1>0, <2>7, <3>1
    <3>3. b \in chosen BY <1>9, <3>1, <3>2
    <3>4. rank(b) \in over + 1 .. Len(shown) /\ shown[rank(b)] = m
      BY <1>4, <1>7, <2>1, <2>10, <3>1, <3>3
    <3> QED BY <2>9, <3>4
  <2>12. ASSUME NEW m \in Elements(kept) PROVE m \in Elements(ReadMessages(q, cut))
    <3>1. PICK r \in over + 1 .. Len(shown) : shown[r] = m BY <2>9
    <3>2. r \in 1 .. Len(shown) BY <1>7, <2>1
    <3>3. PICK b \in chosen : rank(b) = r BY <1>4, <3>2
    <3>4. q[b] = m BY <1>4, <3>1, <3>3
    <3>5. b > cut BY <2>1, <2>10, <3>3
    <3> QED BY <1>8, <1>9, <2>7, <3>3, <3>4, <3>5
  <2>13. Elements(ReadMessages(q, cut)) = Elements(kept) BY <2>11, <2>12
  <2> QED BY <2>6, <2>7, <2>9, <2>13 DEF kept, shown, new
<1> QED BY <1>11, <1>12, <1>13

-----------------------------------------------------------------------------
(***************************************************************************)
(* The invariant of the data.  A session nobody writes is Stored; what an   *)
(* operation has still to do is written in its arguments, and is right      *)
(* whether it is done or given up (Adding, Rewriting, Promoting).           *)
(***************************************************************************)
Below(q) == \A i \in 1 .. Len(q) : q[i] < next

\* The lines of a file, and a conversation.
Lines(q) == q \in Seq(Line) /\ Rises(q) /\ Below(q)
Told(q) == q \in Seq(Messages) /\ Rises(q) /\ Below(q)

\* A last line without its newline is no part of the history h.
Unended(t, q, h) ==
  t # "whole" => /\ Len(q) > 0
                 /\ t = "torn" => q[Len(q)] = Junk
                 /\ t = "bare" => q[Len(q)] \notin Elements(h)

Stored(s) ==
  /\ Lines(file[s]) /\ Told(hist[s])
  /\ Unended(tail[s], file[s], hist[s])
  /\ Elements(hist[s]) \subseteq Elements(Visible(s)) \cup unread

Exact(s) ==
  /\ Elements(Visible(s)) = Elements(hist[s])
  /\ meta[s].count = Len(file[s]) /\ meta[s].skip <= Len(file[s])
  /\ tail[s] = "whole"

Adding(v) ==
  LET s == op[v].on
      m == op[v].msg
  IN At(v, "addMeta") =>
       /\ m \in Messages /\ m < next
       /\ \A x \in Elements(hist[s]) : x < m
       /\ m \in Elements(Visible(s)) \cup unread
       /\ tail[s] = "whole"
       /\ s \in clean => /\ Elements(Visible(s)) = Elements(hist[s]) \cup {m}
                         /\ meta[s].count + 1 = Len(file[s]) /\ meta[s].skip <= Len(file[s])

Rewriting(v) ==
  LET s == op[v].on
      q == op[v].new
  IN At(v, "setRewrite") \/ At(v, "compactRewrite") =>
       /\ Told(q)
       /\ Elements(hist[s]) \subseteq Elements(q) \cup unread
       /\ meta[s].skip = 0 /\ meta[s].count = Len(q)
       /\ s \in clean => Elements(q) = Elements(hist[s])

Promoting(v) ==
  LET s == op[v].on
      q == op[v].old
      t == op[v].oldTail
  IN At(v, "promoteMeta") \/ At(v, "rollback") =>
       /\ Lines(q) /\ t \in {"whole", "torn", "bare"} /\ Unended(t, q, hist[s])
       /\ Elements(hist[s]) \subseteq unread
       /\ s # Alias(v) /\ file[s] = Visible(Alias(v)) /\ tail[s] = "whole"
       /\ s \in clean => /\ Elements(hist[s]) = {} /\ Elements(ReadMessages(q, meta[s].skip)) = {}
                         /\ meta[s].count = Len(q) /\ meta[s].skip <= Len(q)
                         /\ t = "whole"

Doing(v) == Adding(v) /\ Rewriting(v) /\ Promoting(v)

Typed ==
  /\ file \in [Sessions -> Seq(Line)]
  /\ tail \in [Sessions -> {"whole", "torn", "bare"}]
  /\ meta \in [Sessions -> [skip : Nat, count : Nat, summary : BOOLEAN]]
  /\ hist \in [Sessions -> Seq(Messages)]
  /\ next \in Nat \ {0}
  /\ clean \subseteq Sessions

Settled(s) == \A v \in Workers : Writing(v) => op[v].on # s

Data ==
  /\ Typed
  /\ \A s \in Sessions : Stored(s)
  /\ \A v \in Workers : Doing(v)
  /\ \A s \in clean : Settled(s) => Exact(s)

\* A session whose mutex is free, or that w uses, is used by no other worker.
LEMMA Apart ==
  ASSUME IInv, NEW w \in Workers, NEW s \in Sessions, Available(s) \/ s \in Using(w)
  PROVE  /\ \A v \in Workers : v # w => s \notin Using(v)
         /\ Available(s) => s \notin Using(w)
BY SessionStoreAssumption DEF IInv, Owns, Available

\* What a worker writes, it uses.
LEMMA Writes ==
  ASSUME NEW v
  PROVE  /\ Writing(v) => op[v].on \in Using(v)
         /\ At(v, "promoteMeta") \/ At(v, "rollback") => Alias(v) \in Using(v)
         /\ At(v, "addMeta") \/ At(v, "setRewrite") \/ At(v, "compactRewrite")
              \/ At(v, "promoteMeta") \/ At(v, "rollback") => Writing(v) /\ op[v] # Idle
BY DEF Writing, Using, At

\* A clean session that w starts to work on is exact: nobody else is writing it.
LEMMA ExactNow ==
  ASSUME IInv, Data, NEW w \in Workers, NEW s \in clean, ~Writing(w), Available(s) \/ s \in Using(w)
  PROVE  Exact(s)
<1>0. s \in Sessions BY DEF Data, Typed
<1>1. \A v \in Workers : v # w => s \notin Using(v) BY <1>0, Apart
<1>2. Settled(s) BY <1>1, Writes DEF Settled
<1> QED BY <1>2 DEF Data

\* What was below the next message stays below it.
LEMMA Later ==
  ASSUME next \in Nat, next' \in Nat, next <= next'
  PROVE  \A q : (Lines(q) => Lines(q)') /\ (Told(q) => Told(q)')
<1>1. \A q \in Seq(Line) : Below(q) => Below(q)'
  <2> SUFFICES ASSUME NEW q \in Seq(Line), Below(q) PROVE Below(q)' OBVIOUS
  <2>1. \A i \in 1 .. Len(q) : q[i] \in Nat BY ElementOfSeq, LineFacts
  <2> QED BY <2>1 DEF Below
<1> QED BY <1>1, LineFacts DEF Lines, Told

\* A step of worker w at session s leaves the other sessions, and what other
\* workers have to do, as they were.
LEMMA Frame ==
  ASSUME IInv, Data, NEW w \in Workers, NEW s \in Sessions,
         Available(s) \/ s \in Using(w),
         \A r \in Sessions : r # s =>
           /\ file'[r] = file[r] /\ tail'[r] = tail[r] /\ meta'[r] = meta[r] /\ hist'[r] = hist[r],
         next <= next', unread \subseteq unread', clean' \subseteq clean \cup {s},
         \A v \in Workers : v # w => op'[v] = op[v],
         Writing(w) => op[w].on = s,
         Typed', Stored(s)', Doing(w)',
         s \in clean' => Exact(s)' \/ (Writing(w)' /\ op'[w].on = s)
  PROVE  Data'
<1>1. \A v \in Workers : v # w => s \notin Using(v) BY Apart
<1>2. next \in Nat /\ next' \in Nat BY DEF Data, Typed
<1>4. \A q : (Lines(q) => Lines(q)') /\ (Told(q) => Told(q)')
  BY <1>2, Later
<1>5. \A r \in Sessions : r # s => Visible(r)' = Visible(r) BY DEF Visible
<1>6. ASSUME NEW r \in Sessions PROVE Stored(r)'
  <2>1. CASE r = s BY <2>1
  <2>2. CASE r # s
    <3>1. Stored(r) BY DEF Data
    <3>2. Lines(file[r])' /\ Told(hist[r])' BY <1>4, <2>2, <3>1 DEF Stored
    <3>3. Unended(tail[r], file[r], hist[r])' BY <2>2, <3>1 DEF Stored, Unended
    <3>4. Elements(hist[r])' \subseteq Elements(Visible(r))' \cup unread'
      BY <1>5, <2>2, <3>1 DEF Stored, Elements
    <3> QED BY <3>2, <3>3, <3>4 DEF Stored
  <2> QED BY <2>1, <2>2
<1>7. ASSUME NEW v \in Workers, v # w PROVE Doing(v)'
  <2>1. op'[v] = op[v] /\ Doing(v) /\ Owns(v) BY <1>7 DEF Data, IInv
  <2>2. \A step : At(v, step)' <=> At(v, step) BY <2>1 DEF At
  <2>3. Writing(v) => op[v].on \in Sessions /\ op[v].on # s
    BY <1>1, <1>7, <2>1, Writes DEF Owns, Writing
  <2>4. Alias(v)' = Alias(v) BY <2>1 DEF Alias
  <2>5. At(v, "promoteMeta") \/ At(v, "rollback") => Alias(v) \in Sessions /\ Alias(v) # s
    <3> SUFFICES ASSUME At(v, "promoteMeta") \/ At(v, "rollback")
                 PROVE  Alias(v) \in Sessions /\ Alias(v) # s
      OBVIOUS
    <3>1. op[v].todo \in Seq(Sessions) /\ op[v].todo # <<>>
      BY <2>1 DEF Owns, At, PromotionSteps
    <3> QED BY <1>1, <1>7, <3>1, Writes, HeadAndTail DEF Alias
  <2>6. ASSUME NEW r \in Sessions, r # s
        PROVE  /\ file'[r] = file[r] /\ tail'[r] = tail[r] /\ meta'[r] = meta[r] /\ hist'[r] = hist[r]
               /\ Visible(r)' = Visible(r) /\ (r \in clean' => r \in clean)
    BY <1>5, <2>6
  <2>7. Adding(v)'
    <3> SUFFICES ASSUME At(v, "addMeta") PROVE Adding(v)' BY <2>2 DEF Adding
    <3>1. op[v].on \in Sessions /\ op[v].on # s BY <2>3, Writes
    <3>2. op[v].msg \in Messages /\ op[v].msg < next BY <2>1 DEF Doing, Adding
    <3>3. op[v].msg \in Nat BY <3>2, LineFacts
    <3>4. op[v].msg < next' BY <1>2, <3>2, <3>3
    <3> QED BY <2>1, <2>6, <3>1, <3>2, <3>4 DEF Doing, Adding
  <2>8. Rewriting(v)'
    <3> SUFFICES ASSUME At(v, "setRewrite") \/ At(v, "compactRewrite") PROVE Rewriting(v)'
      BY <2>2 DEF Rewriting
    <3>1. op[v].on \in Sessions /\ op[v].on # s BY <2>3, Writes
    <3>2. Told(op[v].new)' BY <1>4, <2>1 DEF Doing, Rewriting
    <3> QED BY <2>1, <2>2, <2>6, <3>1, <3>2 DEF Doing, Rewriting
  <2>9. Promoting(v)'
    <3> SUFFICES ASSUME At(v, "promoteMeta") \/ At(v, "rollback") PROVE Promoting(v)'
      BY <2>2 DEF Promoting
    <3>1. op[v].on \in Sessions /\ op[v].on # s BY <2>3, Writes
    <3>2. Lines(op[v].old)' BY <1>4, <2>1 DEF Doing, Promoting
    <3>3. Unended(op[v].oldTail, op[v].old, hist[op[v].on])'
      BY <2>1, <2>6, <3>1 DEF Doing, Promoting, Unended
    <3> QED BY <2>1, <2>4, <2>5, <2>6, <3>1, <3>2, <3>3 DEF Doing, Promoting
  <2> QED BY <2>7, <2>8, <2>9 DEF Doing
<1>8. ASSUME NEW r \in clean', Settled(r)' PROVE Exact(r)'
  <2>1. CASE r = s BY <1>8, <2>1 DEF Settled
  <2>2. CASE r # s
    <3>1. r \in clean /\ r \in Sessions BY <2>2 DEF Data, Typed
    <3>2. Settled(r) BY <1>8, <2>2 DEF Settled, Writing
    <3>3. Exact(r) BY <3>1, <3>2 DEF Data
    <3> QED BY <1>5, <2>2, <3>1, <3>3 DEF Exact
  <2> QED BY <2>1, <2>2
<1> QED BY <1>6, <1>7, <1>8 DEF Data

\* Nothing is written.
LEMMA NothingWritten ==
  ASSUME Data, UNCHANGED <<file, tail, meta, next, hist, clean, unread>>,
         \A v \in Workers : op'[v] = op[v] \/ (~Writing(v) /\ ~Writing(v)')
  PROVE  Data'
<1>1. ASSUME NEW v \in Workers PROVE Doing(v)'
  <2>1. CASE op'[v] = op[v]
    <3>1. /\ \A step : At(v, step)' <=> At(v, step)
          /\ Alias(v)' = Alias(v) /\ \A s : Visible(s)' = Visible(s)
      BY <2>1 DEF At, Alias, Visible
    <3>2. Adding(v)' /\ Rewriting(v)'
      BY <2>1, <3>1 DEF Data, Doing, Adding, Rewriting, Told, Below
    <3>3. Promoting(v)' BY <2>1, <3>1 DEF Data, Doing, Promoting, Lines, Below, Unended
    <3> QED BY <3>2, <3>3 DEF Doing
  <2>2. CASE ~Writing(v)'
    <3>1. /\ ~At(v, "addMeta")' /\ ~At(v, "setRewrite")' /\ ~At(v, "compactRewrite")'
          /\ ~At(v, "promoteMeta")' /\ ~At(v, "rollback")'
      BY <2>2 DEF Writing, At
    <3> QED BY <3>1 DEF Doing, Adding, Rewriting, Promoting
  <2> QED BY <2>1, <2>2
<1>2. \A s \in Sessions : Stored(s)'
  BY DEF Data, Stored, Lines, Told, Below, Unended, Visible
<1>3. ASSUME NEW s \in clean', Settled(s)' PROVE Exact(s)'
  <2>1. Settled(s) BY <1>3 DEF Settled, Writing
  <2> QED BY <2>1 DEF Data, Exact, Visible
<1> QED BY <1>1, <1>2, <1>3 DEF Data, Typed

\* A worker without operation has nothing to do.
LEMMA Idling ==
  ASSUME NEW v, op[v] = Idle
  PROVE  Doing(v) /\ ~Writing(v)
BY DEF Doing, Adding, Rewriting, Promoting, At, Writing

\* What else reading and writing takes.
LEMMA DataTypes ==
  ASSUME Data, NEW s \in Sessions
  PROVE  /\ file[s] \in Seq(Line) /\ tail[s] \in {"whole", "torn", "bare"}
         /\ meta[s].skip \in Nat /\ meta[s].count \in Nat /\ hist[s] \in Seq(Messages)
         /\ Len(file[s]) \in Nat /\ next \in Nat
         /\ Stored(s)
         /\ \A v \in Workers : Doing(v)
<1>1. file[s] \in Seq(Line) /\ Len(file[s]) \in Nat BY LenProperties DEF Data, Typed
<1> QED BY <1>1 DEF Data, Typed

\* A newer message goes at the end of a conversation.
LEMMA ToldAppend ==
  ASSUME NEW h, Told(h), NEW m \in Messages, m < next, \A x \in Elements(h) : x < m
  PROVE  Told(Append(h, m)) /\ Elements(Append(h, m)) = Elements(h) \cup {m}
<1>1. h \in Seq(Messages) /\ h \in Seq(Line) /\ m \in Line /\ Len(h) \in Nat
  BY LineFacts, LenProperties DEF Told
<1>2. /\ Append(h, m) \in Seq(Messages) /\ Len(Append(h, m)) = Len(h) + 1
      /\ Append(h, m)[Len(h) + 1] = m
      /\ \A i \in 1 .. Len(h) : Append(h, m)[i] = h[i]
  BY <1>1, AppendProperties
<1>3. \A i \in 1 .. Len(h) : h[i] < m BY <1>1, ElementOf
<1>4. Rises(Append(h, m)) BY <1>1, <1>3, ReadAppend DEF Told
<1> DEFINE p == Append(h, m)
<1>5. \A i \in 1 .. Len(p) : i \in 1 .. Len(h) \/ i = Len(h) + 1 BY <1>1, <1>2
<1> HIDE DEF p
<1>6. Below(p)
  <2> SUFFICES ASSUME NEW i \in 1 .. Len(p) PROVE p[i] < next BY DEF Below
  <2>1. CASE i \in 1 .. Len(h) BY <1>2, <2>1 DEF Told, Below, p
  <2>2. CASE i = Len(h) + 1 BY <1>2, <2>2 DEF p
  <2> QED BY <1>5, <2>1, <2>2
<1>7. Elements(p) = Elements(h) \cup {m}
  <2>1. ASSUME NEW x \in Elements(p) PROVE x \in Elements(h) \cup {m}
    <3>1. PICK i \in 1 .. Len(p) : p[i] = x BY <1>2, ElementOf DEF p
    <3>2. CASE i \in 1 .. Len(h) BY <1>1, <1>2, <3>1, <3>2, ElementOf DEF p
    <3>3. CASE i = Len(h) + 1 BY <1>2, <3>1, <3>3 DEF p
    <3> QED BY <1>5, <3>2, <3>3
  <2>2. ASSUME NEW x \in Elements(h) PROVE x \in Elements(p)
    <3>1. PICK i \in 1 .. Len(h) : h[i] = x BY <1>1, ElementOf
    <3>2. p[i] = x /\ i \in 1 .. Len(p) BY <1>1, <1>2, <3>1 DEF p
    <3> QED BY <1>2, <3>2, ElementOf DEF p
  <2>3. m \in Elements(p)
    <3>1. p[Len(h) + 1] = m /\ Len(h) + 1 \in 1 .. Len(p) BY <1>1, <1>2 DEF p
    <3> QED BY <1>2, <3>1, ElementOf DEF p
  <2> QED BY <2>1, <2>2, <2>3
<1> QED BY <1>2, <1>4, <1>6, <1>7 DEF Told, p

\* What is appended, or spoilt, at the end of a file.
LEMMA FileAppended ==
  ASSUME Data, NEW s \in Sessions, NEW x \in {Junk, next}, next \in Messages
  PROVE  LET q == Appended(s, x)
             k == meta[s].skip
         IN  /\ q \in Seq(Line) /\ Rises(q) /\ \A i \in 1 .. Len(q) : q[i] <= next
             /\ Len(q) > 0
             /\ tail[s] = "whole" => q[Len(q)] = x /\ Len(q) = Len(file[s]) + 1
             /\ tail[s] # "whole" => q[Len(q)] = Junk
             /\ Elements(hist[s]) \subseteq Elements(ReadMessages(q, k)) \cup unread
             /\ tail[s] = "whole" /\ x = next /\ k <= Len(file[s]) =>
                  Elements(ReadMessages(q, k)) = Elements(Visible(s)) \cup {next}
<1> DEFINE f == file[s]
           k == meta[s].skip
           q == Appended(s, x)
<1>0. /\ f \in Seq(Line) /\ Len(f) \in Nat /\ k \in Nat /\ next \in Nat /\ x \in Line /\ Stored(s)
      /\ next # Junk /\ Junk < next
  BY DataTypes, LineFacts, SessionStoreAssumption DEF Messages, Junk
<1>1. Rises(f) /\ \A i \in 1 .. Len(f) : f[i] < next BY <1>0 DEF Stored, Lines, Below
<1>2. Elements(hist[s]) \subseteq Elements(ReadMessages(f, k)) \cup unread
  BY <1>0 DEF Stored, Visible
<1>3. CASE tail[s] = "whole"
  <2>1. q = Append(f, x) BY <1>3 DEF Appended
  <2>2. /\ q \in Seq(Line) /\ Len(q) = Len(f) + 1 /\ q[Len(f) + 1] = x
        /\ \A i \in 1 .. Len(f) : q[i] = f[i]
    BY <1>0, <2>1, AppendProperties
  <2>3. Rises(q) BY <1>0, <1>1, <2>1, ReadAppend
  <2>4. /\ Elements(ReadMessages(f, k)) \subseteq Elements(ReadMessages(q, k))
        /\ \A m \in Elements(ReadMessages(q, k)) : m \in Elements(ReadMessages(f, k)) \/ m = x
        /\ x \in Messages /\ k <= Len(f) => x \in Elements(ReadMessages(q, k))
    BY <1>0, <2>1, ReadAppend
  <2> HIDE DEF q
  <2>5. \A i \in 1 .. Len(q) : q[i] <= next
    <3> SUFFICES ASSUME NEW i \in 1 .. Len(q) PROVE q[i] <= next OBVIOUS
    <3>1. q[i] \in Nat BY <2>2, ElementOfSeq, LineFacts
    <3>2. CASE i \in 1 .. Len(f) BY <1>0, <1>1, <2>2, <3>1, <3>2
    <3>3. CASE i = Len(f) + 1
      <4>1. next \in Nat /\ Junk <= next BY <1>0 DEF Junk
      <4>2. x = Junk \/ x = next OBVIOUS
      <4>3. x <= next BY <4>1, <4>2
      <4> QED BY <2>2, <3>3, <4>3
    <3> QED BY <1>0, <2>2, <3>2, <3>3
  <2>6. Elements(hist[s]) \subseteq Elements(ReadMessages(q, k)) \cup unread BY <1>2, <2>4
  <2>7. x = next /\ k <= Len(f) => Elements(ReadMessages(q, k)) = Elements(Visible(s)) \cup {next}
    BY <2>4 DEF Visible
  <2>8. Len(q) > 0 /\ q[Len(q)] = x BY <1>0, <2>2
  <2> QED BY <1>3, <2>2, <2>3, <2>5, <2>6, <2>7, <2>8 DEF q
<1>4. CASE tail[s] # "whole"
  <2>1. q = [f EXCEPT ![Len(f)] = Junk] BY <1>4 DEF Appended
  <2>2. Len(f) > 0 BY <1>0, <1>4 DEF Stored, Unended
  <2>3. /\ q \in Seq(Line) /\ Len(q) = Len(f)
        /\ \A i \in 1 .. Len(f) : q[i] = IF i = Len(f) THEN Junk ELSE f[i]
    BY <1>0, <2>1, <2>2, Spoilt
  <2> HIDE DEF q
  <2>4. /\ q[Len(q)] = Junk
        /\ \A m \in Elements(ReadMessages(f, k)) : m \in Elements(ReadMessages(q, k)) \/ m = f[Len(f)]
        /\ Rises(q)
    BY <1>0, <1>1, <2>2, <2>3, ReadSpoilt
  <2>5. \A m \in Elements(hist[s]) : m # f[Len(f)] \/ f[Len(f)] = Junk
    BY <1>0, <1>4, DataTypes DEF Stored, Unended
  <2>6. \A m \in Elements(hist[s]) : m # Junk BY <1>0, DataTypes, ElementOf, LineFacts
  <2>7. Elements(hist[s]) \subseteq Elements(ReadMessages(q, k)) \cup unread
    BY <1>2, <2>4, <2>5, <2>6
  <2>8. \A i \in 1 .. Len(q) : q[i] <= next
    <3> SUFFICES ASSUME NEW i \in 1 .. Len(q) PROVE q[i] <= next OBVIOUS
    <3>1. i \in 1 .. Len(f) BY <2>3
    <3>2. f[i] \in Nat /\ f[i] < next BY <1>0, <1>1, <3>1, ElementOfSeq, LineFacts
    <3>3. CASE i = Len(f)
      <4>1. q[i] = Junk BY <2>3, <3>1, <3>3
      <4> QED BY <1>0, <4>1 DEF Junk
    <3>4. CASE i # Len(f)
      <4>1. q[i] = f[i] BY <2>3, <3>1, <3>4
      <4> QED BY <1>0, <3>2, <4>1
    <3> QED BY <3>3, <3>4
  <2> QED BY <1>4, <2>2, <2>3, <2>4, <2>7, <2>8 DEF q
<1> QED BY <1>3, <1>4

\* A worker that has one thing to do.
LEMMA Becomes ==
  ASSUME IInv, NEW w \in Workers, NEW r, op' = [op EXCEPT ![w] = r], r # Idle
  PROVE  /\ op'[w] = r /\ \A v \in Workers : v # w => op'[v] = op[v]
         /\ \A step : At(w, step)' <=> r.at = step
         /\ r.at = "addMeta" => (Adding(w)' => Doing(w)')
         /\ r.at \in {"setRewrite", "compactRewrite"} => (Rewriting(w)' => Doing(w)')
         /\ r.at \in {"promoteMeta", "rollback"} => (Promoting(w)' => Doing(w)')
         /\ r.at \notin {"first", "second", "examine"} => Writing(w)'
<1>1. op'[w] = r /\ \A v \in Workers : v # w => op'[v] = op[v] BY DEF IInv
<1>2. \A step : At(w, step)' <=> r.at = step BY <1>1 DEF At
<1>3. /\ At(w, "addMeta")' <=> r.at = "addMeta"
      /\ At(w, "setRewrite")' <=> r.at = "setRewrite"
      /\ At(w, "compactRewrite")' <=> r.at = "compactRewrite"
      /\ At(w, "promoteMeta")' <=> r.at = "promoteMeta"
      /\ At(w, "rollback")' <=> r.at = "rollback"
  BY <1>2
<1>4. r.at = "addMeta" => Rewriting(w)' /\ Promoting(w)' BY <1>3 DEF Rewriting, Promoting
<1>5. r.at \in {"setRewrite", "compactRewrite"} => Adding(w)' /\ Promoting(w)'
  BY <1>3 DEF Adding, Promoting
<1>6. r.at \in {"promoteMeta", "rollback"} => Adding(w)' /\ Rewriting(w)'
  BY <1>3 DEF Adding, Rewriting
<1> QED BY <1>1, <1>2, <1>4, <1>5, <1>6 DEF Doing, Writing

\* A worker that is done, or has failed.
LEMMA BecomesIdle ==
  ASSUME IInv, NEW w \in Workers, op' = [op EXCEPT ![w] = Idle]
  PROVE  /\ op'[w] = Idle /\ \A v \in Workers : v # w => op'[v] = op[v]
         /\ Doing(w)' /\ ~Writing(w)'
<1>1. op'[w] = Idle /\ \A v \in Workers : v # w => op'[v] = op[v] BY DEF IInv
<1> QED BY <1>1 DEF Doing, Adding, Rewriting, Promoting, At, Writing

-----------------------------------------------------------------------------
(***************************************************************************)
(* One lemma per action.                                                   *)
(***************************************************************************)

\* addMsg's append.  In a clean session it is not in vain: the file ends with a
\* newline, and the metadata skips no line that is not there.
LEMMA DataOfAddAppend ==
  ASSUME IInv, Data, NEW w \in Workers, NEW s \in Sessions, AddAppend(w, s)
  PROVE  Data'
<1> DEFINE r == [at |-> "addMeta", on |-> s, msg |-> next]
           q == Appended(s, next)
           k == meta[s].skip
<1>1. /\ op[w] = Idle /\ Available(s) /\ next <= MaxMessages /\ op' = [op EXCEPT ![w] = r]
      /\ next' = next + 1 /\ meta' = meta /\ hist' = hist /\ clean' = clean
      /\ file' = [file EXCEPT ![s] = q] /\ tail' = [tail EXCEPT ![s] = "whole"]
      /\ unread' = IF InVain(s) THEN unread \cup {next} ELSE unread
  BY DEF AddAppend, SetFile
<1>2. r # Idle /\ r.at = "addMeta" /\ r.on = s /\ r.msg = next BY DEF Idle
<1> HIDE DEF r, q
<1>3. Typed /\ next \in Nat /\ Stored(s) /\ k \in Nat /\ Len(file[s]) \in Nat BY DataTypes DEF Data
<1>4. next \in Messages
  <2>1. next \in Nat \ {0} BY DEF Data, Typed
  <2> QED BY <1>1, <2>1, SessionStoreAssumption DEF Messages
<1>5. /\ op'[w] = r /\ \A v \in Workers : v # w => op'[v] = op[v]
      /\ At(w, "addMeta")' /\ Writing(w)' /\ (Adding(w)' => Doing(w)')
  BY <1>1, <1>2, Becomes
<1>6. ~Writing(w) BY <1>1, Idling
<1>7. /\ q \in Seq(Line) /\ Rises(q) /\ \A i \in 1 .. Len(q) : q[i] <= next
      /\ tail[s] = "whole" => Len(q) = Len(file[s]) + 1
      /\ Elements(hist[s]) \subseteq Elements(ReadMessages(q, k)) \cup unread
      /\ tail[s] = "whole" /\ k <= Len(file[s]) =>
            Elements(ReadMessages(q, k)) = Elements(Visible(s)) \cup {next}
  BY <1>4, FileAppended DEF q
<1>8. \A t \in Sessions : t # s => /\ file'[t] = file[t] /\ tail'[t] = tail[t]
                                   /\ meta'[t] = meta[t] /\ hist'[t] = hist[t]
  BY <1>1, <1>3 DEF Typed
<1>9. file'[s] = q /\ tail'[s] = "whole" /\ meta'[s] = meta[s] /\ hist'[s] = hist[s]
  BY <1>1, <1>3 DEF Typed
<1>10. Typed' BY <1>1, <1>3, <1>7 DEF Typed
<1>11. unread \subseteq unread' /\ next <= next' BY <1>1, <1>3
<1>12. Visible(s)' = ReadMessages(q, k) BY <1>9 DEF Visible
<1>13. Told(hist[s]) /\ Told(hist[s])'
  <2>1. Told(hist[s]) BY <1>3 DEF Stored
  <2>2. \A i \in 1 .. Len(hist[s]) : hist[s][i] \in Nat /\ hist[s][i] < next
    BY <2>1, ElementOfSeq, LineFacts DEF Told, Below
  <2>3. \A i \in 1 .. Len(hist[s]) : hist[s][i] < next' BY <1>1, <1>3, <2>2
  <2> QED BY <1>9, <2>1, <2>3 DEF Told, Below
<1>14. \A x \in Elements(hist[s]) : x < next
  BY <1>13, ElementOf DEF Told, Below
<1>15. Lines(file[s])'
  <2>1. \A i \in 1 .. Len(q) : q[i] \in Nat BY <1>7, ElementOfSeq, LineFacts
  <2>2. \A i \in 1 .. Len(q) : q[i] < next' BY <1>1, <1>3, <1>7, <2>1
  <2> QED BY <1>7, <1>9, <2>2 DEF Lines, Below
<1>16. Stored(s)' BY <1>7, <1>9, <1>11, <1>12, <1>13, <1>15 DEF Stored, Unended
<1>17. next \in Elements(Visible(s)') \cup unread'
  <2>1. CASE InVain(s) BY <1>1, <2>1
  <2>2. CASE ~InVain(s)
    <3>1. tail[s] = "whole" /\ k <= Len(file[s]) BY <1>3, <2>2 DEF InVain
    <3> QED BY <1>7, <1>12, <3>1
  <2> QED BY <2>1, <2>2
<1>18. s \in clean' => /\ Elements(Visible(s)') = Elements(hist'[s]) \cup {next}
                       /\ meta'[s].count + 1 = Len(file'[s]) /\ meta'[s].skip <= Len(file'[s])
  <2> SUFFICES ASSUME s \in clean
               PROVE  /\ Elements(Visible(s)') = Elements(hist'[s]) \cup {next}
                      /\ meta'[s].count + 1 = Len(file'[s]) /\ meta'[s].skip <= Len(file'[s])
    BY <1>1
  <2>1. Exact(s) BY <1>1, <1>6, ExactNow
  <2>2. Elements(Visible(s)') = Elements(ReadMessages(q, k)) BY <1>12
  <2>3. Elements(hist'[s]) = Elements(hist[s]) BY <1>9
  <2>4. Elements(Visible(s)') = Elements(hist'[s]) \cup {next} BY <1>7, <2>1, <2>2, <2>3 DEF Exact
  <2>5. meta[s].count + 1 = Len(q) /\ k <= Len(q) BY <1>3, <1>7, <2>1 DEF Exact
  <2> QED BY <1>9, <2>4, <2>5
<1>19. Adding(w)'
  <2>1. op'[w].on = s /\ op'[w].msg = next BY <1>2, <1>5
  <2>2. next < next' BY <1>1, <1>3
  <2> QED BY <1>4, <1>9, <1>14, <1>17, <1>18, <2>1, <2>2 DEF Adding
<1>20. s \in clean' => Exact(s)' \/ (Writing(w)' /\ op'[w].on = s) BY <1>2, <1>5
<1> QED BY <1>1, <1>5, <1>6, <1>8, <1>10, <1>11, <1>16, <1>19, <1>20, Frame

\* A worker that does nothing after the step either.
LEMMA StillIdle ==
  ASSUME NEW w, op'[w] = Idle
  PROVE  Doing(w)' /\ ~Writing(w)'
BY DEF Doing, Adding, Rewriting, Promoting, At, Writing

\* The torn append makes the last line one that is no part of what was told: a
\* piece of it, or the new message itself.
LEMMA DataOfAddTear ==
  ASSUME IInv, Data, NEW w \in Workers, NEW s \in Sessions, AddTear(w, s)
  PROVE  Data'
<1>1. PICK t \in {"torn", "bare"} :
        /\ file' = [file EXCEPT ![s] = Appended(s, IF t = "torn" THEN Junk ELSE next)]
        /\ tail' = [tail EXCEPT ![s] = IF tail[s] = "whole" THEN t ELSE "torn"]
  BY DEF AddTear
<1> DEFINE x == IF t = "torn" THEN Junk ELSE next
           q == Appended(s, x)
           k == meta[s].skip
<1>2. /\ op[w] = Idle /\ Available(s) /\ next <= MaxMessages /\ op' = op
      /\ next' = next + 1 /\ meta' = meta /\ hist' = hist /\ clean' = clean \ {s} /\ unread' = unread
      /\ file' = [file EXCEPT ![s] = q]
  BY <1>1 DEF AddTear
<1>3. Typed /\ next \in Nat \ {0} /\ Stored(s) /\ k \in Nat /\ Len(file[s]) \in Nat
  BY DataTypes DEF Data, Typed
<1>4. next \in Messages BY <1>2, <1>3, SessionStoreAssumption DEF Messages
<1>5. x \in {Junk, next} OBVIOUS
<1>6. /\ q \in Seq(Line) /\ Rises(q) /\ (\A i \in 1 .. Len(q) : q[i] <= next) /\ Len(q) > 0
      /\ tail[s] = "whole" => q[Len(q)] = x
      /\ tail[s] # "whole" => q[Len(q)] = Junk
      /\ Elements(hist[s]) \subseteq Elements(ReadMessages(q, k)) \cup unread
  <2> HIDE DEF x
  <2> QED BY <1>4, <1>5, FileAppended
<1> HIDE DEF q
<1>7. \A r \in Sessions : r # s => /\ file'[r] = file[r] /\ tail'[r] = tail[r]
                                   /\ meta'[r] = meta[r] /\ hist'[r] = hist[r]
  BY <1>1, <1>2, <1>3 DEF Typed
<1>8. /\ file'[s] = q /\ meta'[s] = meta[s] /\ hist'[s] = hist[s]
      /\ tail'[s] = IF tail[s] = "whole" THEN t ELSE "torn"
  BY <1>1, <1>2, <1>3 DEF Typed
<1>9. Typed' BY <1>1, <1>2, <1>3, <1>6 DEF Typed
<1>10. next' \in Nat /\ next <= next' BY <1>2, <1>3
<1>11. Told(hist[s]) /\ Told(hist[s])'
  <2>1. Told(hist[s]) BY <1>3 DEF Stored
  <2> QED BY <1>3, <1>8, <1>10, <2>1, Later
<1>12. next \notin Elements(hist[s])
  <2>1. \A m \in Elements(hist[s]) : m < next BY <1>11, ElementOf DEF Told, Below
  <2> QED BY <1>3, <2>1
<1>13. Lines(file[s])'
  <2>1. \A i \in 1 .. Len(q) : q[i] \in Nat BY <1>6, ElementOfSeq, LineFacts
  <2>2. \A i \in 1 .. Len(q) : q[i] < next' BY <1>2, <1>3, <1>6, <2>1
  <2> QED BY <1>6, <1>8, <2>2 DEF Lines, Below
<1>14. Unended(tail[s], file[s], hist[s])'
  <2>1. t = "torn" => x = Junk OBVIOUS
  <2>2. t = "bare" => x = next OBVIOUS
  <2> HIDE DEF x
  <2> QED BY <1>6, <1>8, <1>12, <2>1, <2>2 DEF Unended
<1>15. Visible(s)' = ReadMessages(q, k) BY <1>8 DEF Visible
<1>16. Stored(s)' BY <1>2, <1>6, <1>8, <1>11, <1>13, <1>14, <1>15 DEF Stored
<1>17. Doing(w)' /\ ~Writing(w) BY <1>2, StillIdle, Idling
<1>18. s \notin clean' /\ clean' \subseteq clean \cup {s} /\ unread \subseteq unread'
  BY <1>2
<1>19. \A v \in Workers : v # w => op'[v] = op[v] BY <1>2
<1> QED BY <1>2, <1>7, <1>9, <1>10, <1>16, <1>17, <1>18, <1>19, Frame

\* A worker that writes has the session to itself.
LEMMA Working ==
  ASSUME IInv, NEW w \in Workers, Writing(w)
  PROVE  op[w] # Idle /\ op[w].on \in Sessions /\ op[w].on \in Using(w)
BY Writes DEF Writing, IInv, Owns

\* addMsg's metadata: the message is in the file already.
LEMMA DataOfAddMeta ==
  ASSUME IInv, Data, NEW w \in Workers, AddMeta(w)
  PROVE  Data'
<1>0. PICK s, m : s = op[w].on /\ m = op[w].msg OBVIOUS
<1>1. /\ At(w, "addMeta") /\ op' = [op EXCEPT ![w] = Idle]
      /\ meta' = [meta EXCEPT ![s].count = @ + 1]
      /\ hist' = [hist EXCEPT ![s] = Append(@, m)]
      /\ file' = file /\ tail' = tail /\ next' = next /\ clean' = clean /\ unread' = unread
  BY <1>0 DEF AddMeta, Return
<1>2. Writing(w) BY <1>1, Writes
<1>3. s \in Sessions /\ s \in Using(w) BY <1>0, <1>2, Working
<1>4. Adding(w) /\ Typed /\ Stored(s) BY <1>3 DEF Data, Doing
<1>5. /\ m \in Messages /\ m < next /\ (\A x \in Elements(hist[s]) : x < m)
      /\ m \in Elements(Visible(s)) \cup unread /\ tail[s] = "whole"
      /\ s \in clean => /\ Elements(Visible(s)) = Elements(hist[s]) \cup {m}
                        /\ meta[s].count + 1 = Len(file[s]) /\ meta[s].skip <= Len(file[s])
  BY <1>0, <1>1, <1>4 DEF Adding
<1>a. PICK h : h = Append(hist[s], m) OBVIOUS
<1>6. Told(h) /\ Elements(h) = Elements(hist[s]) \cup {m}
  BY <1>4, <1>5, <1>a, ToldAppend DEF Stored
<1>7. /\ file'[s] = file[s] /\ tail'[s] = "whole" /\ hist'[s] = h
      /\ meta'[s].skip = meta[s].skip /\ meta'[s].count = meta[s].count + 1
  BY <1>1, <1>3, <1>4, <1>5, <1>a DEF Typed
<1>8. \A r \in Sessions : r # s => /\ file'[r] = file[r] /\ tail'[r] = tail[r]
                                   /\ meta'[r] = meta[r] /\ hist'[r] = hist[r]
  BY <1>1, <1>3, <1>4 DEF Typed
<1>9. Typed'
  <2>1. h \in Seq(Messages) BY <1>6 DEF Told
  <2>2. meta' \in [Sessions -> [skip : Nat, count : Nat, summary : BOOLEAN]]
    <3> DEFINE c == [meta[s] EXCEPT !.count = @ + 1]
    <3>1. meta[s] \in [skip : Nat, count : Nat, summary : BOOLEAN] BY <1>3, <1>4 DEF Typed
    <3>2. c \in [skip : Nat, count : Nat, summary : BOOLEAN] BY <3>1
    <3>3. meta' = [meta EXCEPT ![s] = c] BY <1>1
    <3> HIDE DEF c
    <3> QED BY <1>3, <1>4, <3>2, <3>3 DEF Typed
  <2>3. hist' \in [Sessions -> Seq(Messages)] BY <1>1, <1>3, <1>4, <1>a, <2>1 DEF Typed
  <2> QED BY <1>1, <1>4, <2>2, <2>3 DEF Typed
<1>10. Visible(s)' = Visible(s) BY <1>7 DEF Visible
<1>11. Stored(s)'
  <2>1. Lines(file[s])' /\ Told(hist[s])'
    BY <1>1, <1>4, <1>6, <1>7 DEF Stored, Lines, Told, Below
  <2>2. Unended(tail[s], file[s], hist[s])' BY <1>7 DEF Unended
  <2>3. Elements(hist[s]) \subseteq Elements(Visible(s)) \cup unread BY <1>4 DEF Stored
  <2> QED BY <1>1, <1>5, <1>6, <1>7, <1>10, <2>1, <2>2, <2>3 DEF Stored
<1>12. s \in clean' => Exact(s)' BY <1>1, <1>5, <1>6, <1>7, <1>10 DEF Exact
<1>13. /\ op'[w] = Idle /\ (\A v \in Workers : v # w => op'[v] = op[v])
       /\ Doing(w)' /\ ~Writing(w)'
  BY <1>1, BecomesIdle
<1>14. next <= next' /\ unread \subseteq unread' /\ clean' \subseteq clean \cup {s}
  BY <1>1, <1>4 DEF Typed
<1>15. Writing(w) => op[w].on = s BY <1>0
<1> QED BY <1>3, <1>8, <1>9, <1>11, <1>12, <1>13, <1>14, <1>15, Frame

\* The summary says nothing of the messages.
LEMMA DataOfSetSummary ==
  ASSUME IInv, Data, NEW w \in Workers, NEW s \in Sessions, SetSummary(w, s)
  PROVE  Data'
<1>1. PICK b \in BOOLEAN : meta' = [meta EXCEPT ![s].summary = b] BY DEF SetSummary
<1>2. /\ op[w] = Idle /\ Available(s) /\ op' = op /\ file' = file /\ tail' = tail
      /\ next' = next /\ hist' = hist /\ clean' = clean /\ unread' = unread
  BY DEF SetSummary
<1>3. Typed /\ Stored(s) BY DEF Data
<1>4. /\ \A r \in Sessions : r # s => meta'[r] = meta[r]
      /\ meta'[s].skip = meta[s].skip /\ meta'[s].count = meta[s].count
  BY <1>1, <1>3 DEF Typed
<1>5. Typed'
  <2> DEFINE c == [meta[s] EXCEPT !.summary = b]
  <2>1. meta[s] \in [skip : Nat, count : Nat, summary : BOOLEAN] BY <1>3 DEF Typed
  <2>2. c \in [skip : Nat, count : Nat, summary : BOOLEAN] BY <2>1
  <2>3. meta' = [meta EXCEPT ![s] = c] BY <1>1
  <2> HIDE DEF c
  <2>4. meta' \in [Sessions -> [skip : Nat, count : Nat, summary : BOOLEAN]]
    BY <1>3, <2>2, <2>3 DEF Typed
  <2> QED BY <1>2, <1>3, <2>4 DEF Typed
<1>6. Visible(s)' = Visible(s) BY <1>2, <1>4 DEF Visible
<1>7. Stored(s)' BY <1>2, <1>3, <1>6 DEF Stored, Lines, Told, Below, Unended
<1>8. Doing(w)' /\ ~Writing(w) BY <1>2, StillIdle, Idling
<1>9. s \in clean' => Exact(s)'
  <2> SUFFICES ASSUME s \in clean PROVE Exact(s)' BY <1>2
  <2>1. Exact(s) BY <1>2, <1>8, ExactNow
  <2> QED BY <1>2, <1>4, <1>6, <2>1 DEF Exact
<1>10. next <= next' /\ unread \subseteq unread' /\ clean' \subseteq clean \cup {s}
  BY <1>2, <1>3 DEF Typed
<1> QED BY <1>2, <1>4, <1>5, <1>7, <1>8, <1>9, <1>10, Frame

\* A part of a conversation is a conversation.
LEMMA PartOf ==
  ASSUME NEW h, Told(h), NEW q \in Seq(Messages), Rises(q), Elements(q) \subseteq Elements(h)
  PROVE  Told(q)
<1>1. h \in Seq(Messages) BY DEF Told
<1>2. \A x \in Elements(h) : x < next BY <1>1, ElementOf DEF Told, Below
<1>3. \A i \in 1 .. Len(q) : q[i] \in Elements(q) BY ElementOf
<1> QED BY <1>2, <1>3 DEF Told, Below

\* What is read from a file is a conversation.
LEMMA ToldByFile ==
  ASSUME NEW q, Lines(q), NEW k \in Nat
  PROVE  Told(ReadMessages(q, k))
<1> DEFINE p == ReadMessages(q, k)
<1>1. /\ q \in Seq(Line) /\ p \in Seq(Messages) /\ Rises(p)
      /\ \A m : m \in Elements(p) => \E b \in 1 .. Len(q) : b > k /\ q[b] \in Messages /\ q[b] = m
  BY Reading DEF Lines
<1> HIDE DEF p
<1>2. \A m \in Elements(p) : m < next BY <1>1 DEF Lines, Below
<1>3. \A i \in 1 .. Len(p) : p[i] \in Elements(p) BY <1>1, ElementOf
<1>4. Told(p) BY <1>1, <1>2, <1>3 DEF Told, Below
<1> QED BY <1>4 DEF p

\* The last elements of a conversation are elements of it.
LEMMA LastPart ==
  ASSUME NEW q \in Seq(Messages), Rises(q), NEW k \in Nat
  PROVE  Elements(LastOf(q, k)) \subseteq Elements(q)
<1>1. Len(q) \in Nat BY LenProperties
<1>2. CASE k >= Len(q) BY <1>2 DEF LastOf
<1>3. CASE ~(k >= Len(q))
  <2>1. LastOf(q, k) = SubSeq(q, Len(q) - k + 1, Len(q)) BY <1>3 DEF LastOf
  <2>2. Len(q) - k + 1 \in 1 .. Len(q) + 1 /\ Len(q) \in 0 .. Len(q) BY <1>1, <1>3
  <2>3. Elements(SubSeq(q, Len(q) - k + 1, Len(q))) \subseteq Elements(q) BY <2>2, Pieces
  <2> QED BY <2>1, <2>3
<1> QED BY <1>2, <1>3

\* What the new skip shows is what the caller asked to keep (Truncation).
LEMMA DataOfTruncateHistory ==
  ASSUME IInv, Data, NEW w \in Workers, NEW s \in Sessions, TruncateHistory(w, s)
  PROVE  Data'
<1>1. PICK keepLast \in 1 .. MaxMessages :
        /\ meta' = [meta EXCEPT ![s].skip = TruncatedSkip(s, keepLast),
                                ![s].count = Len(file[s])]
        /\ hist' = [hist EXCEPT ![s] = Kept(@, 0, Elements(LastOf(Visible(s), keepLast)))]
  BY DEF TruncateHistory
<1>2. /\ op[w] = Idle /\ Available(s) /\ op' = op /\ file' = file /\ tail' = tail
      /\ next' = next /\ clean' = clean /\ unread' = unread
  BY DEF TruncateHistory
<1>3. /\ Typed /\ Stored(s) /\ file[s] \in Seq(Line) /\ meta[s].skip \in Nat /\ hist[s] \in Seq(Messages)
      /\ Len(file[s]) \in Nat
  BY DataTypes DEF Data
<1>4. PICK skip, last, h :
        /\ skip = TruncatedSkip(s, keepLast) /\ last = LastOf(Visible(s), keepLast)
        /\ h = Kept(hist[s], 0, Elements(last))
  OBVIOUS
<1>5. keepLast \in Nat \ {0} BY SessionStoreAssumption
<1>6. Lines(file[s]) /\ Told(hist[s]) BY <1>3 DEF Stored
<1>7. /\ skip \in Nat /\ skip <= Len(file[s]) /\ last \in Seq(Messages)
      /\ Elements(ReadMessages(file[s], skip)) = Elements(last)
  BY <1>3, <1>4, <1>5, <1>6, Truncation DEF Lines
<1>8. Elements(last) \subseteq Elements(Visible(s))
  <2>1. Visible(s) \in Seq(Messages) /\ Rises(Visible(s))
    BY <1>3, <1>6, Reading DEF Visible, Lines
  <2> QED BY <1>4, <1>5, <2>1, LastPart
<1>9. h \in Seq(Messages) /\ Rises(h) /\ Elements(h) = Elements(hist[s]) \cap Elements(last)
  BY <1>4, <1>6, <1>7, KeptOf DEF Told
<1>10. Told(h) BY <1>6, <1>9, PartOf
<1>11. /\ hist' = [hist EXCEPT ![s] = h]
       /\ meta' = [meta EXCEPT ![s] = [@ EXCEPT !.skip = skip, !.count = Len(file[s])]]
  BY <1>1, <1>4
<1>12. /\ \A r \in Sessions : r # s => meta'[r] = meta[r] /\ hist'[r] = hist[r]
       /\ meta'[s].skip = skip /\ meta'[s].count = Len(file[s]) /\ hist'[s] = h
  BY <1>3, <1>11 DEF Typed
<1>13. Typed'
  <2> DEFINE c == [meta[s] EXCEPT !.skip = skip, !.count = Len(file[s])]
  <2>1. meta[s] \in [skip : Nat, count : Nat, summary : BOOLEAN] BY <1>3 DEF Typed
  <2>2. c \in [skip : Nat, count : Nat, summary : BOOLEAN] BY <1>3, <1>7, <2>1
  <2>3. meta' = [meta EXCEPT ![s] = c] BY <1>11
  <2> HIDE DEF c
  <2>4. meta' \in [Sessions -> [skip : Nat, count : Nat, summary : BOOLEAN]]
    BY <1>3, <2>2, <2>3 DEF Typed
  <2>5. hist' \in [Sessions -> Seq(Messages)] BY <1>3, <1>9, <1>11 DEF Typed
  <2> QED BY <1>2, <1>3, <2>4, <2>5 DEF Typed
<1>14. Visible(s)' = ReadMessages(file[s], skip) BY <1>2, <1>12 DEF Visible
<1>15. Stored(s)'
  <2>1. Lines(file[s])' /\ Told(hist[s])' BY <1>2, <1>6, <1>10, <1>12 DEF Lines, Told, Below
  <2>2. Unended(tail[s], file[s], hist[s])'
    BY <1>2, <1>3, <1>9, <1>12 DEF Stored, Unended
  <2>3. Elements(hist'[s]) \subseteq Elements(Visible(s)') \cup unread'
    BY <1>7, <1>9, <1>12, <1>14
  <2> QED BY <2>1, <2>2, <2>3 DEF Stored, Elements
<1>16. Doing(w)' /\ ~Writing(w) BY <1>2, StillIdle, Idling
<1>17. s \in clean' => Exact(s)'
  <2> SUFFICES ASSUME s \in clean PROVE Exact(s)' BY <1>2
  <2>1. Exact(s) BY <1>2, <1>16, ExactNow
  <2>2. Elements(Visible(s)') = Elements(hist'[s]) BY <1>7, <1>8, <1>9, <1>12, <1>14, <2>1 DEF Exact
  <2> QED BY <1>2, <1>7, <1>12, <2>1, <2>2 DEF Exact, Elements
<1>18. next <= next' /\ unread \subseteq unread' /\ clean' \subseteq clean \cup {s}
  BY <1>2, <1>3 DEF Typed
<1> QED BY <1>2, <1>12, <1>13, <1>15, <1>16, <1>17, <1>18, Frame

\* The callers write back a part of what they read.
LEMMA PartsOf ==
  ASSUME NEW q \in Seq(Messages), Rises(q), NEW h \in Prefixes(q) \cup Suffixes(q)
  PROVE  h \in Seq(Messages) /\ Rises(h) /\ Elements(h) \subseteq Elements(q)
<1>1. Len(q) \in Nat BY LenProperties
<1>2. CASE h \in Prefixes(q)
  <2>1. PICK k \in 0 .. Len(q) : h = SubSeq(q, 1, k) BY <1>2 DEF Prefixes
  <2>2. 1 \in 1 .. Len(q) + 1 BY <1>1
  <2>3. LET piece == SubSeq(q, 1, k)
        IN  piece \in Seq(Messages) /\ Rises(piece) /\ Elements(piece) \subseteq Elements(q)
    BY <2>2, Pieces
  <2> QED BY <2>1, <2>3
<1>3. CASE h \in Suffixes(q)
  <2>1. PICK k \in 1 .. Len(q) + 1 : h = SubSeq(q, k, Len(q)) BY <1>3 DEF Suffixes
  <2>2. Len(q) \in 0 .. Len(q) BY <1>1
  <2>3. LET piece == SubSeq(q, k, Len(q))
        IN  piece \in Seq(Messages) /\ Rises(piece) /\ Elements(piece) \subseteq Elements(q)
    BY <2>2, Pieces
  <2> QED BY <2>1, <2>3
<1> QED BY <1>2, <1>3

\* The metadata of a rewrite skips nothing: until the rewrite the reader sees more,
\* never less, than what will be left.
LEMMA DataOfSetHistory ==
  ASSUME IInv, Data, NEW w \in Workers, NEW s \in Sessions, SetHistory(w, s)
  PROVE  Data'
<1>1. PICK q \in Prefixes(Visible(s)) \cup Suffixes(Visible(s)) :
        /\ RewriteMeta(s, q)
        /\ hist' = [hist EXCEPT ![s] = Kept(@, 0, Elements(q))]
        /\ op' = [op EXCEPT ![w] = [at |-> "setRewrite", on |-> s, new |-> q]]
  BY DEF SetHistory
<1>2. PICK r : r = [at |-> "setRewrite", on |-> s, new |-> q] OBVIOUS
<1>3. r # Idle /\ r.at = "setRewrite" /\ r.on = s /\ r.new = q BY <1>2 DEF Idle
<1>4. /\ op[w] = Idle /\ Available(s) /\ op' = [op EXCEPT ![w] = r] /\ file' = file /\ tail' = tail
      /\ next' = next /\ clean' = clean /\ unread' = unread
  BY <1>1, <1>2 DEF SetHistory
<1>5. /\ op'[w] = r /\ (\A v \in Workers : v # w => op'[v] = op[v])
      /\ At(w, "setRewrite")' /\ ~At(w, "compactRewrite")' /\ Writing(w)' /\ (Rewriting(w)' => Doing(w)')
  BY <1>3, <1>4, Becomes
<1>6. /\ Typed /\ Stored(s) /\ file[s] \in Seq(Line) /\ meta[s].skip \in Nat /\ hist[s] \in Seq(Messages)
      /\ Len(file[s]) \in Nat
  BY DataTypes DEF Data
<1>7. Lines(file[s]) /\ Told(hist[s]) BY <1>6 DEF Stored
<1>8. Told(Visible(s)) BY <1>6, <1>7, ToldByFile DEF Visible
<1>9. Told(q) /\ Elements(q) \subseteq Elements(Visible(s)) /\ Len(q) \in Nat
  <2>1. q \in Seq(Messages) /\ Rises(q) /\ Elements(q) \subseteq Elements(Visible(s))
    BY <1>8, PartsOf DEF Told
  <2> QED BY <1>8, <2>1, PartOf, LenProperties
<1>10. PICK h : h = Kept(hist[s], 0, Elements(q)) OBVIOUS
<1>11. h \in Seq(Messages) /\ Rises(h) /\ Elements(h) = Elements(hist[s]) \cap Elements(q)
  BY <1>7, <1>9, <1>10, KeptOf DEF Told
<1>12. Told(h) BY <1>7, <1>11, PartOf
<1>13. /\ hist' = [hist EXCEPT ![s] = h]
       /\ meta' = [meta EXCEPT ![s] = [@ EXCEPT !.skip = 0, !.count = Len(q)]]
  BY <1>1, <1>10 DEF RewriteMeta
<1>14. /\ \A t \in Sessions : t # s => meta'[t] = meta[t] /\ hist'[t] = hist[t]
       /\ meta'[s].skip = 0 /\ meta'[s].count = Len(q) /\ hist'[s] = h
  BY <1>6, <1>13 DEF Typed
<1>15. Typed'
  <2> DEFINE c == [meta[s] EXCEPT !.skip = 0, !.count = Len(q)]
  <2>1. meta[s] \in [skip : Nat, count : Nat, summary : BOOLEAN] BY <1>6 DEF Typed
  <2>2. c \in [skip : Nat, count : Nat, summary : BOOLEAN] BY <1>9, <2>1
  <2>3. meta' = [meta EXCEPT ![s] = c] BY <1>13
  <2> HIDE DEF c
  <2>4. meta' \in [Sessions -> [skip : Nat, count : Nat, summary : BOOLEAN]]
    BY <1>6, <2>2, <2>3 DEF Typed
  <2>5. hist' \in [Sessions -> Seq(Messages)] BY <1>6, <1>11, <1>13 DEF Typed
  <2> QED BY <1>4, <1>6, <2>4, <2>5 DEF Typed
<1>16. Visible(s)' = ReadMessages(file[s], 0) BY <1>4, <1>14 DEF Visible
<1>17. Elements(Visible(s)) \subseteq Elements(ReadMessages(file[s], 0))
  BY <1>6, ReadMore DEF Visible
<1>18. Stored(s)'
  <2>1. Lines(file[s])' /\ Told(hist[s])' BY <1>4, <1>7, <1>12, <1>14 DEF Lines, Told, Below
  <2>2. Unended(tail[s], file[s], hist[s])'
    BY <1>4, <1>6, <1>11, <1>14 DEF Stored, Unended
  <2>3. Elements(hist[s]) \subseteq Elements(Visible(s)) \cup unread BY <1>6 DEF Stored
  <2>4. Elements(hist'[s]) \subseteq Elements(Visible(s)') \cup unread'
    BY <1>4, <1>11, <1>14, <1>16, <1>17, <2>3
  <2> QED BY <2>1, <2>2, <2>4 DEF Stored, Elements
<1>19. Rewriting(w)'
  <2>1. op'[w].on = s /\ op'[w].new = q BY <1>3, <1>5
  <2>2. Told(q)' BY <1>4, <1>9 DEF Told, Below
  <2>3. Elements(hist'[s]) \subseteq Elements(q) \cup unread' BY <1>11, <1>14
  <2>4. s \in clean' => Elements(q) = Elements(hist'[s])
    <3> SUFFICES ASSUME s \in clean PROVE Elements(q) = Elements(hist'[s]) BY <1>4
    <3>1. Exact(s) BY <1>4, Idling, ExactNow
    <3> QED BY <1>9, <1>11, <1>14, <3>1 DEF Exact
  <2> QED BY <1>5, <1>14, <2>1, <2>2, <2>3, <2>4 DEF Rewriting
<1>20. Writing(w)' /\ op'[w].on = s BY <1>3, <1>5
<1>21. next <= next' /\ unread \subseteq unread' /\ clean' \subseteq clean \cup {s} /\ ~Writing(w)
  BY <1>4, <1>6, Idling DEF Typed
<1> QED BY <1>4, <1>5, <1>14, <1>15, <1>18, <1>19, <1>20, <1>21, Frame

\* Compact: the same, with what a reader sees.
LEMMA DataOfCompact ==
  ASSUME IInv, Data, NEW w \in Workers, NEW s \in Sessions, Compact(w, s)
  PROVE  Data'
<1>1. PICK q : q = Visible(s) OBVIOUS
<1>2. PICK r : r = [at |-> "compactRewrite", on |-> s, new |-> q] OBVIOUS
<1>3. r # Idle /\ r.at = "compactRewrite" /\ r.on = s /\ r.new = q BY <1>2 DEF Idle
<1>4. /\ op[w] = Idle /\ Available(s) /\ op' = [op EXCEPT ![w] = r] /\ file' = file /\ tail' = tail
      /\ next' = next /\ hist' = hist /\ clean' = clean /\ unread' = unread
      /\ meta' = [meta EXCEPT ![s] = [@ EXCEPT !.skip = 0, !.count = Len(q)]]
  BY <1>1, <1>2 DEF Compact, RewriteMeta
<1>5. /\ op'[w] = r /\ (\A v \in Workers : v # w => op'[v] = op[v])
      /\ At(w, "compactRewrite")' /\ Writing(w)' /\ (Rewriting(w)' => Doing(w)')
  BY <1>3, <1>4, Becomes
<1>6. /\ Typed /\ Stored(s) /\ file[s] \in Seq(Line) /\ meta[s].skip \in Nat
  BY DataTypes DEF Data
<1>7. Told(q) /\ Len(q) \in Nat
  <2>1. Told(q) BY <1>1, <1>6, ToldByFile DEF Visible, Stored
  <2> QED BY <2>1, LenProperties DEF Told
<1>8. /\ \A t \in Sessions : t # s => meta'[t] = meta[t]
      /\ meta'[s].skip = 0 /\ meta'[s].count = Len(q)
  BY <1>4, <1>6 DEF Typed
<1>9. Typed'
  <2> DEFINE c == [meta[s] EXCEPT !.skip = 0, !.count = Len(q)]
  <2>1. meta[s] \in [skip : Nat, count : Nat, summary : BOOLEAN] BY <1>6 DEF Typed
  <2>2. c \in [skip : Nat, count : Nat, summary : BOOLEAN] BY <1>7, <2>1
  <2>3. meta' = [meta EXCEPT ![s] = c] BY <1>4
  <2> HIDE DEF c
  <2>4. meta' \in [Sessions -> [skip : Nat, count : Nat, summary : BOOLEAN]]
    BY <1>6, <2>2, <2>3 DEF Typed
  <2> QED BY <1>4, <1>6, <2>4 DEF Typed
<1>10. Visible(s)' = ReadMessages(file[s], 0) BY <1>4, <1>8 DEF Visible
<1>11. Elements(q) \subseteq Elements(ReadMessages(file[s], 0)) BY <1>1, <1>6, ReadMore DEF Visible
<1>12. Elements(hist[s]) \subseteq Elements(q) \cup unread BY <1>1, <1>6 DEF Stored
<1>13. Stored(s)'
  <2>1. Elements(hist'[s]) \subseteq Elements(Visible(s)') \cup unread'
    BY <1>4, <1>10, <1>11, <1>12
  <2> QED BY <1>4, <1>6, <2>1 DEF Stored, Elements, Lines, Told, Below, Unended
<1>14. ~Writing(w) BY <1>4, Idling
<1>15. s \in clean => Elements(q) = Elements(hist[s]) BY <1>1, <1>4, <1>14, ExactNow DEF Exact
<1>16. Rewriting(w)'
  <2>1. op'[w].on = s /\ op'[w].new = q BY <1>3, <1>5
  <2>2. Told(q)' BY <1>4, <1>7 DEF Told, Below
  <2>3. Elements(hist'[s]) \subseteq Elements(q) \cup unread' BY <1>4, <1>12
  <2>4. s \in clean' => Elements(q) = Elements(hist'[s]) BY <1>4, <1>15
  <2> QED BY <1>5, <1>8, <2>1, <2>2, <2>3, <2>4 DEF Rewriting
<1>17. Writing(w)' /\ op'[w].on = s BY <1>3, <1>5
<1>18. next <= next' /\ unread \subseteq unread' /\ clean' \subseteq clean \cup {s}
  BY <1>4, <1>6 DEF Typed
<1> QED BY <1>4, <1>5, <1>8, <1>9, <1>13, <1>14, <1>16, <1>17, <1>18, Frame

\* The second write of a rewrite: the file is what its metadata says.
LEMMA DataOfRewrites ==
  ASSUME IInv, Data, NEW w \in Workers, SetRewrite(w) \/ CompactRewrite(w)
  PROVE  Data'
<1>1. PICK s, q : s = op[w].on /\ q = op[w].new OBVIOUS
<1>2. /\ At(w, "setRewrite") \/ At(w, "compactRewrite")
      /\ op' = [op EXCEPT ![w] = Idle]
      /\ file' = [file EXCEPT ![s] = q] /\ tail' = [tail EXCEPT ![s] = "whole"]
      /\ meta' = meta /\ next' = next /\ unread' = unread
      /\ \/ hist' = [hist EXCEPT ![s] = q] /\ clean' = clean \cup {s}
         \/ At(w, "compactRewrite") /\ hist' = hist /\ clean' = clean
  BY <1>1 DEF SetRewrite, CompactRewrite, Return, SetFile
<1>3. Writing(w) BY <1>2, Writes
<1>4. s \in Sessions /\ s \in Using(w) BY <1>1, <1>3, Working
<1>5. Rewriting(w) /\ Typed /\ Stored(s) BY <1>4 DEF Data, Doing
<1>6. /\ Told(q) /\ Elements(hist[s]) \subseteq Elements(q) \cup unread
      /\ meta[s].skip = 0 /\ meta[s].count = Len(q)
      /\ s \in clean => Elements(q) = Elements(hist[s])
  BY <1>1, <1>2, <1>5 DEF Rewriting
<1>7. q \in Seq(Messages) /\ q \in Seq(Line) /\ Len(q) \in Nat /\ Lines(q)
  BY <1>6, LineFacts, LenProperties DEF Told, Lines
<1>8. /\ file'[s] = q /\ tail'[s] = "whole" /\ meta'[s] = meta[s]
      /\ \/ hist'[s] = q
         \/ At(w, "compactRewrite") /\ hist'[s] = hist[s] /\ clean' = clean
  BY <1>2, <1>4, <1>5 DEF Typed
<1>9. \A r \in Sessions : r # s => /\ file'[r] = file[r] /\ tail'[r] = tail[r]
                                   /\ meta'[r] = meta[r] /\ hist'[r] = hist[r]
  BY <1>2, <1>4, <1>5 DEF Typed
<1>10. Typed' BY <1>2, <1>4, <1>5, <1>7 DEF Typed
<1>11. Visible(s)' = q
  <2>1. ReadMessages(q, 0) = q BY <1>6, ReadAll DEF Told
  <2> QED BY <1>6, <1>8, <2>1 DEF Visible
<1>12. Told(hist[s]) BY <1>5 DEF Stored
<1>13. Stored(s)'
  <2>1. Lines(file[s])' /\ Told(hist[s])'
    BY <1>2, <1>6, <1>7, <1>8, <1>12 DEF Lines, Told, Below
  <2>2. Unended(tail[s], file[s], hist[s])' BY <1>8 DEF Unended
  <2>3. Elements(hist'[s]) \subseteq Elements(Visible(s)') \cup unread'
    BY <1>2, <1>6, <1>8, <1>11
  <2> QED BY <2>1, <2>2, <2>3 DEF Stored, Elements
<1>14. s \in clean' => Exact(s)'
  <2> SUFFICES ASSUME s \in clean' PROVE Exact(s)' OBVIOUS
  <2>1. Elements(hist'[s]) = Elements(q) BY <1>6, <1>8
  <2>2. 0 <= Len(q) BY <1>7
  <2> QED BY <1>6, <1>8, <1>11, <2>1, <2>2 DEF Exact, Elements
<1>15. /\ op'[w] = Idle /\ (\A v \in Workers : v # w => op'[v] = op[v])
       /\ Doing(w)' /\ ~Writing(w)'
  BY <1>2, BecomesIdle
<1>16. next <= next' /\ unread \subseteq unread' /\ clean' \subseteq clean \cup {s}
  BY <1>2, <1>5 DEF Typed
<1> QED BY <1>1, <1>4, <1>9, <1>10, <1>13, <1>14, <1>15, <1>16, Frame

\* An alias that holds what is to be promoted is used, and written by nobody else.
LEMMA PromotionPair ==
  ASSUME IInv, NEW w \in Workers,
         At(w, "examine") \/ At(w, "promoteMeta") \/ At(w, "rollback")
  PROVE  /\ op[w] # Idle /\ op[w].on \in Sessions /\ Alias(w) \in Sessions
         /\ op[w].on \in Using(w) /\ Alias(w) \in Using(w)
         /\ At(w, "examine") => ~Writing(w)
<1>1. Owns(w) BY DEF IInv
<1>2. op[w] # Idle /\ op[w].at \in {"examine", "promoteMeta", "rollback"} BY DEF At
<1>3. op[w].todo \in Seq(Sessions) /\ op[w].todo # <<>> /\ op[w].on \in Sessions
  BY <1>1, <1>2 DEF Owns, PromotionSteps
<1>4. Alias(w) \in Sessions BY <1>3, HeadAndTail DEF Alias
<1> QED BY <1>2, <1>3, <1>4 DEF Using, Writing, At

\* The session is empty for its readers, so all it was told is unread; what it had
\* in the file is kept in the operation (old) for the rollback.
LEMMA DataOfPromoteRewrite ==
  ASSUME IInv, Data, NEW w \in Workers, PromoteRewrite(w)
  PROVE  Data'
<1>1. PICK s, a, q : s = op[w].on /\ a = Alias(w) /\ q = Visible(a) OBVIOUS
<1>2. PICK r : r = [at |-> "promoteMeta", on |-> s, todo |-> op[w].todo,
                    old |-> file[s], oldTail |-> tail[s]]
  OBVIOUS
<1>3. /\ r # Idle /\ r.at = "promoteMeta" /\ r.on = s /\ r.todo = op[w].todo
      /\ r.old = file[s] /\ r.oldTail = tail[s]
  BY <1>2 DEF Idle
<1>4. /\ At(w, "examine") /\ Promotable(w) /\ op' = [op EXCEPT ![w] = r]
      /\ file' = [file EXCEPT ![s] = q] /\ tail' = [tail EXCEPT ![s] = "whole"]
      /\ meta' = meta /\ next' = next /\ hist' = hist /\ clean' = clean /\ unread' = unread
  BY <1>1, <1>2 DEF PromoteRewrite, SetFile
<1>5. s \in Sessions /\ s \in Using(w) /\ a \in Sessions /\ ~Writing(w) /\ s # a
  BY <1>1, <1>4, PromotionPair DEF Promotable
<1>6. /\ op'[w] = r /\ (\A v \in Workers : v # w => op'[v] = op[v])
      /\ At(w, "promoteMeta")' /\ Writing(w)' /\ (Promoting(w)' => Doing(w)')
  <2>1. r.at \in {"promoteMeta", "rollback"} /\ r.at \notin {"first", "second", "examine"} BY <1>3
  <2>2. op' = [op EXCEPT ![w] = r] /\ r # Idle BY <1>3, <1>4
  <2>3. /\ op'[w] = r /\ \A v \in Workers : v # w => op'[v] = op[v]
        /\ \A step : At(w, step)' <=> r.at = step
        /\ r.at \in {"promoteMeta", "rollback"} => (Promoting(w)' => Doing(w)')
        /\ r.at \notin {"first", "second", "examine"} => Writing(w)'
    BY <2>2, Becomes
  <2>4. At(w, "promoteMeta")' BY <1>3, <2>3
  <2> QED BY <2>1, <2>3, <2>4
<1>7. /\ Typed /\ Stored(s) /\ file[s] \in Seq(Line) /\ meta[s].skip \in Nat
      /\ Len(file[s]) \in Nat /\ tail[s] \in {"whole", "torn", "bare"} /\ hist[s] \in Seq(Messages)
  BY <1>5, DataTypes DEF Data
<1>8. Told(q) /\ Lines(q)
  <2>1. Stored(a) /\ meta[a].skip \in Nat BY <1>5, DataTypes
  <2>2. Told(q) BY <1>1, <2>1, ToldByFile DEF Visible, Stored
  <2> QED BY <2>2, LineFacts DEF Told, Lines
<1>9. Elements(Visible(s)) = {}
  <2>1. Visible(s) = <<>> BY <1>1, <1>4 DEF Promotable, HasContent
  <2> QED BY <2>1 DEF Elements
<1>10. Elements(hist[s]) \subseteq unread BY <1>7, <1>9 DEF Stored
<1>11. /\ file'[s] = q /\ tail'[s] = "whole"
       /\ \A t \in Sessions : t # s => file'[t] = file[t] /\ tail'[t] = tail[t]
  BY <1>4, <1>5, <1>7 DEF Typed
<1>12. Typed'
  <2>1. q \in Seq(Line) BY <1>8 DEF Lines
  <2> QED BY <1>4, <1>5, <1>7, <2>1 DEF Typed
<1>13. Stored(s)'
  <2>1. Lines(file[s])' BY <1>4, <1>8, <1>11 DEF Lines, Below
  <2>2. Told(hist[s])' BY <1>4, <1>7 DEF Stored, Told, Below
  <2>3. Unended(tail[s], file[s], hist[s])' BY <1>11 DEF Unended
  <2>4. Elements(hist'[s]) \subseteq unread' BY <1>4, <1>10
  <2> QED BY <2>1, <2>2, <2>3, <2>4 DEF Stored, Elements
<1>14. s \in clean => /\ Elements(hist[s]) = {} /\ meta[s].count = Len(file[s])
                      /\ meta[s].skip <= Len(file[s]) /\ tail[s] = "whole"
  BY <1>5, <1>9, ExactNow DEF Exact
<1>15. Alias(w)' = a /\ Visible(a)' = q
  <2>1. Alias(w)' = a BY <1>1, <1>3, <1>6 DEF Alias
  <2>2. Visible(a)' = Visible(a) BY <1>4, <1>5, <1>11 DEF Visible
  <2> QED BY <1>1, <2>1, <2>2
<1>16. Promoting(w)'
  <2>1. /\ op'[w].on = s /\ op'[w].old = file[s] /\ op'[w].oldTail = tail[s] BY <1>3, <1>6
  <2>2. Lines(file[s]) BY <1>7 DEF Stored
  <2>3. Lines(op[w].old)' BY <1>4, <2>1, <2>2 DEF Lines, Below
  <2>4. Unended(op[w].oldTail, op[w].old, hist[op[w].on])'
    BY <1>4, <1>7, <2>1 DEF Stored, Unended, Elements
  <2>5. file'[s] = Visible(Alias(w))' BY <1>11, <1>15
  <2>6. ReadMessages(file[s], meta[s].skip) = Visible(s) BY DEF Visible
  <2>7. s \in clean' => /\ Elements(hist'[s]) = {}
                        /\ Elements(ReadMessages(file[s], meta'[s].skip)) = {}
    BY <1>4, <1>9, <1>14, <2>6
  <2>8. Elements(hist'[s]) \subseteq unread' BY <1>4, <1>10
  <2> QED BY <1>4, <1>5, <1>7, <1>11, <1>14, <1>15, <2>1, <2>3, <2>4, <2>5, <2>7, <2>8 DEF Promoting
<1>17. Writing(w)' /\ op'[w].on = s BY <1>3, <1>6
<1>18. next <= next' /\ unread \subseteq unread' /\ clean' \subseteq clean \cup {s}
  BY <1>4, <1>7 DEF Typed
<1> QED BY <1>4, <1>5, <1>6, <1>11, <1>12, <1>13, <1>16, <1>17, <1>18, Frame

\* The promoted lines become the history.
LEMMA DataOfPromoteMeta ==
  ASSUME IInv, Data, NEW w \in Workers, PromoteMeta(w)
  PROVE  Data'
<1>1. PICK s, a, q : s = op[w].on /\ a = Alias(w) /\ q = Visible(a) OBVIOUS
<1>2. PICK m : m = [skip |-> 0, count |-> Len(q), summary |-> meta[a].summary \/ meta[s].summary]
  OBVIOUS
<1>3. m.skip = 0 /\ m.count = Len(q) BY <1>2
<1>4. /\ At(w, "promoteMeta") /\ op' = [op EXCEPT ![w] = Idle]
      /\ meta' = [meta EXCEPT ![s] = m] /\ hist' = [hist EXCEPT ![s] = q]
      /\ clean' = clean \cup {s}
      /\ file' = file /\ tail' = tail /\ next' = next /\ unread' = unread
  BY <1>1, <1>2 DEF PromoteMeta, Return
<1>5. s \in Sessions /\ s \in Using(w) /\ a \in Sessions BY <1>1, <1>4, PromotionPair
<1>6. /\ Typed /\ Stored(s) /\ Stored(a) /\ Promoting(w) /\ meta[a].skip \in Nat
  BY <1>5, DataTypes DEF Data, Doing
<1>7. file[s] = q /\ tail[s] = "whole" BY <1>1, <1>4, <1>6 DEF Promoting
<1>8. Told(q) /\ q \in Seq(Messages) /\ Len(q) \in Nat
  <2>1. Told(q) BY <1>1, <1>6, ToldByFile DEF Visible, Stored
  <2> QED BY <2>1, LenProperties DEF Told
<1>9. meta'[s] = m /\ hist'[s] = q /\ file'[s] = q /\ tail'[s] = "whole"
  BY <1>4, <1>5, <1>6, <1>7 DEF Typed
<1>10. \A t \in Sessions : t # s => meta'[t] = meta[t] /\ hist'[t] = hist[t]
  BY <1>4, <1>5, <1>6 DEF Typed
<1>11. Typed'
  <2>1. meta[a].summary \in BOOLEAN /\ meta[s].summary \in BOOLEAN BY <1>5, <1>6 DEF Typed
  <2>2. m \in [skip : Nat, count : Nat, summary : BOOLEAN] BY <1>2, <1>8, <2>1
  <2> QED BY <1>4, <1>5, <1>6, <1>8, <2>2 DEF Typed
<1>12. Visible(s)' = q
  <2>1. ReadMessages(q, 0) = q BY <1>8, ReadAll DEF Told
  <2> QED BY <1>3, <1>9, <2>1 DEF Visible
<1>13. Stored(s)'
  <2>1. Lines(q) BY <1>6, <1>7 DEF Stored
  <2>2. Lines(file[s])' /\ Told(hist[s])' BY <1>4, <1>8, <1>9, <2>1 DEF Lines, Told, Below
  <2>3. Unended(tail[s], file[s], hist[s])' BY <1>9 DEF Unended
  <2>4. Elements(hist'[s]) \subseteq Elements(Visible(s)') \cup unread' BY <1>9, <1>12
  <2> QED BY <2>2, <2>3, <2>4 DEF Stored
<1>14. s \in clean' => Exact(s)'
  <2>1. Elements(Visible(s)') = Elements(hist'[s]) BY <1>9, <1>12
  <2>2. 0 <= Len(q) BY <1>8
  <2> QED BY <1>3, <1>9, <2>1, <2>2 DEF Exact
<1>15. /\ op'[w] = Idle /\ (\A v \in Workers : v # w => op'[v] = op[v])
       /\ Doing(w)' /\ ~Writing(w)'
  BY <1>4, BecomesIdle
<1>16. next <= next' /\ unread \subseteq unread' /\ clean' \subseteq clean \cup {s}
  BY <1>4, <1>6 DEF Typed
<1> QED BY <1>1, <1>4, <1>5, <1>10, <1>11, <1>13, <1>14, <1>15, <1>16, Frame

\* The rollback has the same to restore.
LEMMA DataOfPromoteMetaFails ==
  ASSUME IInv, Data, NEW w \in Workers, PromoteMetaFails(w)
  PROVE  Data'
<1>1. PICK s, r : s = op[w].on /\ r = [at |-> "rollback", on |-> s, todo |-> op[w].todo,
                                       old |-> op[w].old, oldTail |-> op[w].oldTail]
  OBVIOUS
<1>2. /\ r # Idle /\ r.at = "rollback" /\ r.on = s /\ r.todo = op[w].todo
      /\ r.old = op[w].old /\ r.oldTail = op[w].oldTail
  BY <1>1 DEF Idle
<1>3. /\ At(w, "promoteMeta") /\ op' = [op EXCEPT ![w] = r]
      /\ file' = file /\ tail' = tail /\ meta' = meta /\ next' = next /\ hist' = hist
      /\ clean' = clean /\ unread' = unread
  BY <1>1 DEF PromoteMetaFails
<1>4. s \in Sessions /\ s \in Using(w) BY <1>1, <1>3, PromotionPair
<1>5. Typed /\ Stored(s) /\ Promoting(w) BY <1>4 DEF Data, Doing
<1>6. /\ op'[w] = r /\ (\A v \in Workers : v # w => op'[v] = op[v])
      /\ At(w, "rollback")' /\ Writing(w)' /\ (Promoting(w)' => Doing(w)')
  <2>1. r.at \in {"promoteMeta", "rollback"} /\ r.at \notin {"first", "second", "examine"} BY <1>2
  <2>2. /\ op'[w] = r /\ \A v \in Workers : v # w => op'[v] = op[v]
        /\ \A step : At(w, step)' <=> r.at = step
        /\ r.at \in {"promoteMeta", "rollback"} => (Promoting(w)' => Doing(w)')
        /\ r.at \notin {"first", "second", "examine"} => Writing(w)'
    BY <1>2, <1>3, Becomes
  <2>3. At(w, "rollback")' BY <1>2, <2>2
  <2> QED BY <2>1, <2>2, <2>3
<1>7. Typed' /\ Stored(s)'
  BY <1>3, <1>5 DEF Typed, Stored, Visible, Lines, Told, Below, Unended
<1>8. Promoting(w)'
  <2>1. op'[w].on = s /\ op'[w].old = op[w].old /\ op'[w].oldTail = op[w].oldTail BY <1>2, <1>6
  <2>2. Alias(w)' = Alias(w) BY <1>2, <1>6 DEF Alias
  <2>3. \A x : Visible(x)' = Visible(x) BY <1>3 DEF Visible
  <2>4. Lines(op[w].old)' BY <1>3, <1>5, <2>1 DEF Promoting, Lines, Below
  <2>5. Unended(op[w].oldTail, op[w].old, hist[op[w].on])'
    BY <1>1, <1>3, <1>5, <2>1 DEF Promoting, Unended
  <2> QED BY <1>1, <1>3, <1>5, <2>1, <2>2, <2>3, <2>4, <2>5 DEF Promoting
<1>9. Writing(w)' /\ op'[w].on = s BY <1>2, <1>6
<1>10. next <= next' /\ unread \subseteq unread' /\ clean' \subseteq clean \cup {s}
  BY <1>3, <1>5 DEF Typed
<1> QED BY <1>1, <1>3, <1>4, <1>6, <1>7, <1>8, <1>9, <1>10, Frame

\* The file is again what the metadata describe.
LEMMA DataOfPromoteRollback ==
  ASSUME IInv, Data, NEW w \in Workers, PromoteRollback(w)
  PROVE  Data'
<1>1. PICK s, q, t : s = op[w].on /\ q = op[w].old /\ t = op[w].oldTail OBVIOUS
<1>2. /\ At(w, "rollback") /\ op' = [op EXCEPT ![w] = Idle]
      /\ file' = [file EXCEPT ![s] = q] /\ tail' = [tail EXCEPT ![s] = t]
      /\ meta' = meta /\ next' = next /\ hist' = hist /\ clean' = clean /\ unread' = unread
  BY <1>1 DEF PromoteRollback, Return
<1>3. s \in Sessions /\ s \in Using(w) BY <1>1, <1>2, PromotionPair
<1>4. Typed /\ Stored(s) /\ Promoting(w) BY <1>3 DEF Data, Doing
<1>5. /\ Lines(q) /\ t \in {"whole", "torn", "bare"} /\ Unended(t, q, hist[s])
      /\ Elements(hist[s]) \subseteq unread
      /\ s \in clean => /\ Elements(hist[s]) = {} /\ Elements(ReadMessages(q, meta[s].skip)) = {}
                        /\ meta[s].count = Len(q) /\ meta[s].skip <= Len(q)
                        /\ t = "whole"
  BY <1>1, <1>2, <1>4 DEF Promoting
<1>6. /\ file'[s] = q /\ tail'[s] = t
      /\ \A r \in Sessions : r # s => file'[r] = file[r] /\ tail'[r] = tail[r]
  BY <1>2, <1>3, <1>4 DEF Typed
<1>7. Typed'
  <2>1. q \in Seq(Line) BY <1>5 DEF Lines
  <2> QED BY <1>2, <1>3, <1>4, <1>5, <2>1 DEF Typed
<1>8. Visible(s)' = ReadMessages(q, meta[s].skip) BY <1>2, <1>6 DEF Visible
<1>9. Stored(s)'
  <2>1. Lines(file[s])' BY <1>2, <1>5, <1>6 DEF Lines, Below
  <2>2. Told(hist[s])' BY <1>2, <1>4 DEF Stored, Told, Below
  <2>3. Unended(tail[s], file[s], hist[s])' BY <1>2, <1>5, <1>6 DEF Unended
  <2>4. Elements(hist'[s]) \subseteq unread' BY <1>2, <1>5
  <2> QED BY <2>1, <2>2, <2>3, <2>4 DEF Stored
<1>10. s \in clean' => Exact(s)'
  <2> SUFFICES ASSUME s \in clean PROVE Exact(s)' BY <1>2
  <2>1. Elements(Visible(s)') = Elements(hist'[s]) BY <1>2, <1>5, <1>8
  <2> QED BY <1>2, <1>5, <1>6, <2>1 DEF Exact
<1>11. /\ op'[w] = Idle /\ (\A v \in Workers : v # w => op'[v] = op[v])
       /\ Doing(w)' /\ ~Writing(w)'
  BY <1>2, BecomesIdle
<1>12. next <= next' /\ unread \subseteq unread' /\ clean' \subseteq clean \cup {s}
  BY <1>2, <1>4 DEF Typed
<1> QED BY <1>1, <1>2, <1>3, <1>6, <1>7, <1>9, <1>10, <1>11, <1>12, Frame

\* The session is no longer clean; what was written first is good as it is.
LEMMA DataOfSecondWriteFails ==
  ASSUME IInv, Data, NEW w \in Workers, SecondWriteFails(w)
  PROVE  Data'
<1>1. PICK s : s = op[w].on OBVIOUS
<1>2. /\ op' = [op EXCEPT ![w] = Idle] /\ clean' = clean \ {s}
      /\ file' = file /\ tail' = tail /\ meta' = meta /\ next' = next /\ hist' = hist
      /\ unread' = unread
  BY <1>1 DEF SecondWriteFails, Return
<1>3. Writing(w) BY Writes DEF SecondWriteFails
<1>4. s \in Sessions /\ s \in Using(w) BY <1>1, <1>3, Working
<1>5. Typed /\ Stored(s) BY <1>4 DEF Data
<1>6. Typed' /\ Stored(s)'
  BY <1>2, <1>5 DEF Typed, Stored, Visible, Lines, Told, Below, Unended
<1>7. /\ op'[w] = Idle /\ (\A v \in Workers : v # w => op'[v] = op[v])
      /\ Doing(w)' /\ ~Writing(w)'
  BY <1>2, BecomesIdle
<1>8. next <= next' /\ unread \subseteq unread' /\ clean' \subseteq clean \cup {s} /\ s \notin clean'
  BY <1>2, <1>5 DEF Typed
<1> QED BY <1>1, <1>2, <1>4, <1>6, <1>7, <1>8, Frame

\* So it is for every operation a crash ends.
LEMMA DataOfCrash ==
  ASSUME Data, Crash
  PROVE  Data'
<1>1. /\ op' = [w \in Workers |-> Idle]
      /\ clean' = clean \ {op[w].on : w \in {v \in Workers : Writing(v)}}
      /\ file' = file /\ tail' = tail /\ meta' = meta /\ next' = next /\ hist' = hist
      /\ unread' = unread
  BY DEF Crash
<1>2. \A v \in Workers : Doing(v)' BY <1>1, StillIdle
<1>3. \A s \in Sessions : Stored(s)'
  BY <1>1 DEF Data, Stored, Visible, Lines, Told, Below, Unended
<1>4. ASSUME NEW s \in clean' PROVE Exact(s)'
  <2>1. s \in clean /\ Settled(s) BY <1>1 DEF Settled
  <2>2. Exact(s) BY <2>1 DEF Data
  <2> QED BY <1>1, <2>2 DEF Exact, Visible
<1>5. Typed' BY <1>1 DEF Data, Typed
<1> QED BY <1>2, <1>3, <1>4, <1>5 DEF Data

\* The steps that write nothing: a promotion that goes on, or ends.
LEMMA DataOfPromotionSteps ==
  ASSUME IInv, Data, NEW w \in Workers,
         \/ \E s \in Sessions : PromoteStart(w, s)
         \/ PromoteFirst(w) \/ PromoteSecond(w) \/ PromoteNothing(w) \/ PromoteRewriteFails(w)
  PROVE  Data'
<1>1. UNCHANGED <<file, tail, meta, next, hist, clean, unread>>
  BY DEF PromoteStart, PromoteFirst, PromoteSecond, PromoteNothing, PromoteRewriteFails
<1>2. ~Writing(w)
  BY DEF PromoteStart, PromoteFirst, PromoteSecond, PromoteNothing, PromoteRewriteFails, At, Writing
<1>3. PICK r : op' = [op EXCEPT ![w] = r] /\ (r = Idle \/ r.at \in {"first", "second", "examine"})
  <2>1. CASE \E s \in Sessions : PromoteStart(w, s)
    <3>1. PICK s \in Sessions : op' = [op EXCEPT ![w] = [at |-> "first", on |-> s, todo |-> Aliases[s]]]
      BY <2>1 DEF PromoteStart
    <3>2. PICK r : r = [at |-> "first", on |-> s, todo |-> Aliases[s]] OBVIOUS
    <3>3. r.at = "first" /\ op' = [op EXCEPT ![w] = r] BY <3>1, <3>2
    <3> QED BY <3>3
  <2>2. CASE PromoteFirst(w) \/ PromoteSecond(w)
    <3>1. PICK step \in {"examine", "second"} :
            op' = [op EXCEPT ![w] = [at |-> step, on |-> op[w].on, todo |-> op[w].todo]]
      BY <2>2 DEF PromoteFirst, PromoteSecond, Goto
    <3>2. PICK r : r = [at |-> step, on |-> op[w].on, todo |-> op[w].todo] OBVIOUS
    <3>3. r.at = step /\ op' = [op EXCEPT ![w] = r] BY <3>1, <3>2
    <3> QED BY <3>3
  <2>3. CASE PromoteNothing(w)
    <3>1. \/ op' = [op EXCEPT ![w] = Idle]
          \/ op' = [op EXCEPT ![w] = [at |-> "first", on |-> op[w].on, todo |-> Tail(op[w].todo)]]
      BY <2>3 DEF PromoteNothing, NextAlias
    <3>2. PICK r : r = [at |-> "first", on |-> op[w].on, todo |-> Tail(op[w].todo)] OBVIOUS
    <3>3. r.at = "first" BY <3>2
    <3>4. op' = [op EXCEPT ![w] = Idle] \/ op' = [op EXCEPT ![w] = r] BY <3>1, <3>2
    <3> QED BY <3>3, <3>4
  <2>4. CASE PromoteRewriteFails(w)
    BY <2>4 DEF PromoteRewriteFails, Return
  <2> QED BY <2>1, <2>2, <2>3, <2>4
<1>4. op'[w] = r /\ \A v \in Workers : v # w => op'[v] = op[v] BY <1>3 DEF IInv
<1>5. ~Writing(w)' BY <1>3, <1>4 DEF Writing
<1> QED BY <1>1, <1>2, <1>4, <1>5, NothingWritten

\* The invariant of the data is inductive, given that of the locks: one step per
\* action.
LEMMA DataInductive == IInv /\ Data /\ [Next]_vars => Data'
<1> SUFFICES ASSUME IInv, Data, [Next]_vars PROVE Data'
  OBVIOUS
<1>1. ASSUME NEW w \in Workers, NEW s \in Sessions,
             \/ AddAppend(w, s) \/ AddTear(w, s) \/ SetSummary(w, s) \/ TruncateHistory(w, s)
             \/ SetHistory(w, s) \/ Compact(w, s) \/ PromoteStart(w, s)
      PROVE  Data'
  <2>1. CASE AddAppend(w, s) BY <2>1, DataOfAddAppend
  <2>2. CASE AddTear(w, s) BY <2>2, DataOfAddTear
  <2>3. CASE SetSummary(w, s) BY <2>3, DataOfSetSummary
  <2>4. CASE TruncateHistory(w, s) BY <2>4, DataOfTruncateHistory
  <2>5. CASE SetHistory(w, s) BY <2>5, DataOfSetHistory
  <2>6. CASE Compact(w, s) BY <2>6, DataOfCompact
  <2>7. CASE PromoteStart(w, s) BY <2>7, DataOfPromotionSteps
  <2> QED BY <1>1, <2>1, <2>2, <2>3, <2>4, <2>5, <2>6, <2>7
<1>2. ASSUME NEW w \in Workers,
             \/ AddMeta(w) \/ SetRewrite(w) \/ CompactRewrite(w)
             \/ PromoteFirst(w) \/ PromoteSecond(w) \/ PromoteNothing(w) \/ PromoteRewrite(w)
             \/ PromoteRewriteFails(w)
             \/ PromoteMeta(w) \/ PromoteMetaFails(w) \/ PromoteRollback(w) \/ SecondWriteFails(w)
      PROVE  Data'
  <2>1. CASE AddMeta(w) BY <2>1, DataOfAddMeta
  <2>2. CASE SetRewrite(w) \/ CompactRewrite(w) BY <2>2, DataOfRewrites
  <2>3. CASE PromoteFirst(w) \/ PromoteSecond(w) \/ PromoteNothing(w) \/ PromoteRewriteFails(w)
    BY <2>3, DataOfPromotionSteps
  <2>4. CASE PromoteRewrite(w) BY <2>4, DataOfPromoteRewrite
  <2>5. CASE PromoteMeta(w) BY <2>5, DataOfPromoteMeta
  <2>6. CASE PromoteMetaFails(w) BY <2>6, DataOfPromoteMetaFails
  <2>7. CASE PromoteRollback(w) BY <2>7, DataOfPromoteRollback
  <2>8. CASE SecondWriteFails(w) BY <2>8, DataOfSecondWriteFails
  <2> QED BY <1>2, <2>1, <2>2, <2>3, <2>4, <2>5, <2>6, <2>7, <2>8
<1>3. CASE Crash BY <1>3, DataOfCrash
<1>4. CASE UNCHANGED vars BY <1>4, NothingWritten DEF vars
<1> QED BY <1>1, <1>2, <1>3, <1>4 DEF Next, Operation

\* Nothing is stored.
LEMMA DataInitially == Init => Data
<1> SUFFICES ASSUME Init PROVE Data OBVIOUS
<1>1. /\ file = [s \in Sessions |-> <<>>] /\ tail = [s \in Sessions |-> "whole"]
      /\ meta = [s \in Sessions |-> [skip |-> 0, count |-> 0, summary |-> FALSE]]
      /\ op = [w \in Workers |-> Idle] /\ next = 1 /\ hist = [s \in Sessions |-> <<>>]
      /\ clean = Sessions
  BY DEF Init
<1>2. Typed
  <2>1. <<>> \in Seq(Line) /\ <<>> \in Seq(Messages) BY EmptySeq
  <2> QED BY <1>1, <2>1 DEF Typed
<1>3. Elements(<<>>) = {} /\ Len(<<>>) = 0 BY DEF Elements
<1>4. Told(<<>>) /\ Lines(<<>>)
  <2>1. <<>> \in Seq(Line) /\ <<>> \in Seq(Messages) BY EmptySeq
  <2>2. 1 .. Len(<<>>) = {} BY <1>3
  <2> QED BY <2>1, <2>2 DEF Told, Lines, Rises, Below
<1>5. ASSUME NEW s \in Sessions PROVE Stored(s) /\ Exact(s)
  <2>1. /\ file[s] = <<>> /\ tail[s] = "whole" /\ hist[s] = <<>>
        /\ meta[s].skip = 0 /\ meta[s].count = 0
    BY <1>1
  <2>2. Visible(s) = <<>>
    <3>1. Rises(<<>>) /\ <<>> \in Seq(Messages) BY <1>4 DEF Told
    <3> QED BY <2>1, <3>1, ReadAll DEF Visible
  <2> QED BY <1>3, <1>4, <2>1, <2>2 DEF Stored, Exact, Unended
<1>6. \A v \in Workers : Doing(v) BY <1>1, Idling
<1> QED BY <1>1, <1>2, <1>5, <1>6 DEF Data

-----------------------------------------------------------------------------
\* In every reachable state the files, the arguments of the operations under
\* way and what callers were told fit together, whatever failed or crashed.
THEOREM DataHolds == Spec => []Data
<1> QED BY DataInitially, DataInductive, WorkersHoldTheirLocks, PTL DEF Spec

\* A message whose append succeeded, and that no later truncation or rewrite
\* gave up, is still read back unless it was appended in vain: for every number
\* of messages, sessions, goroutines, failures and crashes.
THEOREM NothingElseIsLostHolds == Spec => []NothingElseIsLost
<1>1. Data => NothingElseIsLost BY DEF Data, Stored, NothingElseIsLost
<1> QED BY <1>1, DataHolds, PTL

\* Readers never see a message twice, and see them in the order in which they
\* were appended, however often operations stop half-way.
THEOREM VisibleInOrderHolds == Spec => []VisibleInOrder
<1>1. ASSUME Data PROVE VisibleInOrder
  <2> SUFFICES ASSUME NEW s \in Sessions, NEW i \in DOMAIN Visible(s), NEW j \in DOMAIN Visible(s),
                      i < j
               PROVE  Visible(s)[i] < Visible(s)[j]
    BY DEF VisibleInOrder
  <2>1. Stored(s) /\ meta[s].skip \in Nat BY <1>1, DataTypes
  <2>2. Told(Visible(s)) BY <2>1, ToldByFile DEF Visible, Stored
  <2>3. DOMAIN Visible(s) = 1 .. Len(Visible(s)) BY <2>2, LenProperties DEF Told
  <2>4. Visible(s)[i] # Junk /\ Visible(s)[j] # Junk
    BY <2>2, <2>3, ElementOfSeq, LineFacts DEF Told
  <2> QED BY <2>2, <2>3, <2>4 DEF Told, Rises
<1> QED BY <1>1, DataHolds, PTL

\* A session that no operation is working on, and with no failed operation since
\* its last full rewrite, reads back as exactly what callers were told, and its
\* count is that of its lines.
THEOREM ExactWhenCleanHolds == Spec => []ExactWhenClean
<1>1. ASSUME Data PROVE ExactWhenClean
  <2> SUFFICES ASSUME NEW s \in clean, \A w \in Workers : s \notin Using(w)
               PROVE  /\ Visible(s) = hist[s]
                      /\ meta[s].count = Len(file[s])
                      /\ tail[s] = "whole"
    BY DEF ExactWhenClean
  <2>1. s \in Sessions BY <1>1 DEF Data, Typed
  <2>2. Settled(s) BY Writes DEF Settled
  <2>3. Exact(s) BY <1>1, <2>2 DEF Data
  <2>4. Stored(s) /\ meta[s].skip \in Nat BY <1>1, <2>1, DataTypes
  <2>5. Told(Visible(s)) /\ Told(hist[s]) BY <2>4, ToldByFile DEF Visible, Stored
  <2>6. Visible(s) = hist[s] BY <2>3, <2>5, SameMessages DEF Told, Exact
  <2> QED BY <2>3, <2>6 DEF Exact
<1> QED BY <1>1, DataHolds, PTL

-----------------------------------------------------------------------------
(***************************************************************************)
(* The store implements the plain logs of SessionLog.                      *)
(***************************************************************************)

\* A conversation is a log in order.
LEMMA ToldInOrder ==
  ASSUME NEW q, Told(q)
  PROVE  q \in Seq(Messages) /\ Log!InOrder(q)
<1>1. q \in Seq(Messages) /\ DOMAIN q = 1 .. Len(q) BY LenProperties DEF Told
<1>2. \A i \in DOMAIN q : q[i] # Junk BY <1>1, ElementOfSeq, LineFacts
<1> QED BY <1>1, <1>2 DEF Told, Rises, Log!InOrder

\* What readers see of a clean session that w may use is the log, if w is not
\* half-way in writing it.
LEMMA VisibleIsLog ==
  ASSUME IInv, Data, NEW w \in Workers, NEW s \in clean, Available(s) \/ s \in Using(w),
         Writing(w) => op[w].on # s
  PROVE  Visible(s) = hist[s]
<1>0. s \in Sessions BY DEF Data, Typed
<1>1. \A v \in Workers : v # w => s \notin Using(v) BY <1>0, Apart
<1>2. Settled(s) BY <1>1, Writes DEF Settled
<1>3. Exact(s) BY <1>2 DEF Data
<1>4. Stored(s) /\ meta[s].skip \in Nat BY <1>0, DataTypes
<1>5. Told(Visible(s)) /\ Told(hist[s]) BY <1>4, ToldByFile DEF Visible, Stored
<1> QED BY <1>3, <1>5, SameMessages DEF Told, Exact

\* Filtering a conversation by a part of it gives the part.
LEMMA KeepsPart ==
  ASSUME NEW q, Told(q), NEW h \in Seq(Messages), Rises(h), Elements(h) \subseteq Elements(q)
  PROVE  Kept(q, 0, Elements(h)) = h
<1>1. LET kept == Kept(q, 0, Elements(h))
      IN  /\ kept \in Seq(Messages) /\ Rises(kept)
          /\ Elements(kept) = Elements(q) \cap Elements(h)
  BY KeptOf DEF Told
<1>2. PICK k : k = Kept(q, 0, Elements(h)) OBVIOUS
<1>3. k \in Seq(Messages) /\ Rises(k) /\ Elements(k) = Elements(h) BY <1>1, <1>2
<1> QED BY <1>2, <1>3, SameMessages

\* A truncation, or the first write of a rewrite, keeps what is asked for of a
\* clean session, and some of a damaged one.
LEMMA KeepOrLose ==
  ASSUME IInv, Data, NEW w \in Workers, op[w] = Idle, NEW s \in Sessions, Available(s),
         NEW part \in Prefixes(Visible(s)) \cup Suffixes(Visible(s)),
         hist' = [hist EXCEPT ![s] = Kept(@, 0, Elements(part))], clean' = clean
  PROVE  Log!Keep(s) \/ Log!Lose(s)
<1>1. /\ Stored(s) /\ meta[s].skip \in Nat /\ hist \in [Sessions -> Seq(Messages)]
  BY DataTypes DEF Data, Typed
<1>2. Told(Visible(s)) /\ Told(hist[s]) BY <1>1, ToldByFile DEF Visible, Stored
<1>3. part \in Seq(Messages) /\ Rises(part) /\ Elements(part) \subseteq Elements(Visible(s))
  BY <1>2, PartsOf DEF Told
<1>4. CASE s \in clean
  <2>1. Visible(s) = hist[s] BY <1>4, Idling, VisibleIsLog
  <2>2. Kept(hist[s], 0, Elements(part)) = part BY <1>2, <1>3, <2>1, KeepsPart
  <2>3. hist' = [hist EXCEPT ![s] = part] BY <2>2
  <2>4. Len(hist[s]) \in Nat BY <1>1, LenProperties
  <2>5. \E k \in 0 .. Len(hist[s]) :
          part \in {SubSeq(hist[s], 1, k), SubSeq(hist[s], k + 1, Len(hist[s]))}
    <3>1. CASE part \in Prefixes(hist[s]) BY <3>1 DEF Prefixes
    <3>2. CASE part \in Suffixes(hist[s])
      <4>1. PICK k \in 1 .. Len(hist[s]) + 1 : part = SubSeq(hist[s], k, Len(hist[s]))
        BY <3>2 DEF Suffixes
      <4>2. k - 1 \in 0 .. Len(hist[s]) /\ (k - 1) + 1 = k BY <2>4
      <4> QED BY <4>1, <4>2
    <3> QED BY <2>1, <3>1, <3>2
  <2> QED BY <1>4, <2>3, <2>5 DEF Log!Keep
<1>5. CASE s \notin clean
  <2>1. PICK h : h = Kept(hist[s], 0, Elements(part)) OBVIOUS
  <2>2. h \in Seq(Messages) /\ Rises(h) /\ Elements(h) = Elements(hist[s]) \cap Elements(part)
    BY <1>2, <1>3, <2>1, KeptOf DEF Told
  <2>3. Told(h) BY <1>2, <2>2, PartOf
  <2>4. hist' = [hist EXCEPT ![s] = h] /\ hist'[s] = h BY <1>1, <2>1
  <2>5. Log!Rewritten(s) BY <2>3, <2>4, ToldInOrder DEF Log!Rewritten
  <2>6. Log!Within(hist'[s], hist[s])
    <3>1. \A i \in DOMAIN h : h[i] \in Elements(h) BY DEF Elements
    <3>2. \A x \in Elements(hist[s]) : \E j \in DOMAIN hist[s] : x = hist[s][j] BY DEF Elements
    <3>3. \A i \in DOMAIN h : \E j \in DOMAIN hist[s] : h[i] = hist[s][j]
      BY <2>2, <3>1, <3>2
    <3> QED BY <2>4, <3>3 DEF Log!Within
  <2> QED BY <1>5, <2>5, <2>6 DEF Log!Lose
<1> QED BY <1>4, <1>5

\* The log of s is written anew, and s is clean.
LEMMA Anew ==
  ASSUME Data, NEW s \in Sessions, s \notin clean, NEW q, Told(q),
         hist' = [hist EXCEPT ![s] = q], clean' = clean \cup {s}
  PROVE  Log!Repair(s)
<1>1. hist'[s] = q BY DEF Data, Typed
<1>2. Log!Rewritten(s) BY <1>1, ToldInOrder DEF Log!Rewritten
<1> QED BY <1>2 DEF Log!Repair

\* The operations that add, keep or rewrite.
LEMMA OperationsKeepLog ==
  ASSUME IInv, Data, NEW w \in Workers,
         \/ AddMeta(w) \/ SetRewrite(w)
         \/ \E s \in Sessions : TruncateHistory(w, s) \/ SetHistory(w, s)
  PROVE  [Log!Next]_(Log!vars)
<1>1. CASE AddMeta(w)
  <2>1. PICK s, m : s = op[w].on /\ m = op[w].msg OBVIOUS
  <2>2. At(w, "addMeta") /\ hist' = [hist EXCEPT ![s] = Append(@, m)] /\ clean' = clean
    BY <1>1, <2>1 DEF AddMeta
  <2>3. s \in Sessions /\ Adding(w) BY <2>1, <2>2, Writes, Working DEF Data, Doing
  <2>4. m \in Messages /\ \A x \in Elements(hist[s]) : x < m
    BY <2>1, <2>2, <2>3 DEF Adding
  <2>5. Log!Add(s) BY <2>2, <2>4 DEF Log!Add, Elements
  <2> QED BY <2>3, <2>5 DEF Log!Next
<1>2. CASE SetRewrite(w)
  <2>1. PICK s, q : s = op[w].on /\ q = op[w].new OBVIOUS
  <2>2. At(w, "setRewrite") /\ hist' = [hist EXCEPT ![s] = q] /\ clean' = clean \cup {s}
    BY <1>2, <2>1 DEF SetRewrite
  <2>3. s \in Sessions /\ Rewriting(w) BY <2>1, <2>2, Writes, Working DEF Data, Doing
  <2>4. Told(q) /\ (s \in clean => Elements(q) = Elements(hist[s]))
    BY <2>1, <2>2, <2>3 DEF Rewriting
  <2>5. CASE s \in clean
    <3>1. Told(hist[s]) BY <2>3, DataTypes DEF Stored
    <3>2. q = hist[s] BY <2>4, <2>5, <3>1, SameMessages DEF Told
    <3>3. hist' = hist BY <2>2, <2>3, <3>2 DEF Data, Typed
    <3>4. clean' = clean BY <2>2, <2>5
    <3> QED BY <3>3, <3>4 DEF Log!vars
  <2>6. CASE s \notin clean
    <3>1. Log!Repair(s) BY <2>2, <2>3, <2>4, <2>6, Anew
    <3> QED BY <2>3, <3>1 DEF Log!Next
  <2> QED BY <2>5, <2>6
<1>3. ASSUME NEW s \in Sessions, TruncateHistory(w, s) PROVE [Log!Next]_(Log!vars)
  <2>1. PICK k \in 1 .. MaxMessages :
          hist' = [hist EXCEPT ![s] = Kept(@, 0, Elements(LastOf(Visible(s), k)))]
    BY <1>3 DEF TruncateHistory
  <2>2. op[w] = Idle /\ Available(s) /\ clean' = clean BY <1>3 DEF TruncateHistory
  <2>3. LastOf(Visible(s), k) \in Prefixes(Visible(s)) \cup Suffixes(Visible(s))
    <3>1. Told(Visible(s)) BY DataTypes, ToldByFile DEF Visible, Stored
    <3>2. Visible(s) \in Seq(Messages) /\ Len(Visible(s)) \in Nat BY <3>1, LenProperties DEF Told
    <3>3. CASE k >= Len(Visible(s))
      <4>1. SubSeq(Visible(s), 1, Len(Visible(s))) = Visible(s) BY <3>2
      <4>2. Len(Visible(s)) \in 0 .. Len(Visible(s)) BY <3>2
      <4>3. LastOf(Visible(s), k) = SubSeq(Visible(s), 1, Len(Visible(s)))
        BY <3>3, <4>1 DEF LastOf
      <4> QED BY <4>2, <4>3 DEF Prefixes
    <3>4. CASE ~(k >= Len(Visible(s)))
      <4>1. Len(Visible(s)) - k + 1 \in 1 .. Len(Visible(s)) + 1 BY <3>2, <3>4
      <4>2. LastOf(Visible(s), k) = SubSeq(Visible(s), Len(Visible(s)) - k + 1, Len(Visible(s)))
        BY <3>4 DEF LastOf
      <4> QED BY <4>1, <4>2 DEF Suffixes
    <3> QED BY <3>3, <3>4
  <2>4. Log!Keep(s) \/ Log!Lose(s) BY <2>1, <2>2, <2>3, KeepOrLose
  <2> QED BY <2>4 DEF Log!Next
<1>4. ASSUME NEW s \in Sessions, SetHistory(w, s) PROVE [Log!Next]_(Log!vars)
  <2>1. PICK h \in Prefixes(Visible(s)) \cup Suffixes(Visible(s)) :
          hist' = [hist EXCEPT ![s] = Kept(@, 0, Elements(h))]
    BY <1>4 DEF SetHistory
  <2>2. op[w] = Idle /\ Available(s) /\ clean' = clean BY <1>4 DEF SetHistory
  <2>3. Log!Keep(s) \/ Log!Lose(s) BY <2>1, <2>2, KeepOrLose
  <2> QED BY <2>3 DEF Log!Next
<1> QED BY <1>1, <1>2, <1>3, <1>4

\* A promotion: of a clean alias, what its callers were told; nobody is half-way
\* in writing it, for the promotion holds its mutex.
LEMMA PromotionKeepsLog ==
  ASSUME IInv, Data, NEW w \in Workers, PromoteMeta(w)
  PROVE  [Log!Next]_(Log!vars)
<1>1. PICK s, a, q : s = op[w].on /\ a = Alias(w) /\ q = Visible(a) OBVIOUS
<1>2. At(w, "promoteMeta") /\ hist' = [hist EXCEPT ![s] = q] /\ clean' = clean \cup {s}
  BY <1>1 DEF PromoteMeta
<1>3. s \in Sessions /\ a \in Sessions /\ a \in Using(w) BY <1>1, <1>2, PromotionPair
<1>4. /\ Promoting(w) /\ Stored(a) /\ meta[a].skip \in Nat /\ hist \in [Sessions -> Seq(Messages)]
  BY <1>3, DataTypes DEF Data, Doing, Typed
<1>5. Told(q) BY <1>1, <1>4, ToldByFile DEF Visible, Stored
<1>6. s # a /\ (s \in clean => Elements(hist[s]) = {}) BY <1>1, <1>2, <1>4 DEF Promoting
<1>7. CASE s \notin clean
  <2>1. Log!Repair(s) BY <1>2, <1>3, <1>5, <1>7, Anew
  <2> QED BY <1>3, <2>1 DEF Log!Next
<1>8. CASE s \in clean
  <2>1. hist[s] = <<>>
    <3>1. DOMAIN hist[s] = {} BY <1>6, <1>8 DEF Elements
    <3>2. hist[s] \in Seq(Messages) /\ DOMAIN hist[s] = 1 .. Len(hist[s]) /\ Len(hist[s]) \in Nat
      BY <1>3, <1>4, LenProperties
    <3>3. Len(hist[s]) = 0
      <4> SUFFICES ASSUME Len(hist[s]) # 0 PROVE FALSE OBVIOUS
      <4>1. 1 \in 1 .. Len(hist[s]) BY <3>2
      <4> QED BY <3>1, <3>2, <4>1
    <3> QED BY <3>2, <3>3, EmptySeq
  <2>2. clean' = clean BY <1>2, <1>8
  <2>3. a \in clean => q = hist[a] BY <1>1, <1>3, <1>6, VisibleIsLog
  <2>4. Log!Rewritten(s)
    <3>1. hist'[s] = q BY <1>2, <1>3, <1>4
    <3> QED BY <1>2, <1>5, <3>1, ToldInOrder DEF Log!Rewritten
  <2>5. Log!Promote(s, a) BY <1>2, <1>6, <1>8, <2>1, <2>2, <2>3, <2>4, <1>3 DEF Log!Promote
  <2> QED BY <1>3, <2>5 DEF Log!Next
<1> QED BY <1>7, <1>8

\* Every other step writes no log; if it fails, it damages.
LEMMA OthersKeepLog ==
  ASSUME hist' = hist, clean' \subseteq clean, clean \subseteq Sessions
  PROVE  [Log!Next]_(Log!vars)
<1>1. Log!Damage BY DEF Log!Damage
<1> QED BY <1>1 DEF Log!Next

\* The store's steps, with all their writes, locks, failures and crashes, are
\* steps of the plain logs of SessionLog or change nothing it speaks of: for any
\* number of sessions, goroutines and messages, an operation on a session that
\* nothing has damaged takes effect at once, and a failure is felt in the session
\* it hit and no other.
THEOREM StoreKeepsLog == Spec => KeepsLog
<1>1. Init => Log!Init BY DEF Init, Log!Init
<1>2. IInv /\ Data /\ [Next]_vars => [Log!Next]_(Log!vars)
  <2> SUFFICES ASSUME IInv, Data, [Next]_vars PROVE [Log!Next]_(Log!vars)
    OBVIOUS
  <2>0. clean \subseteq Sessions BY DEF Data, Typed
  <2>1. ASSUME NEW w \in Workers,
               \/ AddMeta(w) \/ SetRewrite(w)
               \/ \E s \in Sessions : TruncateHistory(w, s) \/ SetHistory(w, s)
        PROVE  [Log!Next]_(Log!vars)
    BY <2>1, OperationsKeepLog
  <2>2. ASSUME NEW w \in Workers, PromoteMeta(w) PROVE [Log!Next]_(Log!vars)
    BY <2>2, PromotionKeepsLog
  <2>3. ASSUME NEW w \in Workers,
               \/ CompactRewrite(w) \/ PromoteFirst(w) \/ PromoteSecond(w) \/ PromoteNothing(w)
               \/ PromoteRewrite(w) \/ PromoteRewriteFails(w) \/ PromoteMetaFails(w)
               \/ PromoteRollback(w) \/ SecondWriteFails(w)
               \/ \E s \in Sessions : \/ AddAppend(w, s) \/ AddTear(w, s) \/ SetSummary(w, s)
                                     \/ Compact(w, s) \/ PromoteStart(w, s)
        PROVE  [Log!Next]_(Log!vars)
    <3>1. hist' = hist /\ clean' \subseteq clean
      BY <2>3 DEF CompactRewrite, PromoteFirst, PromoteSecond, PromoteNothing, PromoteRewrite,
                  PromoteRewriteFails, PromoteMetaFails, PromoteRollback, SecondWriteFails,
                  AddAppend, AddTear, SetSummary, Compact, PromoteStart
    <3> QED BY <2>0, <3>1, OthersKeepLog
  <2>4. CASE Crash
    <3>1. hist' = hist /\ clean' \subseteq clean BY <2>4 DEF Crash
    <3> QED BY <2>0, <3>1, OthersKeepLog
  <2>5. CASE UNCHANGED vars
    <3>1. hist' = hist /\ clean' = clean BY <2>5 DEF vars
    <3> QED BY <3>1 DEF Log!vars
  <2> QED BY <2>1, <2>2, <2>3, <2>4, <2>5 DEF Next, Operation
<1> QED BY <1>1, <1>2, WorkersHoldTheirLocks, DataHolds, PTL DEF Spec, KeepsLog, Log!Spec

-----------------------------------------------------------------------------
(***************************************************************************)
(* The mutexes a worker holds are those its operation needs, no more.      *)
(***************************************************************************)

\* The mutexes of the sessions that w uses; of a promotion that waits for its
\* second mutex, the first.
LocksOf(w) ==
  {Shard[s] : s \in Using(w)} \cup (IF At(w, "second") THEN {Shard[Smaller(w)]} ELSE {})

\* A mutex is held by a worker that is in the middle of an operation that needs
\* it: no return, failure or crash leaves one locked behind.
NoLockIsLeaked == \A w \in Workers : {k \in Shards : held[k] = w} = LocksOf(w)

\* Half of it is Owns.
Needed(w) == \A k \in Shards : held[k] = w => k \in LocksOf(w)

\* The other workers need what they hold after a step of w as they did before.
LEMMA OthersNeed ==
  ASSUME IInv, \A v \in Workers : Needed(v), NEW w \in Workers, Needed(w)',
         \A v \in Workers : v # w => op'[v] = op[v],
         \A k \in Shards : held'[k] # w => held'[k] = held[k] \/ held'[k] = None
  PROVE  \A v \in Workers : Needed(v)'
<1> SUFFICES ASSUME NEW v \in Workers, v # w PROVE Needed(v)' OBVIOUS
<1>1. Using(v)' = Using(v) BY DEF Using, Alias
<1>2. (At(v, "second")' <=> At(v, "second")) /\ Smaller(v)' = Smaller(v) BY DEF At, Smaller, Alias
<1>3. LocksOf(v)' = LocksOf(v) BY <1>1, <1>2 DEF LocksOf
<1>4. \A k \in Shards : held'[k] = v => held[k] = v BY SessionStoreAssumption
<1> QED BY <1>3, <1>4 DEF Needed

\* What a worker without operation, or at the first mutex, needs.
LEMMA NeedsNothing ==
  ASSUME NEW w, op[w] = Idle \/ At(w, "first")
  PROVE  LocksOf(w) = {}
<1>1. Using(w) = {} /\ ~At(w, "second") BY DEF Using, At
<1> QED BY <1>1 DEF LocksOf

\* A worker that gives everything back.
LEMMA NeedsUnlocked ==
  ASSUME IInv, \A v \in Workers : Needed(v), NEW w \in Workers, held' = Unlocked(w),
         \A v \in Workers : v # w => op'[v] = op[v]
  PROVE  \A v \in Workers : Needed(v)'
<1>1. \A k \in Shards : held'[k] = IF held[k] = w THEN None ELSE held[k] BY DEF Unlocked
<1>2. \A k \in Shards : held'[k] # w BY <1>1, SessionStoreAssumption
<1>3. Needed(w)' BY <1>2 DEF Needed
<1>4. \A k \in Shards : held'[k] # w => held'[k] = held[k] \/ held'[k] = None BY <1>1
<1> QED BY <1>3, <1>4, OthersNeed

\* A worker that takes the mutex of s.
LEMMA NeedsLocked ==
  ASSUME IInv, \A v \in Workers : Needed(v), NEW w \in Workers, NEW s \in Sessions, Lock(w, s),
         \A v \in Workers : v # w => op'[v] = op[v],
         LocksOf(w) \cup {Shard[s]} \subseteq LocksOf(w)'
  PROVE  \A v \in Workers : Needed(v)'
<1>1. held' = [held EXCEPT ![Shard[s]] = w] /\ held \in [Shards -> Workers \cup {None}]
  BY DEF Lock, IInv
<1>2. \A k \in Shards : held'[k] = w => held[k] = w \/ k = Shard[s] BY <1>1
<1>3. Needed(w)' BY <1>2 DEF Needed
<1>4. \A k \in Shards : held'[k] # w => held'[k] = held[k] BY <1>1
<1> QED BY <1>3, <1>4, OthersNeed

\* A worker that keeps what it holds, and needs it.
LEMMA NeedsSame ==
  ASSUME IInv, \A v \in Workers : Needed(v), NEW w \in Workers, UNCHANGED held,
         \A v \in Workers : v # w => op'[v] = op[v],
         LocksOf(w) \subseteq LocksOf(w)'
  PROVE  \A v \in Workers : Needed(v)'
<1>1. Needed(w)' BY DEF Needed
<1> QED BY <1>1, OthersNeed

LEMMA NeededStep ==
  ASSUME IInv, \A v \in Workers : Needed(v), [Next]_vars
  PROVE  \A v \in Workers : Needed(v)'
<1> USE SessionStoreAssumption
<1>1. ASSUME NEW w \in Workers, NEW s \in Sessions,
             AddAppend(w, s) \/ SetHistory(w, s) \/ Compact(w, s)
      PROVE  \A v \in Workers : Needed(v)'
  <2>1. PICK r : /\ op' = [op EXCEPT ![w] = r] /\ r.on = s
                 /\ r.at \in {"addMeta", "setRewrite", "compactRewrite"}
                 /\ r # Idle
    <3>1. CASE AddAppend(w, s)
      <4>1. PICK r : r = [at |-> "addMeta", on |-> s, msg |-> next] OBVIOUS
      <4>2. r.at = "addMeta" /\ r.on = s /\ r # Idle BY <4>1 DEF Idle
      <4> QED BY <3>1, <4>1, <4>2 DEF AddAppend
    <3>2. CASE SetHistory(w, s)
      <4>1. PICK h : op' = [op EXCEPT ![w] = [at |-> "setRewrite", on |-> s, new |-> h]]
        BY <3>2 DEF SetHistory
      <4>2. PICK r : r = [at |-> "setRewrite", on |-> s, new |-> h] OBVIOUS
      <4>3. r.at = "setRewrite" /\ r.on = s /\ r # Idle BY <4>2 DEF Idle
      <4> QED BY <4>1, <4>2, <4>3
    <3>3. CASE Compact(w, s)
      <4>1. PICK r : r = [at |-> "compactRewrite", on |-> s, new |-> Visible(s)] OBVIOUS
      <4>2. r.at = "compactRewrite" /\ r.on = s /\ r # Idle BY <4>1 DEF Idle
      <4> QED BY <3>3, <4>1, <4>2 DEF Compact
    <3> QED BY <1>1, <3>1, <3>2, <3>3
  <2>2. op[w] = Idle /\ Lock(w, s) BY <1>1 DEF AddAppend, SetHistory, Compact
  <2>3. op'[w] = r /\ \A v \in Workers : v # w => op'[v] = op[v] BY <2>1 DEF IInv
  <2>4. LocksOf(w) = {} BY <2>2, NeedsNothing
  <2>5. Using(w)' = {s} BY <2>1, <2>3 DEF Using
  <2>6. Shard[s] \in LocksOf(w)' BY <2>5 DEF LocksOf
  <2> QED BY <2>2, <2>3, <2>4, <2>6, NeedsLocked
<1>2. ASSUME NEW w \in Workers,
             \/ AddMeta(w) \/ SetRewrite(w) \/ CompactRewrite(w) \/ PromoteRewriteFails(w)
             \/ PromoteMeta(w) \/ PromoteRollback(w) \/ SecondWriteFails(w) \/ PromoteNothing(w)
      PROVE  \A v \in Workers : Needed(v)'
  <2>1. held' = Unlocked(w) /\ \A v \in Workers : v # w => op'[v] = op[v]
    BY <1>2 DEF AddMeta, SetRewrite, CompactRewrite, PromoteRewriteFails, PromoteMeta,
                PromoteRollback, SecondWriteFails, PromoteNothing, NextAlias, Return, IInv
  <2> QED BY <2>1, NeedsUnlocked
<1>3. ASSUME UNCHANGED <<op, held>> PROVE \A v \in Workers : Needed(v)'
  BY <1>3 DEF Needed, LocksOf, Using, At, Smaller, Alias
<1>4. ASSUME NEW w \in Workers, NEW s \in Sessions,
             AddTear(w, s) \/ SetSummary(w, s) \/ TruncateHistory(w, s)
      PROVE  \A v \in Workers : Needed(v)'
  BY <1>3, <1>4 DEF AddTear, SetSummary, TruncateHistory
<1>5. ASSUME NEW w \in Workers, NEW s \in Sessions, PromoteStart(w, s)
      PROVE  \A v \in Workers : Needed(v)'
  <2>1. op[w] = Idle /\ UNCHANGED held /\ \A v \in Workers : v # w => op'[v] = op[v]
    BY <1>5 DEF PromoteStart, IInv
  <2>2. LocksOf(w) = {} BY <2>1, NeedsNothing
  <2> QED BY <2>1, <2>2, NeedsSame
<1>6. ASSUME NEW w \in Workers, PromoteFirst(w) PROVE \A v \in Workers : Needed(v)'
  <2>1. /\ op[w] # Idle /\ At(w, "first") /\ Lock(w, Smaller(w))
        /\ \A v \in Workers : v # w => op'[v] = op[v]
    BY <1>6 DEF PromoteFirst, Goto, IInv, At
  <2>2. Owns(w) BY DEF IInv
  <2>3. Smaller(w) \in Sessions
    BY <2>1, <2>2, HeadAndTail DEF Owns, At, PromotionSteps, Smaller, Alias
  <2>a. PICK step \in {"examine", "second"} :
          op' = [op EXCEPT ![w] = [at |-> step, on |-> op[w].on, todo |-> op[w].todo]]
    BY <1>6 DEF PromoteFirst, Goto
  <2>4. PICK r : /\ r = [at |-> step, on |-> op[w].on, todo |-> op[w].todo]
                 /\ op' = [op EXCEPT ![w] = r]
    BY <2>a
  <2>5. r.at = step /\ r.on = op[w].on /\ r.todo = op[w].todo /\ r # Idle /\ op'[w] = r
    BY <2>4 DEF Idle, IInv
  <2>6. Smaller(w)' = Smaller(w) /\ Alias(w)' = Alias(w) BY <2>5 DEF Smaller, Alias
  <2>7. Shard[Smaller(w)] \in LocksOf(w)'
    <3>1. CASE step = "second"
      <4>1. At(w, "second")' BY <2>5, <3>1 DEF At
      <4> QED BY <2>6, <4>1 DEF LocksOf
    <3>2. CASE step = "examine"
      <4>1. Smaller(w) \in Using(w)' BY <2>5, <2>6, <3>2 DEF Using, Smaller
      <4> QED BY <4>1 DEF LocksOf
    <3> QED BY <3>1, <3>2
  <2>8. LocksOf(w) = {} BY <2>1, NeedsNothing
  <2> QED BY <2>1, <2>3, <2>7, <2>8, NeedsLocked
<1>7. ASSUME NEW w \in Workers, PromoteSecond(w) PROVE \A v \in Workers : Needed(v)'
  <2>1. /\ op[w] # Idle /\ At(w, "second") /\ Lock(w, Larger(w))
        /\ \A v \in Workers : v # w => op'[v] = op[v]
    BY <1>7 DEF PromoteSecond, Goto, IInv, At
  <2>2. Owns(w) BY DEF IInv
  <2>3. Smaller(w) \in Sessions /\ Larger(w) \in Sessions
    BY <2>1, <2>2, HeadAndTail DEF Owns, At, PromotionSteps, Smaller, Larger, Alias
  <2>4. PICK r : r = [at |-> "examine", on |-> op[w].on, todo |-> op[w].todo] OBVIOUS
  <2>5. r.at = "examine" /\ r.on = op[w].on /\ r.todo = op[w].todo /\ r # Idle BY <2>4 DEF Idle
  <2>6. op'[w] = r BY <1>7, <2>4 DEF PromoteSecond, Goto, IInv
  <2>7. Using(w)' = {Smaller(w), Larger(w)}
    BY <2>5, <2>6 DEF Using, Smaller, Larger, Alias
  <2>8. {Shard[Smaller(w)], Shard[Larger(w)]} \subseteq LocksOf(w)' BY <2>7 DEF LocksOf
  <2>9. LocksOf(w) = {Shard[Smaller(w)]}
    <3>1. Using(w) = {} BY <2>1 DEF Using, At
    <3> QED BY <2>1, <3>1 DEF LocksOf
  <2> QED BY <2>1, <2>3, <2>8, <2>9, NeedsLocked
<1>8. ASSUME NEW w \in Workers, PromoteRewrite(w) \/ PromoteMetaFails(w)
      PROVE  \A v \in Workers : Needed(v)'
  <2>1. PICK r : /\ op' = [op EXCEPT ![w] = r] /\ r # Idle /\ r.at \in {"promoteMeta", "rollback"}
                 /\ r.on = op[w].on /\ r.todo = op[w].todo
    <3>1. PICK r1, r2 :
            /\ r1 = [at |-> "promoteMeta", on |-> op[w].on, todo |-> op[w].todo,
                     old |-> file[op[w].on], oldTail |-> tail[op[w].on]]
            /\ r2 = [at |-> "rollback", on |-> op[w].on, todo |-> op[w].todo,
                     old |-> op[w].old, oldTail |-> op[w].oldTail]
      OBVIOUS
    <3>2. /\ r1 # Idle /\ r1.at = "promoteMeta" /\ r1.on = op[w].on /\ r1.todo = op[w].todo
          /\ r2 # Idle /\ r2.at = "rollback" /\ r2.on = op[w].on /\ r2.todo = op[w].todo
      BY <3>1 DEF Idle
    <3>3. op' = [op EXCEPT ![w] = r1] \/ op' = [op EXCEPT ![w] = r2]
      BY <1>8, <3>1 DEF PromoteRewrite, PromoteMetaFails
    <3> QED BY <3>2, <3>3
  <2>2. /\ op'[w] = r /\ (\A v \in Workers : v # w => op'[v] = op[v]) /\ UNCHANGED held
        /\ At(w, "examine") \/ At(w, "promoteMeta")
    BY <1>8, <2>1 DEF PromoteRewrite, PromoteMetaFails, IInv
  <2>5. ~At(w, "second") /\ Using(w) = {op[w].on, Alias(w)} BY <2>2 DEF Using, At
  <2>6. op'[w].at # "second" /\ Alias(w)' = Alias(w) /\ Using(w)' = {op[w].on, Alias(w)}
    BY <2>1, <2>2 DEF Using, Alias
  <2>3. Using(w)' = Using(w) /\ ~At(w, "second") BY <2>5, <2>6
  <2>4. LocksOf(w) \subseteq LocksOf(w)' BY <2>3 DEF LocksOf
  <2> QED BY <2>2, <2>4, NeedsSame
<1>9. ASSUME Crash PROVE \A v \in Workers : Needed(v)'
  BY <1>9 DEF Crash, Needed
<1>10. CASE UNCHANGED vars BY <1>3, <1>10 DEF vars
<1> QED BY <1>1, <1>2, <1>4, <1>5, <1>6, <1>7, <1>8, <1>9, <1>10 DEF Next, Operation

\* Every return, failure and crash gives back what was locked, and a worker never
\* holds the mutex of a session its operation does not use, whatever the hash.
THEOREM NoLockIsLeakedHolds == Spec => []NoLockIsLeaked
<1>1. IInv /\ (\A v \in Workers : Needed(v)) => NoLockIsLeaked
  <2> SUFFICES ASSUME IInv, \A v \in Workers : Needed(v), NEW w \in Workers
               PROVE  {k \in Shards : held[k] = w} = LocksOf(w)
    BY DEF NoLockIsLeaked
  <2>1. Owns(w) /\ Needed(w) BY DEF IInv
  <2>2. op[w] # Idle /\ op[w].at \in PromotionSteps => Alias(w) \in Sessions /\ op[w].on \in Sessions
    BY <2>1, HeadAndTail DEF Owns, Alias
  <2>3. Using(w) \subseteq Sessions BY <2>1, <2>2 DEF Using, Owns, PromotionSteps
  <2>4. At(w, "second") => Smaller(w) \in Sessions BY <2>2 DEF At, Smaller, PromotionSteps
  <2>5. ASSUME NEW k \in LocksOf(w) PROVE k \in Shards /\ held[k] = w
    <3>1. (\E s \in Using(w) : k = Shard[s]) \/ (At(w, "second") /\ k = Shard[Smaller(w)])
      BY DEF LocksOf
    <3> QED BY <2>1, <2>3, <2>4, <3>1, SessionStoreAssumption DEF Owns
  <2> QED BY <2>1, <2>5 DEF Needed
<1>2. Init => \A v \in Workers : Needed(v)
  BY SessionStoreAssumption DEF Init, Needed
<1>3. IInv /\ (\A v \in Workers : Needed(v)) /\ [Next]_vars => (\A v \in Workers : Needed(v))'
  BY NeededStep
<1> QED BY <1>1, <1>2, <1>3, WorkersHoldTheirLocks, PTL DEF Spec

-----------------------------------------------------------------------------
(***************************************************************************)
(* Types.                                                                  *)
(***************************************************************************)
OpTyped == op \in [Workers -> Op]
Rest == next \in 1 .. MaxMessages + 1 /\ failures \in 0 .. MaxFailures /\ unread \subseteq Messages

\* A worker that goes on with an operation of its own.
LEMMA OpNext ==
  ASSUME IInv, OpTyped, NEW w \in Workers, NEW r \in Op, op' = [op EXCEPT ![w] = r]
  PROVE  OpTyped'
BY DEF OpTyped

LEMMA IdleOp == Idle \in Op BY DEF Op

\* The arguments of a promotion.
LEMMA PromotionOp ==
  ASSUME IInv, NEW w \in Workers, op[w] # Idle, op[w].at \in PromotionSteps
  PROVE  /\ op[w].on \in Sessions /\ op[w].todo \in Seq(Sessions) \ {<<>>}
         /\ \A step \in {"first", "second", "examine"} :
              [at |-> step, on |-> op[w].on, todo |-> op[w].todo] \in Op
<1>1. Owns(w) BY DEF IInv
<1>2. op[w].on \in Sessions /\ op[w].todo \in Seq(Sessions) \ {<<>>} BY <1>1 DEF Owns
<1> QED BY <1>2 DEF Op

LEMMA OpStep == ASSUME IInv, Data, Data', OpTyped, [Next]_vars PROVE OpTyped'
<1> USE SessionStoreAssumption
<1>1. ASSUME NEW w \in Workers, Return(w) PROVE OpTyped'
  BY <1>1, IdleOp, OpNext DEF Return
<1>2. ASSUME op' = op PROVE OpTyped' BY <1>2 DEF OpTyped
<1>3. ASSUME NEW w \in Workers, NEW s \in Sessions, AddAppend(w, s) PROVE OpTyped'
  <2>1. next \in Messages BY <1>3 DEF AddAppend, Data, Typed, Messages
  <2>2. [at |-> "addMeta", on |-> s, msg |-> next] \in Op BY <2>1 DEF Op
  <2>3. op' = [op EXCEPT ![w] = [at |-> "addMeta", on |-> s, msg |-> next]] BY <1>3 DEF AddAppend
  <2> QED BY <2>2, <2>3, OpNext
<1>4. ASSUME NEW w \in Workers, NEW s \in Sessions, SetHistory(w, s) \/ Compact(w, s)
      PROVE  OpTyped'
  <2>0. PICK step \in {"setRewrite", "compactRewrite"} :
          \E h : op' = [op EXCEPT ![w] = [at |-> step, on |-> s, new |-> h]]
    <3>1. CASE SetHistory(w, s)
      <4>1. \E h : op' = [op EXCEPT ![w] = [at |-> "setRewrite", on |-> s, new |-> h]]
        BY <3>1 DEF SetHistory
      <4> QED BY <4>1
    <3>2. CASE Compact(w, s)
      <4>1. \E h : op' = [op EXCEPT ![w] = [at |-> "compactRewrite", on |-> s, new |-> h]]
        BY <3>2 DEF Compact
      <4> QED BY <4>1
    <3> QED BY <1>4, <3>1, <3>2
  <2>1. PICK h : op' = [op EXCEPT ![w] = [at |-> step, on |-> s, new |-> h]]
    BY <2>0
  <2>2. PICK r : r = [at |-> step, on |-> s, new |-> h] OBVIOUS
  <2>3. op'[w] = r /\ r # Idle /\ r.at = step /\ r.new = h
    BY <2>1, <2>2 DEF IInv, Idle
  <2>4. At(w, "setRewrite")' \/ At(w, "compactRewrite")' BY <2>3 DEF At
  <2>5. Rewriting(w)' BY DEF Data, Doing
  <2>6. h \in Seq(Messages) BY <2>3, <2>4, <2>5 DEF Rewriting, Told
  <2>7. r \in Op BY <2>2, <2>6 DEF Op
  <2> QED BY <2>1, <2>2, <2>7, OpNext
<1>5. ASSUME NEW w \in Workers, NEW s \in Sessions, PromoteStart(w, s) PROVE OpTyped'
  <2>1. Aliases[s] \in Seq(Sessions) \ {<<>>} BY <1>5 DEF PromoteStart
  <2>2. [at |-> "first", on |-> s, todo |-> Aliases[s]] \in Op BY <2>1 DEF Op
  <2> QED BY <1>5, <2>2, OpNext DEF PromoteStart
<1>6. ASSUME NEW w \in Workers, PromoteFirst(w) \/ PromoteSecond(w) PROVE OpTyped'
  <2>1. op[w] # Idle /\ op[w].at \in PromotionSteps
    BY <1>6 DEF PromoteFirst, PromoteSecond, At, PromotionSteps
  <2>2. PICK step \in {"second", "examine"} :
          op' = [op EXCEPT ![w] = [at |-> step, on |-> op[w].on, todo |-> op[w].todo]]
    BY <1>6 DEF PromoteFirst, PromoteSecond, Goto
  <2>3. [at |-> step, on |-> op[w].on, todo |-> op[w].todo] \in Op BY <2>1, PromotionOp
  <2> QED BY <2>2, <2>3, OpNext
<1>7. ASSUME NEW w \in Workers, PromoteNothing(w) PROVE OpTyped'
  <2>1. op[w] # Idle /\ op[w].at \in PromotionSteps
    BY <1>7 DEF PromoteNothing, At, PromotionSteps
  <2>2. op[w].on \in Sessions /\ op[w].todo \in Seq(Sessions) \ {<<>>} BY <2>1, PromotionOp
  <2>3. CASE Len(op[w].todo) = 1
    BY <1>7, <2>3, IdleOp, OpNext DEF PromoteNothing, NextAlias
  <2>4. CASE Len(op[w].todo) # 1
    <3>1. Tail(op[w].todo) \in Seq(Sessions) \ {<<>>} BY <2>2, <2>4, HeadAndTail
    <3>2. [at |-> "first", on |-> op[w].on, todo |-> Tail(op[w].todo)] \in Op
      BY <2>2, <3>1 DEF Op
    <3>3. op' = [op EXCEPT ![w] = [at |-> "first", on |-> op[w].on, todo |-> Tail(op[w].todo)]]
      BY <1>7, <2>4 DEF PromoteNothing, NextAlias
    <3> QED BY <3>2, <3>3, OpNext
  <2> QED BY <2>3, <2>4
<1>8. ASSUME NEW w \in Workers, PromoteRewrite(w) \/ PromoteMetaFails(w) PROVE OpTyped'
  <2>1. op[w] # Idle /\ op[w].at \in PromotionSteps
    BY <1>8 DEF PromoteRewrite, PromoteMetaFails, At, PromotionSteps
  <2>2. op[w].on \in Sessions /\ op[w].todo \in Seq(Sessions) \ {<<>>} BY <2>1, PromotionOp
  <2>3. PICK step \in {"promoteMeta", "rollback"}, old \in Seq(Line), end \in {"whole", "torn", "bare"} :
          op' = [op EXCEPT ![w] = [at |-> step, on |-> op[w].on, todo |-> op[w].todo,
                                   old |-> old, oldTail |-> end]]
    <3>1. CASE PromoteRewrite(w)
      <4>1. file[op[w].on] \in Seq(Line) /\ tail[op[w].on] \in {"whole", "torn", "bare"}
        BY <2>2 DEF Data, Typed
      <4> QED BY <3>1, <4>1 DEF PromoteRewrite
    <3>2. CASE PromoteMetaFails(w)
      <4>1. Promoting(w) /\ At(w, "promoteMeta") BY <3>2 DEF Data, Doing, PromoteMetaFails
      <4>2. op[w].old \in Seq(Line) /\ op[w].oldTail \in {"whole", "torn", "bare"}
        BY <4>1 DEF Promoting, Lines
      <4> QED BY <3>2, <4>2 DEF PromoteMetaFails
    <3> QED BY <1>8, <3>1, <3>2
  <2>4. [at |-> step, on |-> op[w].on, todo |-> op[w].todo, old |-> old, oldTail |-> end] \in Op
    BY <2>2 DEF Op
  <2> QED BY <2>3, <2>4, OpNext
<1>9. CASE Crash BY <1>9, IdleOp DEF Crash, OpTyped
<1>10. ASSUME NEW w \in Workers, Operation(w) PROVE OpTyped'
  BY <1>1, <1>2, <1>3, <1>4, <1>5, <1>6, <1>7, <1>8, <1>10
     DEF Operation, AddMeta, SetRewrite, CompactRewrite, PromoteRewriteFails, PromoteMeta,
         PromoteRollback, SecondWriteFails, AddTear, SetSummary, TruncateHistory
<1> QED BY <1>2, <1>9, <1>10 DEF Next, vars

LEMMA RestStep == ASSUME Data, Rest, [Next]_vars PROVE Rest'
<1> USE SessionStoreAssumption
<1>1. ASSUME UNCHANGED <<next, unread>>, UNCHANGED failures \/ Fails PROVE Rest'
  <2>1. failures' \in 0 .. MaxFailures BY <1>1 DEF Rest, Fails
  <2> QED BY <1>1, <2>1 DEF Rest
<1>2. ASSUME NEW w \in Workers, NEW s \in Sessions, AddAppend(w, s) \/ AddTear(w, s) PROVE Rest'
  <2>1. next <= MaxMessages /\ next' = next + 1 /\ (UNCHANGED failures \/ Fails)
        /\ (unread' = unread \/ unread' = unread \cup {next})
    BY <1>2 DEF AddAppend, AddTear
  <2>2. next \in Messages /\ next' \in 1 .. MaxMessages + 1 BY <2>1 DEF Rest, Messages
  <2>3. failures' \in 0 .. MaxFailures BY <2>1 DEF Rest, Fails
  <2> QED BY <2>1, <2>2, <2>3 DEF Rest
<1>3. CASE UNCHANGED vars BY <1>1, <1>3 DEF vars
<1>4. CASE Crash BY <1>1, <1>4 DEF Crash
<1>5. ASSUME NEW w \in Workers, Operation(w) PROVE Rest'
  <2>1. CASE \E s \in Sessions : AddAppend(w, s) \/ AddTear(w, s) BY <1>2, <2>1
  <2>2. CASE \E s \in Sessions : SetSummary(w, s) \/ TruncateHistory(w, s) \/ SetHistory(w, s)
                                 \/ Compact(w, s) \/ PromoteStart(w, s)
    BY <1>1, <2>2 DEF SetSummary, TruncateHistory, SetHistory, Compact, PromoteStart
  <2>3. CASE AddMeta(w) \/ SetRewrite(w) \/ CompactRewrite(w) \/ PromoteFirst(w) \/ PromoteSecond(w)
             \/ PromoteNothing(w) \/ PromoteRewrite(w)
    BY <1>1, <2>3 DEF AddMeta, SetRewrite, CompactRewrite, PromoteFirst, PromoteSecond,
                      PromoteNothing, PromoteRewrite
  <2>4. CASE PromoteRewriteFails(w) \/ PromoteMeta(w) \/ PromoteMetaFails(w) \/ PromoteRollback(w)
             \/ SecondWriteFails(w)
    BY <1>1, <2>4 DEF PromoteRewriteFails, PromoteMeta, PromoteMetaFails, PromoteRollback,
                      SecondWriteFails
  <2> QED BY <1>5, <2>1, <2>2, <2>3, <2>4 DEF Operation
<1> QED BY <1>3, <1>4, <1>5 DEF Next

\* Types: a worker between two steps has the arguments and the bytes to restore
\* that its operation began with.
THEOREM StoreTypes == Spec => []TypeOK
<1>1. IInv /\ Data /\ OpTyped /\ Rest => TypeOK BY DEF IInv, Data, Typed, OpTyped, Rest, TypeOK
<1>2. Init => OpTyped /\ Rest
  BY SessionStoreAssumption, IdleOp DEF Init, OpTyped, Rest
<1>3. IInv /\ Data /\ Data' /\ OpTyped /\ [Next]_vars => OpTyped' BY OpStep
<1>4. Data /\ Rest /\ [Next]_vars => Rest' BY RestStep
<1> QED BY <1>1, <1>2, <1>3, <1>4, DataHolds, WorkersHoldTheirLocks, PTL DEF Spec
=============================================================================
