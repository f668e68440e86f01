---------------------------- MODULE SessionStore ----------------------------
(***************************************************************************)
(* The store of conversations on disk, JSONLStore of pkg/memory.           *)
(*                                                                         *)
(* A session is an append-only file of messages, one JSON object a line,   *)
(* and a metadata file with the number of lines to skip, a count and a     *)
(* summary.  The metadata file and every rewrite of the message file are   *)
(* replaced atomically (temporary file, fsync, rename); an append is not:  *)
(* a short write or a crash leaves a last line without its newline, either *)
(* a prefix of the object, which no reader can parse, or all of it.        *)
(* An operation that writes twice can stop between the two writes; one     *)
(* whose first write fails changes nothing and is left out.                *)
(*                                                                         *)
(* Sessions are numbered in the order of their keys and hashed onto        *)
(* mutexes, the shards.  Goroutines are workers; the first step of an      *)
(* operation on one session also takes its lock and the last one gives it  *)
(* back.  Promotion takes two.                                             *)
(***************************************************************************)
EXTENDS Integers, Sequences, FiniteSets

CONSTANTS
  Sessions,      \* session keys, as numbers in the order of the keys
  Shard,         \* [Sessions -> Shards], FNV hash of the key modulo 64
  Shards,
  Aliases,       \* [Sessions -> Seq(Sessions)], normalised, main sessions left out
  Workers,       \* goroutines that call the store
  MaxMessages,   \* bound: messages ever appended
  MaxFailures,   \* bound: failed writes and crashes
  None

ASSUME SessionStoreAssumption ==
  /\ Sessions \subseteq Nat
  /\ Shard \in [Sessions -> Shards]
  /\ Aliases \in [Sessions -> Seq(Sessions)]
  /\ \A s \in Sessions : \A i \in DOMAIN Aliases[s] : Aliases[s][i] # s
  /\ MaxMessages \in Nat
  /\ MaxFailures \in Nat
  /\ None \notin Workers

Messages == 1 .. MaxMessages   \* in the order in which they were appended
Junk == 0                      \* a line that does not parse
Line == Messages \cup {Junk}

VARIABLES
  file,      \* {key}.jsonl: [Sessions -> Seq(Line)]
  tail,      \* whether the last line lacks its newline: "whole", "torn" or "bare"
  meta,      \* {key}.meta.json: [skip, count, summary]
  held,      \* the mutexes: [Shards -> Workers or None]
  op,        \* what each worker is doing
  next,      \* the next message to be appended
  failures,  \* failed writes and crashes so far
  hist,      \* history: what the callers were told is stored, per session
  clean,     \* history: sessions with no failed operation since the last full rewrite
  unread     \* history: messages appended where no reader will find them

vars == <<file, tail, meta, held, op, next, failures, hist, clean, unread>>

Idle == [at |-> "idle"]

\* What a worker is doing: the step it is about to take, the session it works
\* on, and the arguments and local variables of the call.
Op ==
  {Idle}
    \cup [at : {"addMeta"}, on : Sessions, msg : Messages]
    \cup [at : {"setRewrite", "compactRewrite"}, on : Sessions, new : Seq(Messages)]
    \cup [at : {"first", "second", "examine"}, on : Sessions, todo : Seq(Sessions) \ {<<>>}]
    \cup [at : {"promoteMeta", "rollback"}, on : Sessions, todo : Seq(Sessions) \ {<<>>},
          old : Seq(Line), oldTail : {"whole", "torn", "bare"}]

TypeOK ==
  /\ file \in [Sessions -> Seq(Line)]
  /\ tail \in [Sessions -> {"whole", "torn", "bare"}]
  /\ meta \in [Sessions -> [skip : Nat, count : Nat, summary : BOOLEAN]]
  /\ held \in [Shards -> Workers \cup {None}]
  /\ op \in [Workers -> Op]
  /\ next \in 1 .. MaxMessages + 1
  /\ failures \in 0 .. MaxFailures
  /\ hist \in [Sessions -> Seq(Messages)]
  /\ clean \subseteq Sessions
  /\ unread \subseteq Messages

Init ==
  /\ file = [s \in Sessions |-> <<>>]
  /\ tail = [s \in Sessions |-> "whole"]
  /\ meta = [s \in Sessions |-> [skip |-> 0, count |-> 0, summary |-> FALSE]]
  /\ held = [k \in Shards |-> None]
  /\ op = [w \in Workers |-> Idle]
  /\ next = 1
  /\ failures = 0
  /\ hist = [s \in Sessions |-> <<>>]
  /\ clean = Sessions
  /\ unread = {}

-----------------------------------------------------------------------------
(***************************************************************************)
(* Reading.                                                                *)
(***************************************************************************)
Elements(q) == {q[i] : i \in DOMAIN q}

\* What is kept of q, read element by element: those after the first k that
\* are in S.
Kept(q, k, S) ==
  LET kept[n \in 0 .. Len(q)] ==
        IF n <= k THEN <<>>
        ELSE IF q[n] \in S THEN Append(kept[n - 1], q[n]) ELSE kept[n - 1]
  IN kept[Len(q)]

\* readMessages: the lines after the first `skip` that parse.
ReadMessages(lines, skip) == Kept(lines, skip, Messages)

\* GetHistory.
Visible(s) == ReadMessages(file[s], meta[s].skip)

HasContent(s) == meta[s].summary \/ Visible(s) # <<>>

(***************************************************************************)
(* Locks and operations.                                                   *)
(***************************************************************************)
Available(s) == held[Shard[s]] = None
Lock(w, s) == held' = [held EXCEPT ![Shard[s]] = w]

At(w, step) == op[w] # Idle /\ op[w].at = step
Unlocked(w) == [k \in Shards |-> IF held[k] = w THEN None ELSE held[k]]
Return(w) == op' = [op EXCEPT ![w] = Idle] /\ held' = Unlocked(w)

SetFile(s, lines) == file' = [file EXCEPT ![s] = lines] /\ tail' = [tail EXCEPT ![s] = "whole"]
Fails == failures < MaxFailures /\ failures' = failures + 1

-----------------------------------------------------------------------------
(***************************************************************************)
(* addMsg: append one line, then count it in the metadata.                 *)
(***************************************************************************)

\* Appending to s now is in vain: it would continue a line without newline,
\* or write a line that the metadata skips (a promotion has died between its
\* two writes).
InVain(s) == tail[s] # "whole" \/ Len(file[s]) < meta[s].skip

\* The file after `line` is written at its end: the bytes continue a line
\* without newline, and two objects on one line do not parse.
Appended(s, line) ==
  IF tail[s] = "whole" THEN Append(file[s], line)
  ELSE [file[s] EXCEPT ![Len(file[s])] = Junk]

AddAppend(w, s) ==
  /\ op[w] = Idle /\ Available(s) /\ next <= MaxMessages
  /\ Lock(w, s)
  /\ SetFile(s, Appended(s, next))
  /\ unread' = IF InVain(s) THEN unread \cup {next} ELSE unread
  /\ op' = [op EXCEPT ![w] = [at |-> "addMeta", on |-> s, msg |-> next]]
  /\ next' = next + 1
  /\ UNCHANGED <<meta, failures, hist, clean>>

\* The append writes part of the line, or all but its newline, and the call
\* returns an error (or the process dies, see Crash).
AddTear(w, s) ==
  /\ op[w] = Idle /\ Available(s) /\ next <= MaxMessages
  /\ Fails
  /\ \E t \in {"torn", "bare"} :
       /\ file' = [file EXCEPT ![s] = Appended(s, IF t = "torn" THEN Junk ELSE next)]
       /\ tail' = [tail EXCEPT ![s] = IF tail[s] = "whole" THEN t ELSE "torn"]
  /\ next' = next + 1
  /\ clean' = clean \ {s}
  /\ UNCHANGED <<meta, held, op, hist, unread>>

AddMeta(w) ==
  /\ At(w, "addMeta")
  /\ meta' = [meta EXCEPT ![op[w].on].count = @ + 1]
  /\ hist' = [hist EXCEPT ![op[w].on] = Append(@, op[w].msg)]
  /\ Return(w)
  /\ UNCHANGED <<file, tail, next, failures, clean, unread>>

-----------------------------------------------------------------------------
(***************************************************************************)
(* SetSummary and TruncateHistory: a single write of the metadata.         *)
(***************************************************************************)
SetSummary(w, s) ==
  /\ op[w] = Idle /\ Available(s)
  /\ \E b \in BOOLEAN : meta' = [meta EXCEPT ![s].summary = b]
  /\ UNCHANGED <<file, tail, held, op, next, failures, hist, clean, unread>>

\* scanRetainedMessageLines: the numbers of the lines that parse.
Retained(s) == {i \in DOMAIN file[s] : file[s][i] # Junk}

\* Mutant: counts raw lines instead of the messages that parse.
TruncatedByRawLines(s, keepLast) ==
  IF keepLast >= Len(file[s]) - meta[s].skip THEN meta[s].skip ELSE Len(file[s]) - keepLast

\* The skip that keeps the last keepLast active messages.
TruncatedSkip(s, keepLast) ==
  LET count  == Len(file[s])
      skip   == IF meta[s].skip > count THEN count ELSE meta[s].skip
      active == {i \in Retained(s) : i > skip}
      over   == Cardinality(active) - keepLast
  IN IF keepLast <= 0 \/ active = {} THEN count
     ELSE IF over > 0
          THEN CHOOSE i \in active : Cardinality({j \in active : j <= i}) = over
     ELSE skip

\* The last k elements of q.
LastOf(q, k) == IF k >= Len(q) THEN q ELSE SubSeq(q, Len(q) - k + 1, Len(q))

\* The callers keep at least one message.
TruncateHistory(w, s) ==
  /\ op[w] = Idle /\ Available(s)
  /\ \E keepLast \in 1 .. MaxMessages :
       /\ meta' = [meta EXCEPT ![s].skip = TruncatedSkip(s, keepLast),
                               ![s].count = Len(file[s])]
       /\ hist' = [hist EXCEPT ![s] =
            Kept(@, 0, Elements(LastOf(Visible(s), keepLast)))]
  /\ UNCHANGED <<file, tail, held, op, next, failures, clean, unread>>

-----------------------------------------------------------------------------
(***************************************************************************)
(* SetHistory and Compact: the metadata, then a rewrite of the file.       *)
(***************************************************************************)
Prefixes(q) == {SubSeq(q, 1, k) : k \in 0 .. Len(q)}
Suffixes(q) == {SubSeq(q, k, Len(q)) : k \in 1 .. Len(q) + 1}

RewriteMeta(s, lines) ==
  meta' = [meta EXCEPT ![s].skip = 0, ![s].count = Len(lines)]

\* The callers write back what they read, less its beginning (compaction) or
\* its end (rollback), or nothing at all (clear).
SetHistory(w, s) ==
  /\ op[w] = Idle /\ Available(s)
  /\ \E h \in Prefixes(Visible(s)) \cup Suffixes(Visible(s)) :
       /\ RewriteMeta(s, h)
       /\ hist' = [hist EXCEPT ![s] = Kept(@, 0, Elements(h))]
       /\ op' = [op EXCEPT ![w] = [at |-> "setRewrite", on |-> s, new |-> h]]
  /\ Lock(w, s)
  /\ UNCHANGED <<file, tail, next, failures, clean, unread>>

SetRewrite(w) ==
  /\ At(w, "setRewrite")
  /\ SetFile(op[w].on, op[w].new)
  /\ hist' = [hist EXCEPT ![op[w].on] = op[w].new]
  /\ clean' = clean \cup {op[w].on}
  /\ Return(w)
  /\ UNCHANGED <<meta, next, failures, unread>>

Compact(w, s) ==
  /\ op[w] = Idle /\ Available(s) /\ meta[s].skip # 0
  /\ RewriteMeta(s, Visible(s))
  /\ op' = [op EXCEPT ![w] = [at |-> "compactRewrite", on |-> s, new |-> Visible(s)]]
  /\ Lock(w, s)
  /\ UNCHANGED <<file, tail, next, failures, hist, clean, unread>>

\* Mutant: the rewrite does not replace the file.
CompactAppends(w) ==
  /\ At(w, "compactRewrite")
  /\ SetFile(op[w].on, file[op[w].on] \o op[w].new)
  /\ Return(w)
  /\ UNCHANGED <<meta, next, failures, hist, clean, unread>>

CompactRewrite(w) ==
  /\ At(w, "compactRewrite")
  /\ SetFile(op[w].on, op[w].new)
  /\ Return(w)
  /\ UNCHANGED <<meta, next, failures, hist, clean, unread>>

-----------------------------------------------------------------------------
(***************************************************************************)
(* PromoteAliasHistory: for each alias in turn, take both locks; if the    *)
(* session is empty and the alias is not, copy the alias.                  *)
(***************************************************************************)
Alias(w) == Head(op[w].todo)

\* lockSessionPair takes the lock of the smaller key first.
Smaller(w) == IF op[w].on <= Alias(w) THEN op[w].on ELSE Alias(w)
Larger(w) == IF op[w].on <= Alias(w) THEN Alias(w) ELSE op[w].on

\* On to the next step for the same alias.
Goto(w, step) ==
  op' = [op EXCEPT ![w] = [at |-> step, on |-> op[w].on, todo |-> op[w].todo]]

\* What the worker goes on with when this alias was not promoted.
NextAlias(w) ==
  /\ op' = [op EXCEPT ![w] =
                IF Len(op[w].todo) = 1 THEN Idle
                ELSE [at |-> "first", on |-> op[w].on, todo |-> Tail(op[w].todo)]]
  /\ held' = Unlocked(w)

PromoteStart(w, s) ==
  /\ op[w] = Idle /\ Aliases[s] # <<>>
  /\ op' = [op EXCEPT ![w] = [at |-> "first", on |-> s, todo |-> Aliases[s]]]
  /\ UNCHANGED <<file, tail, meta, held, next, failures, hist, clean, unread>>

\* Mutant: only the first lock is taken.
PromoteLocksOne(w) ==
  /\ At(w, "first") /\ Available(Smaller(w))
  /\ Lock(w, Smaller(w))
  /\ Goto(w, "examine")
  /\ UNCHANGED <<file, tail, meta, next, failures, hist, clean, unread>>

PromoteFirst(w) ==
  /\ At(w, "first") /\ Available(Smaller(w))
  /\ Lock(w, Smaller(w))
  /\ Goto(w, IF Shard[op[w].on] = Shard[Alias(w)] THEN "examine" ELSE "second")
  /\ UNCHANGED <<file, tail, meta, next, failures, hist, clean, unread>>

PromoteSecond(w) ==
  /\ At(w, "second") /\ Available(Larger(w))
  /\ Lock(w, Larger(w))
  /\ Goto(w, "examine")
  /\ UNCHANGED <<file, tail, meta, next, failures, hist, clean, unread>>

\* Mutant: the session's own content is not asked for.
PromotableAnyway(w) == HasContent(Alias(w))

Promotable(w) == ~HasContent(op[w].on) /\ HasContent(Alias(w))

PromoteNothing(w) ==
  /\ At(w, "examine") /\ ~Promotable(w)
  /\ NextAlias(w)
  /\ UNCHANGED <<file, tail, meta, next, failures, hist, clean, unread>>

PromoteRewrite(w) ==
  /\ At(w, "examine") /\ Promotable(w)
  /\ SetFile(op[w].on, Visible(Alias(w)))
  /\ op' = [op EXCEPT ![w] = [at |-> "promoteMeta", on |-> op[w].on, todo |-> op[w].todo,
                              old |-> file[op[w].on], oldTail |-> tail[op[w].on]]]
  /\ UNCHANGED <<meta, held, next, failures, hist, clean, unread>>

\* The call ends with the error; the aliases that follow are not tried.
PromoteRewriteFails(w) ==
  /\ At(w, "examine") /\ Promotable(w) /\ Fails
  /\ Return(w)
  /\ UNCHANGED <<file, tail, meta, next, hist, clean, unread>>

PromoteMeta(w) ==
  LET s == op[w].on
      h == Visible(Alias(w))
  IN
  /\ At(w, "promoteMeta")
  /\ meta' = [meta EXCEPT ![s] = [skip |-> 0, count |-> Len(h),
                                  summary |-> meta[Alias(w)].summary \/ @.summary]]
  /\ hist' = [hist EXCEPT ![s] = h]
  /\ clean' = clean \cup {s}
  /\ Return(w)
  /\ UNCHANGED <<file, tail, next, failures, unread>>

PromoteMetaFails(w) ==
  /\ At(w, "promoteMeta") /\ Fails
  /\ op' = [op EXCEPT ![w] = [at |-> "rollback", on |-> op[w].on, todo |-> op[w].todo,
                              old |-> op[w].old, oldTail |-> op[w].oldTail]]
  /\ UNCHANGED <<file, tail, meta, held, next, hist, clean, unread>>

\* Mutant: the promoted lines stay when their metadata could not be written.
PromoteKeeps(w) ==
  /\ At(w, "rollback")
  /\ Return(w)
  /\ UNCHANGED <<file, tail, meta, next, failures, hist, clean, unread>>

\* restoreRawJSONL: the bytes of before.
PromoteRollback(w) ==
  /\ At(w, "rollback")
  /\ file' = [file EXCEPT ![op[w].on] = op[w].old]
  /\ tail' = [tail EXCEPT ![op[w].on] = op[w].oldTail]
  /\ Return(w)
  /\ UNCHANGED <<meta, next, failures, hist, clean, unread>>

-----------------------------------------------------------------------------
(***************************************************************************)
(* Failures.                                                               *)
(***************************************************************************)

\* The second write of an operation fails: the call returns the error and
\* the first write stays.
SecondWriteFails(w) ==
  /\ \E step \in {"addMeta", "setRewrite", "compactRewrite", "rollback"} : At(w, step)
  /\ Fails
  /\ clean' = clean \ {op[w].on}
  /\ Return(w)
  /\ UNCHANGED <<file, tail, meta, next, hist, unread>>

\* The process dies and starts again: the locks and the operations are gone,
\* the files are what they were.
Writing(w) == op[w] # Idle /\ op[w].at \notin {"first", "second", "examine"}

Crash ==
  /\ Fails
  /\ \E w \in Workers : op[w] # Idle
  /\ op' = [w \in Workers |-> Idle]
  /\ held' = [k \in Shards |-> None]
  /\ clean' = clean \ {op[w].on : w \in {v \in Workers : Writing(v)}}
  /\ UNCHANGED <<file, tail, meta, next, hist, unread>>

Operation(w) ==
  \/ AddMeta(w) \/ SetRewrite(w) \/ CompactRewrite(w)
  \/ PromoteFirst(w) \/ PromoteSecond(w) \/ PromoteNothing(w) \/ PromoteRewrite(w)
  \/ PromoteRewriteFails(w)
  \/ PromoteMeta(w) \/ PromoteMetaFails(w) \/ PromoteRollback(w) \/ SecondWriteFails(w)
  \/ \E s \in Sessions :
       \/ AddAppend(w, s) \/ AddTear(w, s) \/ SetSummary(w, s) \/ TruncateHistory(w, s)
       \/ SetHistory(w, s) \/ Compact(w, s) \/ PromoteStart(w, s)

Next == Crash \/ \E w \in Workers : Operation(w)

Spec == Init /\ [][Next]_vars

-----------------------------------------------------------------------------
(***************************************************************************)
(* Properties.                                                             *)
(***************************************************************************)

\* The sessions whose files worker w may be reading or writing.
Using(w) ==
  IF op[w] = Idle \/ op[w].at \in {"first", "second"} THEN {}
  ELSE IF op[w].at \in {"examine", "promoteMeta", "rollback"} THEN {op[w].on, Alias(w)}
  ELSE {op[w].on}

\* No two goroutines are at the files of one session, although promotion
\* works on two sessions at once and keys share mutexes.
OneOperationPerSession ==
  \A v, w \in Workers : v # w => Using(v) \cap Using(w) = {}

\* A message whose append succeeded, and that no later truncation or rewrite
\* gave up, is still read back, whatever failed or crashed since -- unless it
\* was appended in vain: after a failed append or a failed promotion.
NothingElseIsLost ==
  \A s \in Sessions : Elements(hist[s]) \subseteq Elements(Visible(s)) \cup unread

\* However often operations stop half-way, a reader never sees a message
\* twice, and sees them in the order in which they were appended.
VisibleInOrder ==
  \A s \in Sessions : \A i, j \in DOMAIN Visible(s) : i < j => Visible(s)[i] < Visible(s)[j]

\* Where nothing failed, or a rewrite succeeded since, a reader sees exactly
\* what callers were told is stored, and the count is that of the lines.
ExactWhenClean ==
  \A s \in clean : (\A w \in Workers : s \notin Using(w)) =>
    /\ Visible(s) = hist[s]
    /\ meta[s].count = Len(file[s])
    /\ tail[s] = "whole"

Log ==
  INSTANCE SessionLog WITH
    log     <- hist,
    damaged <- Sessions \ clean

\* Every behaviour of the store is one of the plain logs of SessionLog: although
\* an operation writes twice, and promotion works on two sessions, each appears
\* to happen at once, and a failure is felt in the session it hit and no other.
KeepsLog == Log!Spec
=============================================================================
