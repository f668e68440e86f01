--------------------------- MODULE MCSessionStore ---------------------------
(***************************************************************************)
(* Instances of the session store for TLC.                                 *)
(***************************************************************************)
EXTENDS SessionStore, TLC

CONSTANTS v, w, x, y

\* The odd sessions are canonical, each with the even one after it as alias.
PairAliases == [s \in Sessions |-> IF s % 2 = 1 THEN <<s + 1>> ELSE <<>>]

\* Two mutexes; a session and its alias hash apart, and the second pair the
\* other way round than the first.
CrossedShards == [s \in Sessions |-> IF s \in {1, 4} THEN x ELSE y]

WorkerSymmetry == Permutations({v, w})
=============================================================================
