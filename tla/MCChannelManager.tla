--------------------------- MODULE MCChannelManager ---------------------------
(* The channel manager with one channel: channels meet only in the lock and  *)
(* the dispatcher.  With two reloads the deferred functions of one meet the  *)
(* other, and the calls of two instances that were stopped the third.        *)
EXTENDS ChannelManager, TLC

CONSTANT tg   \* the channel

(* What matters of a setting is whether it differs from the one before: a    *)
(* channel that is off begins with "a".                                      *)
AFirst == \A n \in Names : hashes[n] = Off => hashes'[n] # "b"

(* Bound: the reload that misleads a channel is the last.                    *)
LastMisleads == misled # {} => gen' = gen

FromA ==
  /\ Init /\ \A n \in Names : hashes[n] # "b"
  /\ [][Next /\ AFirst /\ LastMisleads]_vars /\ Fairness

=============================================================================
