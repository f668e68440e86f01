---------------------------- MODULE MCMessageBus ----------------------------
(***************************************************************************)
(* Four publishers, one without a context, two on a full inbound channel,  *)
(* one on the timed audio stream; two goroutines call Close.               *)
(***************************************************************************)
EXTENDS MessageBus

CONSTANTS m1, m2, m3, m4, c1, c2

MCStreamOf ==
  [m \in Messages |-> CASE m = m3 -> "audio_chunk"
                        [] m = m4 -> "outbound"
                        [] OTHER  -> "inbound"]
MCCapacity == [s \in Streams |-> 1]
MCNoContext == {m4}
=============================================================================
