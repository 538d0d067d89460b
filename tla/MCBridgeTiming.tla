--------------------------- MODULE MCBridgeTiming ---------------------------
(* Instances of BridgeTiming for TLC. *)
EXTENDS BridgeTiming

Frame(unit, len) == [protocol_id |-> 0, unit |-> unit, frame_len |-> len]

\* A read request (8 characters on the line); the longest request that the
\* polling loop is sure to let finish (172 characters).
ReadRequest     == {Frame(1, 12)}
ShortAndLongest == {Frame(1, 12), Frame(1, 176)}

\* The slowest slave that is prompt, the quickest and the slowest that are
\* late, one that would answer into the wait for the next request if that came
\* too early, and a silent one.
SlaveDelays == {1432, 2434, 7600, 1096708, Never}
=============================================================================
