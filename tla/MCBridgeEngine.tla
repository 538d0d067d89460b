--------------------------- MODULE MCBridgeEngine ---------------------------
(* Instances of BridgeEngine for TLC. *)
EXTENDS BridgeEngine

Frame(protocol, unit, len) ==
  [protocol_id |-> protocol, unit |-> unit, frame_len |-> len]

\* One slave; and good requests to two slaves next to the two kinds of bad one
\* that the TCP server lets through.
OneSlave == {Frame(0, 1, 12)}
AllKinds == {Frame(0, 1, 12), Frame(0, 2, 12), Frame(1, 1, 12), Frame(0, 0, 12)}
=============================================================================
