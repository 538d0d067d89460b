---------------------------- MODULE MCTcpServer -----------------------------
(* Instances of TcpServer for TLC. *)
EXTENDS TcpServer, TLC

CONSTANTS c1, c2, c3
OneConn    == {c1}
NoConns    == {}
TwoConns   == {c1, c2}
ThreeConns == {c1, c2, c3}

Good    == {[protocol_id |-> 0, unit |-> 1]}
\* ... and one that the engine answers without a frame.
Refused == Good \cup {[protocol_id |-> 0, unit |-> 0]}

\* Connections are alike.
Symmetry == Permutations(Conns)
=============================================================================
