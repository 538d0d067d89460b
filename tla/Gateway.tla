------------------------------ MODULE Gateway ------------------------------
(***************************************************************************)
(* What the bridge engine promises to the TCP server, with nothing of the  *)
(* serial side: requests are served one at a time, in the order in which   *)
(* they were queued; each is answered at most once, towards the socket it  *)
(* came from and under its own MBAP header; the kind of answer depends on  *)
(* the request alone, but for the choice between data and exception 0x0B.  *)
(*                                                                         *)
(* bridge_engine_task is shown to implement it (BridgeEngine!GatewaySpec). *)
(***************************************************************************)
EXTENDS ModbusFrames, Sequences

CONSTANTS Frames, Socks, REQ_LEN, RESP_LEN, MaxRequests

VARIABLES
  requests,    \* bridge_request_queue
  responses,   \* bridge_response_queue
  current,     \* {} or {q}: the request that is being served
  submitted    \* requests so far; also the next transaction id

vars == <<requests, responses, current, submitted>>

(***************************************************************************)
(* An answer as the TCP server sees it.  A bare one has a status and no    *)
(* frame.                                                                  *)
(***************************************************************************)
Bare(q) == [client_sock |-> q.client_sock, kind |-> "bare",
            unit |-> 0, tid |-> 0]
Framed(q, kind) == [client_sock |-> q.client_sock, kind |-> kind,
                    unit |-> q.unit, tid |-> q.tid]

AnswersTo(q) ==
  IF q.protocol_id # 0 THEN {Framed(q, "path_unavailable")}
  ELSE IF q.unit \in 1 .. 247
       THEN {Framed(q, "data"), Framed(q, "target_failed")}
  ELSE {Bare(q)}

Init ==
  /\ requests = <<>> /\ responses = <<>>
  /\ current = {}
  /\ submitted = 0

Submit ==
  /\ submitted < MaxRequests /\ submitted' = submitted + 1
  /\ Len(requests) < REQ_LEN
  /\ \E f \in Frames, s \in Socks :
       requests' = Append(requests,
         [tid |-> submitted + 1, client_sock |-> s,
          protocol_id |-> f.protocol_id, unit |-> f.unit,
          frame_len |-> f.frame_len])
  /\ UNCHANGED <<responses, current>>

Collect ==
  /\ responses # <<>> /\ responses' = Tail(responses)
  /\ UNCHANGED <<requests, current, submitted>>

Take ==
  /\ current = {}
  /\ requests # <<>>
  /\ current' = {Head(requests)} /\ requests' = Tail(requests)
  /\ UNCHANGED <<responses, submitted>>

Answer ==
  /\ Len(responses) < RESP_LEN
  /\ \E q \in current : \E a \in AnswersTo(q) :
       responses' = Append(responses, a)
  /\ current' = {}
  /\ UNCHANGED <<requests, submitted>>

\* The answer finds the queue full for too long.
LoseAnswer ==
  /\ current # {} /\ current' = {}
  /\ Len(responses) >= RESP_LEN
  /\ UNCHANGED <<requests, responses, submitted>>

\* A request on the bus may be given up without an answer.
GiveUp ==
  /\ \E q \in current : q.protocol_id = 0 /\ q.unit \in 1 .. 247
  /\ current' = {}
  /\ UNCHANGED <<requests, responses, submitted>>

Next == Submit \/ Collect \/ Take \/ Answer \/ LoseAnswer \/ GiveUp

Spec == Init /\ [][Next]_vars
=============================================================================
