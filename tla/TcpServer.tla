----------------------------- MODULE TcpServer ------------------------------
(***************************************************************************)
(* tcp_server.c: the TCP server task, on top of what the bridge engine     *)
(* promises it (Gateway) and of lwIP's sockets as the task uses them.      *)
(*                                                                         *)
(* A connection is one client's TCP connection; a client that comes back   *)
(* is another connection.  A descriptor is free again when it is closed,   *)
(* and lwIP gives out the lowest free one.  Requests of 12 bytes travel on *)
(* a connection as a stream of halves of 6 bytes, so that a recv can       *)
(* return a part of a request, one request or more than one.               *)
(*                                                                         *)
(* Time is counted in units of a service: one unit is as long as a request *)
(* can keep the bridge engine busy (BridgeTiming!ServiceBounded, 1.301 s), *)
(* which is longer than the server's loop (select 100 ms and a 100 ms wait *)
(* for each of 4 clients).  Only lwip_send has no limit: a client that     *)
(* reads nothing more blocks the task, and such a block is in the model,   *)
(* but one that lasts for more than a unit is not, as regards the time.    *)
(***************************************************************************)
EXTENDS ModbusFrames, Sequences, FiniteSets

CONSTANTS
  Conns,            \* connections that clients may open
  NoConn,           \* none of them
  MAX_TCP_CLIENTS,
  REQ_LEN,          \* BRIDGE_REQUEST_QUEUE_LEN
  RESP_LEN,         \* BRIDGE_RESPONSE_QUEUE_LEN
  Chunks,           \* halves that one recv may return, 2 for a whole request
  Headers,          \* [protocol_id, unit] that requests may carry
  SelectFailures,   \* TRUE if lwip_select may fail
  Stalling,         \* connections whose clients may stop reading
  IDLE,             \* CLIENT_IDLE_TIMEOUT_MS in units
  TICK_MOD,         \* where uwTick wraps (2^32 in the code), in units
  FirstTicks,       \* values of uwTick to begin with
  MaxTicks,         \* bound: units of time in a behaviour
  MaxRequests       \* bound: requests that the clients send in all

ASSUME ServerAssumption ==
  /\ IsFiniteSet(Conns) /\ NoConn \notin Conns
  /\ MAX_TCP_CLIENTS \in Nat \ {0}
  /\ REQ_LEN \in Nat \ {0} /\ RESP_LEN \in Nat \ {0}
  /\ Chunks \subseteq 1 .. 43 /\ SelectFailures \in BOOLEAN
  /\ Stalling \subseteq Conns
  /\ Headers \subseteq [protocol_id : Nat, unit : 0 .. 255]
  /\ IDLE \in Nat \ {0} /\ TICK_MOD \in Nat /\ IDLE + 1 < TICK_MOD
  /\ FirstTicks \subseteq 0 .. TICK_MOD - 1
  /\ MaxTicks \in Nat /\ MaxRequests \in Nat

VARIABLES
  requests, responses, current, submitted,   \* see Gateway
  client_sockets,       \* [Slots -> descriptor, or -1]
  client_last_active,   \* [Slots -> uwTick]
  pc, slot,             \* where the task is, and i of the client loop
  readfds,              \* client descriptors select found ready
  listen_ready,         \* ... and the listening socket
  select_failed,
  req,                  \* the request being forwarded
  sending,              \* connection that lwip_send is blocked on, or NoConn
  sockets,              \* lwIP: [Fds -> connection, or NoConn]
  backlog,              \* connections waiting to be accepted
  conn,                 \* [Conns -> "new", "backlog", "open" or "closed"]
  sent, taken,          \* halves that the client sent, that recv returned
  fin,                  \* the client has closed its side
  stalled,              \* clients that read nothing more
  uwTick, ticks,        \* HAL tick, and units in all
  overdue,              \* who has to finish before the next unit is over
  origin,               \* history: [tid -> connection it was received on]
  place,                \* history: [tid -> halves received before it]
  delivered,            \* history: [tid -> connection it was answered on]
  age                   \* history: [Slots -> units since last active]

gateway_vars == <<requests, responses, current, submitted>>
client_vars  == <<client_sockets, client_last_active, age>>
select_vars  == <<readfds, listen_ready, select_failed>>
loop_vars    == <<pc, slot, select_vars, req, sending>>
net_vars     == <<sockets, backlog, conn, sent, taken, fin, stalled>>
time_vars    == <<uwTick, ticks, overdue>>
hist_vars    == <<origin, place, delivered>>
vars == <<gateway_vars, client_vars, loop_vars, net_vars, time_vars, hist_vars>>

Slots == 1 .. MAX_TCP_CLIENTS
Fds   == 1 .. MAX_TCP_CLIENTS + 1    \* one more to refuse a client with
Tids  == 1 .. MaxRequests

\* What BridgeEngine expects to be forwarded to it.
Frames == [protocol_id : {h.protocol_id : h \in Headers},
           unit : {h.unit : h \in Headers}, frame_len : ForwardedLen]

G == INSTANCE Gateway WITH Socks <- Fds

NoRequest == [tid |-> 0, client_sock |-> -1, protocol_id |-> 0, unit |-> 0,
              frame_len |-> 0]

Init ==
  /\ G!Init
  /\ client_sockets = [i \in Slots |-> -1]
  /\ client_last_active = [i \in Slots |-> 0] /\ age = [i \in Slots |-> 0]
  /\ pc = "select" /\ slot = 1 /\ readfds = {} /\ listen_ready = FALSE
  /\ select_failed = FALSE /\ req = NoRequest /\ sending = NoConn
  /\ sockets = [d \in Fds |-> NoConn] /\ backlog = <<>>
  /\ conn = [c \in Conns |-> "new"]
  /\ sent = [c \in Conns |-> 0] /\ taken = [c \in Conns |-> 0]
  /\ fin = [c \in Conns |-> FALSE] /\ stalled = {}
  /\ uwTick \in FirstTicks /\ ticks = 0 /\ overdue = {}
  /\ origin = [t \in Tids |-> NoConn] /\ delivered = [t \in Tids |-> NoConn]
  /\ place = [t \in Tids |-> 0]

-----------------------------------------------------------------------------
(* Clients and network.                                                    *)

Connect(c) ==
  /\ conn[c] = "new" /\ Len(backlog) < MAX_TCP_CLIENTS
  /\ conn' = [conn EXCEPT ![c] = "backlog"]
  /\ backlog' = Append(backlog, c)
  /\ UNCHANGED <<sockets, sent, taken, fin, stalled>>

\* The halves of requests before the place upto[c] in the stream of each c.
Halves(upto) ==
  {x \in Conns \X (0 .. 2 * MaxRequests - 1) : x[2] < upto[x[1]]}

\* A whole request; how much of it each recv returns is decided there.  All
\* clients together send at most MaxRequests.
ClientSends(c) ==
  /\ conn[c] \in {"backlog", "open"} /\ ~fin[c]
  /\ Cardinality(Halves(sent)) + 2 <= 2 * MaxRequests
  /\ sent' = [sent EXCEPT ![c] = @ + 2]
  /\ UNCHANGED <<sockets, backlog, conn, taken, fin, stalled>>

ClientCloses(c) ==
  /\ conn[c] \in {"backlog", "open"} /\ ~fin[c]
  /\ fin' = [fin EXCEPT ![c] = TRUE]
  /\ UNCHANGED <<sockets, backlog, conn, sent, taken, stalled>>

\* It reads no more: its window and lwIP's send buffer fill up ...
ClientStalls(c) ==
  /\ c \in Stalling \ stalled /\ conn[c] = "open"
  /\ stalled' = stalled \cup {c}
  /\ UNCHANGED <<sockets, backlog, conn, sent, taken, fin>>

\* ... until it reads again, or its connection is lost.
ClientReads(c) ==
  /\ c \in stalled
  /\ stalled' = stalled \ {c}
  /\ UNCHANGED <<sockets, backlog, conn, sent, taken, fin>>

Network ==
  /\ \E c \in Conns : \/ Connect(c) \/ ClientSends(c) \/ ClientCloses(c)
                      \/ ClientStalls(c) \/ ClientReads(c)
  /\ UNCHANGED <<gateway_vars, client_vars, loop_vars, time_vars, hist_vars>>

\* lwip_recv would return at once.
Readable(c) == sent[c] > taken[c] \/ fin[c]

-----------------------------------------------------------------------------
(* The bridge engine.                                                      *)

Engine ==
  /\ \/ G!Take /\ overdue' = overdue
     \/ /\ G!Answer \/ G!LoseAnswer \/ G!GiveUp
        /\ overdue' = overdue \ {"engine"}
  /\ UNCHANGED <<client_vars, loop_vars, net_vars, hist_vars, uwTick, ticks>>

-----------------------------------------------------------------------------
(* The TCP server task.                                                    *)

UsedFds == {client_sockets[i] : i \in Slots} \ {-1}

\* Mutant: readfds is not cleared before it is filled.
SelectReturns_Stale ==
  /\ readfds' = readfds \cup {d \in UsedFds : Readable(sockets[d])}
  /\ listen_ready' = (backlog # <<>>)
  /\ select_failed' = FALSE

\* select returns what is ready, or nothing after 100 ms ...
SelectReturns ==
  /\ readfds' = {d \in UsedFds : Readable(sockets[d])}
  /\ listen_ready' = (backlog # <<>>)
  /\ select_failed' = FALSE

\* ... or fails, and readfds stays as it was filled.
SelectFails ==
  /\ SelectFailures
  /\ readfds' = UsedFds
  /\ listen_ready' = FALSE       \* activity > 0 is tested as well
  /\ select_failed' = TRUE

Select ==
  /\ pc = "select" /\ pc' = "accept" /\ slot' = 1
  /\ SelectReturns \/ SelectFails
  /\ UNCHANGED <<gateway_vars, client_vars, net_vars, time_vars, hist_vars,
                 req, sending>>

Lowest(S) == CHOOSE x \in S : \A y \in S : x <= y
FreeFd == Lowest({d \in Fds : sockets[d] = NoConn})
FreeSlots == {i \in Slots : client_sockets[i] < 0}

\* lwip_accept and find_free_slot: a client there is no slot for is closed.
Admit(c) ==
  /\ FreeSlots # {}
  /\ LET i == Lowest(FreeSlots) IN
     /\ client_sockets' = [client_sockets EXCEPT ![i] = FreeFd]
     /\ client_last_active' = [client_last_active EXCEPT ![i] = uwTick]
     /\ age' = [age EXCEPT ![i] = 0]
  /\ sockets' = [sockets EXCEPT ![FreeFd] = c]
  /\ conn' = [conn EXCEPT ![c] = "open"]

\* Mutant: the client that is one too many is not closed.
Refuse_Leaks(c) ==
  /\ FreeSlots = {}
  /\ sockets' = [sockets EXCEPT ![FreeFd] = c]
  /\ conn' = [conn EXCEPT ![c] = "open"]
  /\ UNCHANGED client_vars

Refuse(c) ==
  /\ FreeSlots = {}
  /\ conn' = [conn EXCEPT ![c] = "closed"]
  /\ UNCHANGED <<client_vars, sockets>>

\* lwip_accept returns no socket: the client is gone, or there is no memory.
AcceptFails(c) ==
  /\ conn' = [conn EXCEPT ![c] = "closed"]
  /\ UNCHANGED <<client_vars, sockets>>

Accept ==
  /\ pc = "accept" /\ pc' = "clients"
  /\ \/ /\ listen_ready
        /\ backlog' = Tail(backlog)
        /\ \/ Admit(Head(backlog)) \/ Refuse(Head(backlog))
           \/ AcceptFails(Head(backlog))
     \/ ~listen_ready /\ UNCHANGED <<backlog, conn, sockets, client_vars>>
  /\ UNCHANGED <<gateway_vars, time_vars, hist_vars, sent, taken, fin, stalled,
                 slot, select_vars, req, sending>>

\* close_client, for the slots of a set.
close_client(S) ==
  /\ sockets' = [d \in Fds |-> IF \E i \in S : client_sockets[i] = d
                               THEN NoConn ELSE sockets[d]]
  /\ conn' = [c \in Conns |->
       IF \E i \in S : client_sockets[i] > 0 /\ sockets[client_sockets[i]] = c
       THEN "closed" ELSE conn[c]]
  /\ client_sockets' = [i \in Slots |-> IF i \in S THEN -1 ELSE client_sockets[i]]

\* The clients that the rest of the loop will read from.
ReadySlots == {i \in Slots : i >= slot /\ client_sockets[i] \in readfds}

\* Mutant: the length of the MBAP fields before the unit taken for the header.
LongEnough_Six(len) == len >= 6

LongEnough(len) == len >= 8

\* Mutant: recv leaves what it returns (MSG_PEEK).
Consume_Not(c, k) == taken' = taken

Consume(c, k) == taken' = [taken EXCEPT ![c] = @ + k]

\* Mutant: only accepting a client counts as activity.
Touch_Not(i) == UNCHANGED <<client_last_active, age>>

Touch(i) ==
  /\ client_last_active' = [client_last_active EXCEPT ![i] = uwTick]
  /\ age' = [age EXCEPT ![i] = 0]

\* recv returns some of what has come.  Less than 8 bytes are thrown away.
RecvData(i, c) ==
  /\ sent[c] > taken[c]
  /\ \E k \in Chunks :
       /\ k <= sent[c] - taken[c]
       /\ Consume(c, k)
       /\ \/ /\ ~LongEnough(6 * k)
             /\ UNCHANGED <<pc, req, client_last_active, age, place, origin>>
          \/ /\ LongEnough(6 * k)
             /\ pc' = "forward"
             /\ \E h \in Headers :
                  req' = [tid |-> submitted + 1,
                          client_sock |-> client_sockets[i],
                          protocol_id |-> h.protocol_id, unit |-> h.unit,
                          frame_len |-> 6 * k]
             /\ Touch(i)
             /\ place' = [place EXCEPT ![submitted + 1] = taken[c]]
             /\ origin' = [origin EXCEPT ![submitted + 1] = c]
  /\ UNCHANGED <<client_sockets, sockets, conn>>

\* recv returns 0 or an error; without data or FIN it does not wait
\* (sys_arch.c:171 and 93 take the timeout 0 for "do not wait").
RecvNothing(i, c) ==
  /\ sent[c] <= taken[c]
  /\ close_client({i})
  /\ UNCHANGED <<taken, pc, req, client_last_active, age, place, origin>>

Recv ==
  /\ pc = "clients" /\ ReadySlots # {}
  /\ LET i == Lowest(ReadySlots)
         c == sockets[client_sockets[i]]
     IN  /\ slot' = i + 1
         /\ RecvData(i, c) \/ RecvNothing(i, c)
  /\ UNCHANGED <<gateway_vars, time_vars, sent, backlog, fin, stalled,
                 select_vars, sending, delivered>>

\* xQueueSend(bridge_request_queue, &req, 100 ms).
Forward ==
  /\ pc = "forward" /\ pc' = "clients"
  /\ \/ /\ Len(requests) < REQ_LEN
        /\ requests' = Append(requests, req)
        /\ submitted' = submitted + 1
        /\ UNCHANGED <<origin, place>>
     \/ /\ Len(requests) >= REQ_LEN
        /\ origin' = [origin EXCEPT ![req.tid] = NoConn]
        /\ place' = [place EXCEPT ![req.tid] = 0]
        /\ UNCHANGED <<requests, submitted>>
  /\ req' = NoRequest
  /\ UNCHANGED <<responses, current, client_vars, net_vars, time_vars,
                 delivered, slot, select_vars, sending>>

ClientsDone ==
  /\ pc = "clients" /\ ReadySlots = {} /\ pc' = "responses"
  /\ UNCHANGED <<gateway_vars, client_vars, net_vars, time_vars, hist_vars,
                 slot, select_vars, req, sending>>

\* What is sent of the answers: of those with an error status, 0x0B goes out
\* if the byte exception_code happens not to be 0, and those of STEP 1 do not.
SentKinds(a) ==
  CASE a.kind \in {"data", "path_unavailable"} -> {TRUE}
    [] a.kind = "target_failed" -> {TRUE, FALSE}
    [] OTHER -> {FALSE}

\* Mutant: any connected client will do.
TargetSock_First(a) == IF UsedFds = {} THEN 0 ELSE Lowest(UsedFds)

TargetSock(a) == a.client_sock

\* The socket is a blocking one and the result is not looked at: lwip_send may
\* fail, possibly with a part of the answer sent (whether it will is decided at
\* once here), and for a stalled client it may block.
lwip_send(t, c) ==
  /\ delivered' \in {delivered, [delivered EXCEPT ![t] = c]}
  /\ \/ UNCHANGED <<pc, sending>>
     \/ c \in stalled /\ pc' = "sending" /\ sending' = c

Respond ==
  /\ pc = "responses" /\ responses # <<>>
  /\ responses' = Tail(responses)
  /\ LET a == Head(responses) IN
     \/ /\ FALSE \in SentKinds(a) \/ TargetSock(a) \notin UsedFds
        /\ UNCHANGED <<delivered, pc, sending>>
     \/ /\ TRUE \in SentKinds(a) /\ TargetSock(a) \in UsedFds
        /\ lwip_send(a.tid, sockets[TargetSock(a)])
  /\ UNCHANGED <<requests, current, submitted, client_vars, slot, select_vars,
                 req, net_vars, time_vars, origin, place>>

SendReturns ==
  /\ pc = "sending" /\ sending \notin stalled
  /\ pc' = "responses" /\ sending' = NoConn
  /\ UNCHANGED <<gateway_vars, client_vars, net_vars, time_vars, hist_vars,
                 slot, select_vars, req>>

\* Mutant: one response in a round of the loop.
NoMoreResponses_One == pc = "responses" /\ pc' = "idle"

NoMoreResponses == pc = "responses" /\ responses = <<>> /\ pc' = "idle"

ResponsesDone ==
  /\ NoMoreResponses
  /\ UNCHANGED <<gateway_vars, client_vars, net_vars, time_vars, hist_vars,
                 slot, select_vars, req, sending>>

\* Mutant: the difference is not taken modulo the width of the counter.
Elapsed_NoWrap(i) == uwTick - client_last_active[i]

Elapsed(i) == (uwTick - client_last_active[i]) % TICK_MOD

IdleSlots == {i \in Slots : client_sockets[i] >= 0 /\ Elapsed(i) >= IDLE}

CloseIdle ==
  /\ pc = "idle" /\ pc' = "select"
  /\ close_client(IdleSlots)
  /\ overdue' = overdue \ {"server"}
  /\ UNCHANGED <<gateway_vars, hist_vars, client_last_active, age, slot,
                 select_vars, req, sending, backlog, sent, taken, fin, stalled,
                 uwTick, ticks>>

Server ==
  \/ Select \/ Accept \/ Recv \/ Forward \/ ClientsDone
  \/ Respond \/ SendReturns \/ ResponsesDone \/ CloseIdle

-----------------------------------------------------------------------------
(* One unit of time passes.  The engine takes a request as soon as it can  *)
(* and is done with it in at most one unit; the server's loop is shorter.  *)

Tick ==
  /\ ticks < MaxTicks /\ ticks' = ticks + 1
  /\ overdue = {} /\ ~(current = {} /\ requests # <<>>)
  /\ overdue' = {"server"} \cup (IF current = {} THEN {} ELSE {"engine"})
  /\ uwTick' = (uwTick + 1) % TICK_MOD
  /\ age' = [i \in Slots |-> age[i] + 1]
  /\ UNCHANGED <<gateway_vars, client_sockets, client_last_active, loop_vars,
                 net_vars, hist_vars>>

Next == Network \/ Engine \/ Server \/ Tick

Spec == Init /\ [][Next]_vars

\* select and the request queue wait with a timeout, and lwip_send goes on as
\* often as the client it is blocked on reads (strong fairness: the data moves
\* in lwIP's thread); the engine's task is never blocked for good either
\* (BridgeEngine).  Clients promise nothing.
FairSpec ==
  Spec /\ WF_vars(Server) /\ SF_vars(SendReturns) /\ WF_vars(Engine)

-----------------------------------------------------------------------------
(* Correctness.                                                            *)

\* Types; each open descriptor is in exactly one slot and each slot's is open:
\* no way through the loop loses a descriptor or keeps a closed one.
SlotsMatchDescriptors ==
  /\ \A d \in Fds : sockets[d] # NoConn <=> d \in UsedFds
  /\ \A i, j \in Slots :
       client_sockets[i] = client_sockets[j] /\ client_sockets[i] # -1 => i = j
  /\ \A i \in Slots : client_sockets[i] \in Fds \cup {-1}
  /\ \A c \in Conns : conn[c] = "open" <=> \E d \in Fds : sockets[d] = c

\* lwip_recv is called for a client only if it has something for the task, so
\* that the loop waits nowhere but in select and for the two queues, and no
\* healthy client is closed: readfds is never stale when it is used, although
\* descriptors are opened, closed and reused in between.
RecvOnlyWhenReady ==
  pc = "clients" /\ ~select_failed =>
    \A i \in ReadySlots : sockets[client_sockets[i]] # NoConn
                          /\ Readable(sockets[client_sockets[i]])

\* The task keeps to the contract of the queues: it forwards only what the
\* engine is specified for (BridgeAssumption), one request at a time, in order
\* and within the queue's length, and takes each response once.
GatewaySpec == G!Spec

\* The two tasks never wait for one another: while the server waits for room
\* in the request queue, the engine does not wait for room in the response
\* queue, which only the server can make.
ServerWaits == pc = "forward" /\ Len(requests) >= REQ_LEN
EngineWaits == current # {} /\ Len(responses) >= RESP_LEN
NoCircularWait == ~(ServerWaits /\ EngineWaits)

\* An answer reaches another client than the one that asked only after the
\* latter's connection was closed, its descriptor being in use again.
StrayOnlyAfterClose ==
  \A t \in Tids : delivered[t] # NoConn =>
    delivered[t] = origin[t] \/ conn[origin[t]] = "closed"

\* A client gets at most one answer to a request, and its answers in the order
\* of its requests, whatever the queues drop in between.
AnswersInOrder ==
  [][\A t \in Tids : delivered'[t] # delivered[t] =>
       /\ delivered[t] = NoConn
       /\ \A u \in Tids :
            origin[u] = origin[t] /\ delivered[u] # NoConn
              => place[u] < place[t]
    ]_vars

\* A client is closed as idle exactly when it has been idle for that long,
\* also when uwTick wraps in between.
IdleExact ==
  pc = "idle" => \A i \in Slots :
    client_sockets[i] >= 0 => (i \in IdleSlots <=> age[i] >= IDLE)

\* A client is never closed as idle while its request is still on its way
\* through the bridge, however many are before it in the queue, as long as no
\* client that stops reading blocks the server for more than a unit.  It takes
\* an IDLE of at least REQ_LEN + 4 units; in the code it is 23, and REQ_LEN 8.
Outstanding(t) ==
  \/ \E i \in 1 .. Len(requests) : requests[i].tid = t
  \/ \E q \in current : q.tid = t
  \/ \E i \in 1 .. Len(responses) : responses[i].tid = t
IdleHasNothingOutstanding ==
  pc = "idle" => \A i \in IdleSlots : \A t \in Tids :
    origin[t] = sockets[client_sockets[i]] => ~Outstanding(t)

\* Every client in the backlog is accepted or refused, what a connected client
\* sends is received, and its slot is freed when it closes, provided no client
\* stops reading for good while its connection lasts: one that does would block
\* the task in lwip_send, and nobody is served any more.
EveryClientServed ==
  (\A c \in Conns : []<>(c \notin stalled)) =>
    \A c \in Conns :
      /\ conn[c] = "backlog" ~> conn[c] # "backlog"
      /\ conn[c] = "open" /\ Readable(c) ~>
           conn[c] = "closed" \/ (conn[c] = "open" /\ ~Readable(c))

-----------------------------------------------------------------------------
(* What the documentation says and the code does not do.                   *)

\* An answer reaches the client that asked, or nobody: "back to originating
\* client socket" (tcp_server.c:19), "Response sent to the original TCP client"
\* (USER_MANUAL.md:145).
AnswersReachAsker ==
  \A t \in Tids : delivered[t] # NoConn => delivered[t] = origin[t]

=============================================================================
