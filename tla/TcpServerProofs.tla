--------------------------- MODULE TcpServerProofs --------------------------
(***************************************************************************)
(* Theorems about TcpServer, for any number of clients, slots and queue    *)
(* places: slots and descriptors match; recv is called only for a client   *)
(* that has something; an answer goes astray only after a close, and       *)
(* answers keep the order of the requests; clients are closed as idle at   *)
(* the right time, and not while a request of theirs is on its way; the    *)
(* two tasks do not wait for one another; and the server keeps to the      *)
(* contract of the queues (Gateway).                                       *)
(***************************************************************************)
EXTENDS TcpServer, FiniteSetTheorems, WellFoundedInduction, TLAPS

-----------------------------------------------------------------------------
(* The slots, lwIP's descriptors and the connections.                      *)

\* Lowest is what its name says.
LEMMA LowestIsMinimal ==
  ASSUME NEW S \in SUBSET Nat, S # {}
  PROVE  Lowest(S) \in S /\ \A y \in S : Lowest(S) <= y
<1> DEFINE R == {ss \in Nat \X Nat : ss[1] < ss[2]}
<1>1. IsWellFoundedOn(R, Nat)
  BY NatLessThanWellFounded DEF OpToRel
<1>2. ASSUME NEW x \in Nat, NEW y \in Nat, y < x PROVE <<y, x>> \in R
  BY <1>2
<1> HIDE DEF R
<1>3. PICK x \in S : \A y \in S : ~(<<y, x>> \in R)
  BY <1>1, WFMin
<1>4. ASSUME NEW y \in S PROVE x <= y
  <2>1. ~(y < x)
    BY <1>2, <1>3
  <2>2. QED
    BY <2>1
<1>5. QED
  BY <1>4 DEF Lowest

NetTypes ==
  /\ client_sockets \in [Slots -> Fds \cup {-1}]
  /\ sockets \in [Fds -> Conns \cup {NoConn}]
  /\ conn \in [Conns -> {"new", "backlog", "open", "closed"}]
  /\ backlog \in Seq(Conns)
  /\ sent \in [Conns -> Nat] /\ taken \in [Conns -> Nat]
LoopTypes ==
  /\ readfds \subseteq Fds /\ listen_ready \in BOOLEAN
  /\ pc \in {"select", "accept", "clients", "forward", "responses", "sending",
             "idle"}
  /\ slot \in 1 .. MAX_TCP_CLIENTS + 1

\* One descriptor for a slot in use, one connection for a descriptor.
SlotsInv ==
  /\ \A d \in Fds : sockets[d] # NoConn <=> \E i \in Slots : client_sockets[i] = d
  /\ \A i, j \in Slots :
       client_sockets[i] = client_sockets[j] /\ client_sockets[i] # -1 => i = j
ConnInv ==
  /\ \A d, e \in Fds : sockets[d] = sockets[e] /\ sockets[d] # NoConn => d = e
  /\ \A c \in Conns : conn[c] = "open" <=> \E d \in Fds : sockets[d] = c
BacklogInv ==
  /\ \A i \in 1 .. Len(backlog) : conn[backlog[i]] = "backlog"
  /\ \A i, j \in 1 .. Len(backlog) : backlog[i] = backlog[j] => i = j
AcceptInv ==
  pc = "accept" =>
    /\ listen_ready => backlog # <<>>
    /\ \A d \in readfds : \E i \in Slots : client_sockets[i] = d
NetInv == NetTypes /\ LoopTypes /\ SlotsInv /\ ConnInv /\ BacklogInv /\ AcceptInv

LEMMA FdsAndSlots ==
  /\ Fds \subseteq Nat /\ Slots \subseteq Nat /\ Slots \subseteq Fds
  /\ -1 \notin Fds /\ NoConn \notin Conns /\ 1 \in Slots
BY ServerAssumption DEF Fds, Slots

LEMMA UsedFdsMeans ==
  ASSUME NetTypes
  PROVE  UsedFds \subseteq Fds
         /\ \A d \in Fds : d \in UsedFds <=> \E i \in Slots : client_sockets[i] = d
BY FdsAndSlots DEF UsedFds, NetTypes

\* lwIP has a descriptor for one more client than there are slots.
LEMMA FreeFdExists ==
  ASSUME NetTypes, SlotsInv
  PROVE  FreeFd \in Fds /\ sockets[FreeFd] = NoConn
<1> DEFINE F == {d \in Fds : sockets[d] = NoConn}
<1>1. F # {}
  <2>1. SUFFICES ASSUME \A d \in Fds : sockets[d] # NoConn PROVE FALSE
    OBVIOUS
  <2> DEFINE f == [d \in Fds |-> CHOOSE i \in Slots : client_sockets[i] = d]
  <2>2. \A d \in Fds : f[d] \in Slots /\ client_sockets[f[d]] = d
    BY <2>1 DEF SlotsInv
  <2>3. f \in [Fds -> Slots]
    BY <2>2
  <2>4. /\ IsFiniteSet(Fds) /\ IsFiniteSet(Slots)
        /\ Cardinality(Slots) < Cardinality(Fds)
    BY FS_Interval, ServerAssumption DEF Fds, Slots
  <2> HIDE DEF f
  <2>5. PICK d \in Fds, e \in Fds : d # e /\ f[d] = f[e]
    BY <2>3, <2>4, FS_PigeonHole
  <2>6. QED
    BY <2>2, <2>5
<1>2. F \in SUBSET Nat
  BY FdsAndSlots
<1>3. Lowest(F) \in F
  BY <1>1, <1>2, LowestIsMinimal
<1>4. QED
  BY <1>3 DEF FreeFd

\* The slot that find_free_slot returns.
LEMMA FreeSlotIsFree ==
  ASSUME NetTypes, FreeSlots # {}
  PROVE  Lowest(FreeSlots) \in Slots /\ client_sockets[Lowest(FreeSlots)] = -1
<1>1. FreeSlots \in SUBSET Nat /\ FreeSlots \subseteq Slots
  BY FdsAndSlots DEF FreeSlots
<1>2. Lowest(FreeSlots) \in FreeSlots
  BY <1>1, LowestIsMinimal
<1>3. \A i \in FreeSlots : i \in Slots /\ client_sockets[i] = -1
  BY ServerAssumption DEF FreeSlots, NetTypes, Fds
<1>4. QED
  BY <1>2, <1>3

\* The client that recv is called for has a connection.
LEMMA ReadySlotMeans ==
  ASSUME NetTypes, LoopTypes, SlotsInv, NEW i \in ReadySlots
  PROVE  /\ i \in Slots /\ i >= slot /\ client_sockets[i] \in Fds
         /\ sockets[client_sockets[i]] \in Conns
BY DEF ReadySlots, NetTypes, LoopTypes, SlotsInv

LEMMA LowestReadySlot ==
  ASSUME ReadySlots # {}
  PROVE  Lowest(ReadySlots) \in ReadySlots
<1>1. ReadySlots \in SUBSET Nat
  BY FdsAndSlots DEF ReadySlots
<1>2. QED
  BY <1>1, LowestIsMinimal

\* close_client keeps slots, descriptors and connections together.
LEMMA CloseKeeps ==
  ASSUME NetTypes, SlotsInv, ConnInv, BacklogInv, NEW S \in SUBSET Slots,
         close_client(S), UNCHANGED <<backlog, sent>>, taken' = taken
  PROVE  /\ NetTypes' /\ SlotsInv' /\ ConnInv' /\ BacklogInv'
         /\ \A c \in Conns : conn'[c] = conn[c] \/ conn'[c] = "closed"
         /\ \A d \in Fds :
              \/ sockets'[d] = sockets[d]
              \/ /\ sockets[d] \in Conns /\ sockets'[d] = NoConn
                 /\ conn'[sockets[d]] = "closed"
         /\ \A i \in Slots : client_sockets'[i] # -1 =>
              /\ i \notin S /\ client_sockets'[i] = client_sockets[i]
              /\ sockets'[client_sockets[i]] = sockets[client_sockets[i]]
<1>1. \A i \in Slots : client_sockets[i] > 0 <=> client_sockets[i] # -1
  BY FdsAndSlots DEF NetTypes, Fds
<1>2. /\ \A d \in Fds : sockets'[d] = IF \E i \in S : client_sockets[i] = d
                                      THEN NoConn ELSE sockets[d]
      /\ \A i \in Slots : client_sockets'[i] = IF i \in S THEN -1
                                               ELSE client_sockets[i]
      /\ \A c \in Conns : conn'[c] =
           IF \E i \in S : client_sockets[i] # -1 /\ sockets[client_sockets[i]] = c
           THEN "closed" ELSE conn[c]
  BY <1>1 DEF close_client
<1>3. NetTypes'
  BY <1>2 DEF NetTypes, close_client
<1>4. SlotsInv'
  <2>1. ASSUME NEW d \in Fds, sockets'[d] # NoConn
        PROVE  \E i \in Slots : client_sockets'[i] = d
    <3>1. PICK i \in Slots : client_sockets[i] = d
      BY <1>2, <2>1 DEF SlotsInv
    <3>2. i \notin S
      BY <1>2, <2>1, <3>1
    <3>3. QED
      BY <1>2, <3>1, <3>2
  <2>2. ASSUME NEW d \in Fds, NEW i \in Slots, client_sockets'[i] = d
        PROVE  sockets'[d] # NoConn
    <3>1. i \notin S /\ client_sockets[i] = d /\ d # -1
      BY <1>2, <2>2, FdsAndSlots
    <3>2. ~ \E j \in S : client_sockets[j] = d
      BY <3>1 DEF SlotsInv
    <3>3. QED
      BY <1>2, <3>1, <3>2 DEF SlotsInv
  <2>3. \A i, j \in Slots :
          client_sockets'[i] = client_sockets'[j] /\ client_sockets'[i] # -1 => i = j
    BY <1>2 DEF SlotsInv
  <2>4. QED
    BY <2>1, <2>2, <2>3 DEF SlotsInv
<1>5. \A d \in Fds :
        \/ sockets'[d] = sockets[d]
        \/ /\ sockets[d] \in Conns /\ sockets'[d] = NoConn
           /\ conn'[sockets[d]] = "closed"
  BY <1>2, FdsAndSlots DEF SlotsInv, NetTypes
<1>6. ConnInv'
  <2>1. \A d, e \in Fds :
          sockets'[d] = sockets'[e] /\ sockets'[d] # NoConn => d = e
    BY <1>2 DEF ConnInv
  <2>2. ASSUME NEW c \in Conns, conn'[c] = "open"
        PROVE  \E d \in Fds : sockets'[d] = c
    <3>1. PICK d \in Fds : sockets[d] = c
      BY <1>2, <2>2 DEF ConnInv
    <3>2. ~ \E i \in S : client_sockets[i] = d
      BY <1>2, <2>2, <3>1, FdsAndSlots
    <3>3. QED
      BY <1>2, <3>1, <3>2
  <2>3. ASSUME NEW c \in Conns, NEW d \in Fds, sockets'[d] = c
        PROVE  conn'[c] = "open"
    <3>1. sockets[d] = c /\ ~ \E i \in S : client_sockets[i] = d
      BY <1>2, <2>3, FdsAndSlots
    <3>2. conn[c] = "open"
      BY <3>1 DEF ConnInv
    <3>3. \A i \in S : client_sockets[i] # -1 => sockets[client_sockets[i]] # c
      BY <3>1, FdsAndSlots DEF NetTypes, ConnInv
    <3>4. QED
      BY <1>2, <3>2, <3>3
  <2>4. QED
    BY <2>1, <2>2, <2>3 DEF ConnInv
<1>7. BacklogInv'
  <2>1. \A i \in 1 .. Len(backlog) : backlog[i] \in Conns
    BY DEF NetTypes
  <2>2. \A i \in S : client_sockets[i] # -1 =>
          conn[sockets[client_sockets[i]]] = "open"
    BY FdsAndSlots DEF NetTypes, SlotsInv, ConnInv
  <2>3. QED
    BY <1>2, <2>1, <2>2 DEF BacklogInv
<1>8. \A c \in Conns : conn'[c] = conn[c] \/ conn'[c] = "closed"
  BY <1>2
<1>9. \A i \in Slots : client_sockets'[i] # -1 =>
        /\ i \notin S /\ client_sockets'[i] = client_sockets[i]
        /\ sockets'[client_sockets[i]] = sockets[client_sockets[i]]
  BY <1>2 DEF NetTypes, SlotsInv
<1>10. QED
  BY <1>3, <1>4, <1>5, <1>6, <1>7, <1>8, <1>9

\* Steps that leave the connections alone.
LEMMA NetFrame ==
  ASSUME NetTypes, SlotsInv, ConnInv, BacklogInv,
         UNCHANGED <<client_sockets, sockets, conn, backlog>>,
         sent' \in [Conns -> Nat], taken' \in [Conns -> Nat]
  PROVE  NetTypes' /\ SlotsInv' /\ ConnInv' /\ BacklogInv'
BY DEF NetTypes, SlotsInv, ConnInv, BacklogInv

\* Clients connect, send and close; the server's loop is where it was.
LEMMA NetworkKeeps ==
  ASSUME NetInv, Network
  PROVE  /\ NetInv'
         /\ UNCHANGED <<client_sockets, sockets>>
         /\ \A c \in Conns : /\ conn[c] = "closed" <=> conn'[c] = "closed"
                             /\ Readable(c) => Readable(c)'
<1>1. PICK c \in Conns : \/ Connect(c) \/ ClientSends(c) \/ ClientCloses(c)
                         \/ ClientStalls(c) \/ ClientReads(c)
  BY DEF Network
<1>2. UNCHANGED <<client_sockets, readfds, listen_ready, pc, slot, sockets, taken>>
  BY <1>1 DEF Network, client_vars, loop_vars, select_vars, Connect,
     ClientSends, ClientCloses, ClientStalls, ClientReads
<1>3. LoopTypes'
  BY <1>2 DEF NetInv, LoopTypes
<1>4. CASE Connect(c)
  <2>1. /\ conn[c] = "new" /\ conn' = [conn EXCEPT ![c] = "backlog"]
        /\ backlog' = Append(backlog, c) /\ UNCHANGED <<sent, fin>>
    BY <1>4 DEF Connect
  <2>2. backlog \in Seq(Conns) /\ conn \in [Conns -> {"new", "backlog", "open", "closed"}]
    BY DEF NetInv, NetTypes
  <2>3. NetTypes'
    BY <1>2, <2>1 DEF NetInv, NetTypes
  <2>4. SlotsInv'
    BY <1>2 DEF NetInv, SlotsInv
  <2>5. ConnInv'
    BY <1>2, <2>1, <2>2 DEF NetInv, ConnInv
  <2>6. \A i \in 1 .. Len(backlog) : backlog[i] \in Conns /\ backlog[i] # c
    BY <2>1, <2>2 DEF NetInv, BacklogInv
  <2>7. /\ Len(backlog') = Len(backlog) + 1
        /\ \A i \in 1 .. Len(backlog) : backlog'[i] = backlog[i]
        /\ backlog'[Len(backlog) + 1] = c
        /\ Len(backlog) \in Nat
    BY <2>1, <2>2
  <2>8. BacklogInv'
    <3>1. \A i \in 1 .. Len(backlog') : i \in 1 .. Len(backlog) \/ i = Len(backlog) + 1
      BY <2>7
    <3>2. QED
      BY <2>1, <2>2, <2>6, <2>7, <3>1 DEF NetInv, BacklogInv
  <2>9. AcceptInv'
    BY <1>2, <2>7 DEF NetInv, AcceptInv
  <2>10. QED
    BY <1>2, <1>3, <2>1, <2>2, <2>3, <2>4, <2>5, <2>8, <2>9 DEF NetInv, Readable
<1>5. CASE \/ ClientSends(c) \/ ClientCloses(c)
           \/ ClientStalls(c) \/ ClientReads(c)
  <2>1. /\ UNCHANGED <<conn, backlog>>
        /\ sent' = sent \/ sent' = [sent EXCEPT ![c] = @ + 2]
        /\ fin' = fin \/ fin' = [fin EXCEPT ![c] = TRUE]
    BY <1>5 DEF ClientSends, ClientCloses, ClientStalls, ClientReads
  <2>2. sent \in [Conns -> Nat] /\ taken \in [Conns -> Nat]
    BY DEF NetInv, NetTypes
  <2>3. sent' \in [Conns -> Nat] /\ \A b \in Conns : sent'[b] >= sent[b]
    BY <2>1, <2>2
  <2>4. \A b \in Conns : Readable(b) => Readable(b)'
    <3>1. \A b \in Conns : fin[b] => fin'[b]
      <4>1. CASE fin' = fin
        BY <4>1
      <4>2. CASE fin' = [fin EXCEPT ![c] = TRUE]
        BY <4>2
      <4>3. QED
        BY <2>1, <4>1, <4>2
    <3>2. QED
      BY <1>2, <2>2, <2>3, <3>1 DEF Readable
  <2>5. NetTypes' /\ SlotsInv' /\ ConnInv' /\ BacklogInv'
    BY <1>2, <2>1, <2>2, <2>3, NetFrame DEF NetInv
  <2>6. AcceptInv'
    BY <1>2, <2>1 DEF NetInv, AcceptInv
  <2>7. QED
    BY <1>2, <1>3, <2>1, <2>4, <2>5, <2>6 DEF NetInv
<1>6. QED
  BY <1>1, <1>4, <1>5

\* lwip_select.
LEMMA SelectKeeps == NetInv /\ Select => NetInv'
<1> SUFFICES ASSUME NetInv, Select PROVE NetInv'
  OBVIOUS
<1>1. /\ UNCHANGED <<client_sockets, sockets, conn, backlog, sent, taken>>
      /\ pc' = "accept" /\ slot' = 1
      /\ readfds' \subseteq UsedFds
      /\ listen_ready' \in BOOLEAN
      /\ listen_ready' => backlog # <<>>
  BY DEF Select, SelectReturns, SelectFails, client_vars, net_vars
<1>2. /\ readfds' \subseteq Fds
      /\ \A d \in readfds' : \E i \in Slots : client_sockets[i] = d
  BY <1>1, UsedFdsMeans DEF NetInv
<1>3. LoopTypes'
  BY <1>1, <1>2, ServerAssumption DEF LoopTypes
<1>4. NetTypes' /\ SlotsInv' /\ ConnInv' /\ BacklogInv'
  BY <1>1, NetFrame DEF NetInv, NetTypes
<1>5. AcceptInv'
  BY <1>1, <1>2 DEF AcceptInv
<1>6. QED
  BY <1>3, <1>4, <1>5 DEF NetInv

\* lwip_accept: a slot, a descriptor and a connection, or none of them.
LEMMA AcceptKeeps ==
  ASSUME NetInv, Accept
  PROVE  /\ NetInv'
         /\ \A d \in Fds : sockets[d] # NoConn => sockets'[d] = sockets[d]
         /\ \A c \in Conns : conn[c] = "closed" => conn'[c] = "closed"
         /\ \A i \in Slots : client_sockets'[i] \in readfds =>
              client_sockets'[i] = client_sockets[i]
<1>1. /\ UNCHANGED <<readfds, listen_ready, slot, sent, taken>>
      /\ pc = "accept" /\ pc' = "clients"
  BY DEF Accept, select_vars
<1>2. LoopTypes' /\ AcceptInv'
  BY <1>1 DEF NetInv, LoopTypes, AcceptInv
<1>3. CASE ~listen_ready
  <2>1. UNCHANGED <<client_sockets, sockets, conn, backlog>>
    BY <1>3 DEF Accept, client_vars
  <2>2. NetTypes' /\ SlotsInv' /\ ConnInv' /\ BacklogInv'
    BY <1>1, <2>1, NetFrame DEF NetInv, NetTypes
  <2>3. QED
    BY <1>2, <2>1, <2>2 DEF NetInv
<1>4. CASE listen_ready
  <2> DEFINE c == Head(backlog)
  <2>1. /\ backlog' = Tail(backlog) /\ backlog # <<>> /\ backlog \in Seq(Conns)
        /\ Admit(c) \/ Refuse(c) \/ AcceptFails(c)
    BY <1>1, <1>4 DEF Accept, NetInv, AcceptInv, NetTypes
  <2>2. c \in Conns /\ conn[c] = "backlog" /\ c = backlog[1]
    BY <2>1 DEF NetInv, BacklogInv
  <2>3. \A i \in 1 .. Len(backlog') :
          /\ i + 1 \in 1 .. Len(backlog) /\ backlog'[i] = backlog[i + 1]
          /\ backlog'[i] # c /\ backlog'[i] \in Conns
    BY <2>1, <2>2 DEF NetInv, BacklogInv
  <2>4. backlog' \in Seq(Conns)
    BY <2>1
  <2> HIDE DEF c
  <2>5. \A d \in Fds : sockets[d] # c
    BY <2>2 DEF NetInv, ConnInv
  <2>6. ASSUME \A b \in Conns : b # c => conn'[b] = conn[b] PROVE BacklogInv'
    BY <2>3, <2>6 DEF NetInv, BacklogInv
  <2>7. CASE Refuse(c) \/ AcceptFails(c)
    <3>1. /\ UNCHANGED <<client_sockets, sockets>>
          /\ conn' = [conn EXCEPT ![c] = "closed"]
      BY <2>7 DEF Refuse, AcceptFails, client_vars
    <3>2. NetTypes'
      BY <1>1, <2>2, <2>4, <3>1 DEF NetInv, NetTypes
    <3>3. SlotsInv' /\ ConnInv'
      BY <2>2, <2>5, <3>1 DEF NetInv, NetTypes, SlotsInv, ConnInv
    <3>4. BacklogInv'
      BY <2>2, <2>6, <3>1 DEF NetInv, NetTypes
    <3>5. QED
      BY <1>2, <2>2, <3>1, <3>2, <3>3, <3>4 DEF NetInv, NetTypes
  <2>8. CASE Admit(c)
    <3> DEFINE n == Lowest(FreeSlots)
               f == FreeFd
    <3>1. n \in Slots /\ client_sockets[n] = -1
      BY <2>8, FreeSlotIsFree DEF Admit, NetInv
    <3>2. f \in Fds /\ sockets[f] = NoConn
      BY FreeFdExists DEF NetInv
    <3>3. /\ client_sockets' = [client_sockets EXCEPT ![n] = f]
          /\ sockets' = [sockets EXCEPT ![f] = c]
          /\ conn' = [conn EXCEPT ![c] = "open"]
      BY <2>8 DEF Admit
    <3> HIDE DEF n, f
    <3>4. \A i \in Slots : client_sockets[i] # f
      BY <3>2 DEF NetInv, SlotsInv
    <3>5. NetTypes'
      BY <1>1, <2>2, <2>4, <3>1, <3>2, <3>3 DEF NetInv, NetTypes
    <3>6. /\ \A i \in Slots : client_sockets'[i] = IF i = n THEN f ELSE client_sockets[i]
          /\ \A d \in Fds : sockets'[d] = IF d = f THEN c ELSE sockets[d]
          /\ \A b \in Conns : conn'[b] = IF b = c THEN "open" ELSE conn[b]
          /\ c # NoConn /\ f # -1
      BY <2>2, <3>1, <3>2, <3>3, FdsAndSlots DEF NetInv, NetTypes
    <3>7. SlotsInv'
      <4>1. \A d \in Fds : sockets'[d] # NoConn <=>
                           \E i \in Slots : client_sockets'[i] = d
        <5>1. TAKE d \in Fds
        <5>2. CASE d = f
          BY <3>1, <3>6, <5>2
        <5>3. CASE d # f
          <6>1. sockets'[d] = sockets[d]
            BY <3>6, <5>3
          <6>2. \A i \in Slots : client_sockets'[i] = d <=> client_sockets[i] = d
            BY <3>1, <3>6, <5>3, FdsAndSlots
          <6>3. QED
            BY <6>1, <6>2 DEF NetInv, SlotsInv
        <5>4. QED
          BY <5>2, <5>3
      <4>2. \A i, j \in Slots :
              client_sockets'[i] = client_sockets'[j] /\ client_sockets'[i] # -1 => i = j
        BY <3>4, <3>6 DEF NetInv, SlotsInv
      <4>3. QED
        BY <4>1, <4>2 DEF SlotsInv
    <3>8. ConnInv'
      <4>1. \A d, e \in Fds :
              sockets'[d] = sockets'[e] /\ sockets'[d] # NoConn => d = e
        BY <2>5, <3>6 DEF NetInv, ConnInv
      <4>2. \A b \in Conns : conn'[b] = "open" <=> \E d \in Fds : sockets'[d] = b
        <5>1. TAKE b \in Conns
        <5>2. CASE b = c
          BY <3>2, <3>6, <5>2
        <5>3. CASE b # c
          <6>1. \A d \in Fds : sockets'[d] = b <=> sockets[d] = b
            BY <3>2, <3>6, <5>3, FdsAndSlots
          <6>2. QED
            BY <3>6, <5>3, <6>1 DEF NetInv, ConnInv
        <5>4. QED
          BY <5>2, <5>3
      <4>3. QED
        BY <4>1, <4>2 DEF ConnInv
    <3>9. BacklogInv'
      BY <2>6, <3>6
    <3>10. \A i \in Slots : client_sockets'[i] \in readfds =>
             client_sockets'[i] = client_sockets[i]
      BY <1>1, <3>4, <3>6 DEF NetInv, AcceptInv
    <3>11. QED
      BY <1>2, <2>2, <3>2, <3>5, <3>6, <3>7, <3>8, <3>9, <3>10 DEF NetInv
  <2>9. QED
    BY <2>1, <2>7, <2>8
<1>5. QED
  BY <1>3, <1>4

\* lwip_recv: data for the client, or its end.
LEMMA RecvKeeps ==
  ASSUME NetInv, Recv
  PROVE  /\ NetInv'
         /\ \A c \in Conns : conn'[c] = conn[c] \/ conn'[c] = "closed"
         /\ \A d \in Fds : \/ sockets'[d] = sockets[d]
                           \/ /\ sockets[d] \in Conns /\ sockets'[d] = NoConn
                              /\ conn'[sockets[d]] = "closed"
         /\ \A j \in ReadySlots' :
              /\ j \in ReadySlots /\ client_sockets'[j] = client_sockets[j]
              /\ sockets'[client_sockets[j]] = sockets[client_sockets[j]]
              /\ Readable(sockets[client_sockets[j]]) =>
                   Readable(sockets[client_sockets[j]])'
<1> DEFINE i == Lowest(ReadySlots)
           c == sockets[client_sockets[i]]
<1>1. /\ i \in ReadySlots /\ i \in Slots /\ client_sockets[i] \in Fds /\ c \in Conns
      /\ i >= slot
  BY LowestReadySlot, ReadySlotMeans DEF Recv, NetInv
<1>2. /\ pc = "clients" /\ slot' = i + 1
      /\ RecvData(i, c) \/ RecvNothing(i, c)
      /\ UNCHANGED <<sent, backlog, fin, readfds, listen_ready>>
  BY DEF Recv, select_vars
<1> HIDE DEF i, c
<1>3. \A j \in Slots : j >= slot' => j # i /\ j >= slot
  BY <1>1, <1>2, FdsAndSlots DEF NetInv, LoopTypes
<1>4. LoopTypes' /\ AcceptInv'
  <2>1. pc' \in {"clients", "forward"}
    BY <1>2 DEF RecvData, RecvNothing
  <2>2. slot' \in 1 .. MAX_TCP_CLIENTS + 1
    BY <1>1, <1>2, ServerAssumption DEF Slots
  <2>3. QED
    BY <1>2, <2>1, <2>2 DEF NetInv, LoopTypes, AcceptInv
<1>5. CASE RecvData(i, c)
  <2>1. PICK k \in Chunks : taken' = [taken EXCEPT ![c] = @ + k]
    BY <1>5 DEF RecvData, Consume
  <2>2. UNCHANGED <<client_sockets, sockets, conn>>
    BY <1>5 DEF RecvData
  <2>3. taken' \in [Conns -> Nat]
    BY <1>1, <2>1, ServerAssumption DEF NetInv, NetTypes
  <2>4. NetInv'
    BY <1>2, <1>4, <2>2, <2>3, NetFrame DEF NetInv, NetTypes
  <2>5. ASSUME NEW j \in ReadySlots'
        PROVE  /\ j \in ReadySlots /\ sockets[client_sockets[j]] # c
               /\ sockets[client_sockets[j]] \in Conns
    <3>1. /\ j \in Slots /\ j # i /\ j \in ReadySlots
      BY <1>2, <1>3, <2>2 DEF ReadySlots
    <3>2. /\ client_sockets[j] \in Fds /\ sockets[client_sockets[j]] \in Conns
      BY <3>1, ReadySlotMeans DEF NetInv
    <3>3. client_sockets[j] # client_sockets[i]
      BY <1>1, <3>1, <3>2, FdsAndSlots DEF NetInv, SlotsInv
    <3>4. QED
      BY <1>1, <3>1, <3>2, <3>3, FdsAndSlots DEF NetInv, ConnInv, c
  <2>6. \A b \in Conns : b # c => (Readable(b) => Readable(b)')
    BY <1>2, <2>1 DEF Readable, NetInv, NetTypes
  <2>7. QED
    BY <2>2, <2>4, <2>5, <2>6
<1>6. CASE RecvNothing(i, c)
  <2>1. close_client({i}) /\ taken' = taken
    BY <1>6 DEF RecvNothing
  <2>2. /\ NetTypes' /\ SlotsInv' /\ ConnInv' /\ BacklogInv'
        /\ \A b \in Conns : conn'[b] = conn[b] \/ conn'[b] = "closed"
        /\ \A d \in Fds :
             \/ sockets'[d] = sockets[d]
             \/ /\ sockets[d] \in Conns /\ sockets'[d] = NoConn
                /\ conn'[sockets[d]] = "closed"
        /\ \A j \in Slots : client_sockets'[j] # -1 =>
             /\ client_sockets'[j] = client_sockets[j]
             /\ sockets'[client_sockets[j]] = sockets[client_sockets[j]]
    BY <1>1, <1>2, <2>1, CloseKeeps DEF NetInv
  <2>3. ASSUME NEW j \in ReadySlots'
        PROVE  /\ j \in ReadySlots /\ client_sockets'[j] = client_sockets[j]
               /\ sockets'[client_sockets[j]] = sockets[client_sockets[j]]
    <3>1. j \in Slots /\ j >= slot /\ client_sockets'[j] \in readfds
      BY <1>2, <1>3 DEF ReadySlots
    <3>2. client_sockets'[j] # -1
      BY <3>1, FdsAndSlots DEF NetInv, LoopTypes
    <3>3. QED
      BY <2>2, <3>1, <3>2 DEF ReadySlots
  <2>4. \A b : Readable(b) => Readable(b)'
    BY <1>2, <2>1 DEF Readable
  <2>5. QED
    BY <1>4, <2>2, <2>3, <2>4 DEF NetInv
<1>7. QED
  BY <1>2, <1>5, <1>6

\* The steps that only move the task, the queues or the clock.
LEMMA QuietSteps ==
  ASSUME \/ UNCHANGED vars
         \/ Engine \/ Forward \/ ClientsDone
         \/ Respond \/ SendReturns \/ ResponsesDone \/ Tick
  PROVE  /\ UNCHANGED <<client_sockets, net_vars, slot, select_vars>>
         /\ \/ pc' = pc
            \/ pc = "forward" /\ pc' = "clients"
            \/ pc' \in {"responses", "sending", "idle"}
BY DEF vars, client_vars, loop_vars, Engine, Forward, ClientsDone, Respond,
   lwip_send, SendReturns, ResponsesDone, NoMoreResponses, Tick

\* What one step does to the invariant and to connections and descriptors: a
\* descriptor in use keeps its connection until that connection is closed.
LEMMA NextNet ==
  ASSUME NetInv, [Next]_vars
  PROVE  /\ NetInv'
         /\ \A c \in Conns : conn[c] = "closed" => conn'[c] = "closed"
         /\ \A d \in Fds : sockets[d] \in Conns =>
              sockets'[d] = sockets[d] \/ conn'[sockets[d]] = "closed"
<1>1. CASE Network
  BY <1>1, NetworkKeeps
<1>2. CASE Select
  <2>1. UNCHANGED <<sockets, conn>>
    BY <1>2 DEF Select, net_vars
  <2>2. QED
    BY <1>2, <2>1, SelectKeeps
<1>3. CASE Accept
  BY <1>3, AcceptKeeps, FdsAndSlots
<1>4. CASE Recv
  BY <1>4, RecvKeeps
<1>5. CASE CloseIdle
  <2>1. /\ close_client(IdleSlots) /\ IdleSlots \in SUBSET Slots
        /\ UNCHANGED <<backlog, sent, taken, readfds, listen_ready, slot>>
        /\ pc' = "select"
    BY <1>5 DEF CloseIdle, IdleSlots, select_vars
  <2>2. LoopTypes' /\ AcceptInv'
    BY <2>1 DEF NetInv, LoopTypes, AcceptInv
  <2>3. QED
    BY <2>1, <2>2, CloseKeeps DEF NetInv
<1>6. CASE \/ UNCHANGED vars
           \/ Engine \/ Forward \/ ClientsDone
           \/ Respond \/ SendReturns \/ ResponsesDone \/ Tick
  <2>1. /\ UNCHANGED <<client_sockets, net_vars, slot, select_vars>>
        /\ \/ pc' = pc
           \/ pc = "forward" /\ pc' = "clients"
           \/ pc' \in {"responses", "sending", "idle"}
    BY <1>6, QuietSteps
  <2>2. NetTypes' /\ SlotsInv' /\ ConnInv' /\ BacklogInv'
    BY <2>1, NetFrame DEF NetInv, NetTypes, net_vars
  <2>3. LoopTypes' /\ AcceptInv'
    BY <2>1 DEF NetInv, LoopTypes, AcceptInv, net_vars, select_vars
  <2>4. QED
    BY <2>1, <2>2, <2>3 DEF NetInv, net_vars
<1>7. QED
  BY <1>1, <1>2, <1>3, <1>4, <1>5, <1>6 DEF Next, Server

LEMMA InitNet == Init => NetInv
<1> SUFFICES ASSUME Init PROVE NetInv
  OBVIOUS
<1>1. NetTypes /\ LoopTypes
  <2>1. NetTypes
    BY DEF Init, NetTypes
  <2>2. LoopTypes
    <3>1. slot \in 1 .. MAX_TCP_CLIENTS + 1
      BY ServerAssumption DEF Init
    <3>2. QED
      BY <3>1 DEF Init, LoopTypes
  <2>3. QED
    BY <2>1, <2>2
<1>2. SlotsInv /\ ConnInv
  BY FdsAndSlots DEF Init, SlotsInv, ConnInv
<1>3. BacklogInv /\ AcceptInv
  BY DEF Init, BacklogInv, AcceptInv
<1>4. QED
  BY <1>1, <1>2, <1>3 DEF NetInv

LEMMA NetInvariant == Spec => []NetInv
BY InitNet, NextNet, PTL DEF Spec

\* Each open descriptor is in exactly one slot and each slot's is open, however
\* clients come, go and are refused (tcp_server_task, close_client).
THEOREM SlotsAreDescriptors == Spec => []SlotsMatchDescriptors
<1>1. NetInv => SlotsMatchDescriptors
  <2> SUFFICES ASSUME NetInv PROVE SlotsMatchDescriptors
    OBVIOUS
  <2>1. \A d \in Fds : sockets[d] # NoConn <=> d \in UsedFds
    BY UsedFdsMeans DEF NetInv, SlotsInv
  <2>2. QED
    BY <2>1 DEF NetInv, SlotsInv, ConnInv, NetTypes, SlotsMatchDescriptors
<1>2. QED
  BY <1>1, NetInvariant, PTL

-----------------------------------------------------------------------------
(* lwip_recv does not wait.                                                *)

\* The clients that are still to be read in this round have something.
RecvInv ==
  pc \in {"accept", "clients", "forward"} /\ ~select_failed =>
    \A i \in ReadySlots : Readable(sockets[client_sockets[i]])

LEMMA NextRecvInv == NetInv /\ RecvInv /\ [Next]_vars => RecvInv'
<1> SUFFICES ASSUME NetInv, RecvInv, [Next]_vars PROVE RecvInv'
  OBVIOUS
<1>1. CASE Network
  <2>1. UNCHANGED <<client_sockets, sockets, slot, readfds, pc, select_failed>>
    BY <1>1, NetworkKeeps DEF Network, loop_vars, select_vars
  <2>2. \A i \in ReadySlots : sockets[client_sockets[i]] \in Conns
    BY ReadySlotMeans DEF NetInv
  <2>3. \A c \in Conns : Readable(c) => Readable(c)'
    BY <1>1, NetworkKeeps
  <2>4. QED
    BY <2>1, <2>2, <2>3 DEF RecvInv, ReadySlots
<1>2. CASE Select
  <2>1. /\ UNCHANGED <<client_sockets, sockets, sent, taken, fin>>
        /\ ~select_failed' =>
             readfds' = {d \in UsedFds : Readable(sockets[d])}
    BY <1>2 DEF Select, SelectReturns, SelectFails, client_vars, net_vars
  <2>2. QED
    BY <2>1 DEF RecvInv, ReadySlots, Readable
<1>3. CASE Accept
  <2>1. /\ UNCHANGED <<readfds, slot, select_failed, sent, taken, fin>>
        /\ pc = "accept"
    BY <1>3 DEF Accept, select_vars
  <2>2. ASSUME NEW i \in ReadySlots'
        PROVE  /\ i \in ReadySlots
               /\ sockets'[client_sockets'[i]] = sockets[client_sockets[i]]
    <3>1. i \in Slots /\ i >= slot /\ client_sockets'[i] \in readfds
      BY <2>1 DEF ReadySlots
    <3>2. client_sockets'[i] = client_sockets[i]
      BY <1>3, <3>1, AcceptKeeps
    <3>3. i \in ReadySlots
      BY <3>1, <3>2 DEF ReadySlots
    <3>4. /\ client_sockets[i] \in Fds
          /\ sockets[client_sockets[i]] # NoConn
      BY <3>3, ReadySlotMeans, FdsAndSlots DEF NetInv
    <3>5. QED
      BY <1>3, <3>2, <3>3, <3>4, AcceptKeeps
  <2>3. QED
    BY <2>1, <2>2 DEF RecvInv, Readable
<1>4. CASE Recv
  <2>1. pc = "clients" /\ select_failed' = select_failed
    BY <1>4 DEF Recv, select_vars
  <2>2. QED
    BY <1>4, <2>1, RecvKeeps DEF RecvInv
<1>5. CASE CloseIdle
  BY <1>5 DEF CloseIdle, RecvInv
<1>6. CASE \/ UNCHANGED vars
           \/ Engine \/ Forward \/ ClientsDone
           \/ Respond \/ SendReturns \/ ResponsesDone \/ Tick
  BY <1>6, QuietSteps DEF RecvInv, ReadySlots, Readable, net_vars, select_vars
<1>7. QED
  BY <1>1, <1>2, <1>3, <1>4, <1>5, <1>6 DEF Next, Server

\* lwip_recv is called for a client only if it has something for the task,
\* although descriptors are opened, closed and reused after select.
THEOREM RecvDoesNotWait == Spec => []RecvOnlyWhenReady
<1>1. Init => RecvInv
  BY DEF Init, RecvInv
<1>2. NetInv /\ RecvInv => RecvOnlyWhenReady
  BY ReadySlotMeans, FdsAndSlots DEF NetInv, RecvInv, RecvOnlyWhenReady
<1>3. QED
  BY <1>1, <1>2, NextRecvInv, NetInvariant, PTL DEF Spec

-----------------------------------------------------------------------------
(* The two tasks do not wait for one another.                              *)

\* What is on its way through the bridge.
Serving == IF current = {} THEN 0 ELSE 1
Load == Len(requests) + Serving + Len(responses)

Reqs == [tid : Nat, client_sock : Fds, protocol_id : Nat, unit : 0 .. 255,
         frame_len : Nat]
Kinds == {"bare", "path_unavailable", "data", "target_failed"}
Answers == [client_sock : Fds, kind : Kinds, unit : Nat, tid : Nat]
QueueTypes ==
  /\ requests \in Seq(Reqs) /\ current \in SUBSET Reqs
  /\ responses \in Seq(Answers) /\ submitted \in Nat
  /\ pc = "forward" => req \in Reqs

\* The queue lengths, and one request more for each slot served since the
\* responses were last collected.
LoadInv ==
  /\ Len(requests) <= REQ_LEN
  /\ pc \in {"idle", "select", "accept"} => Load <= REQ_LEN + 1
  /\ pc = "clients" => Load <= REQ_LEN + slot
  /\ pc = "forward" => Load <= REQ_LEN + slot - 1 /\ slot > 1

LEMMA AnswersType ==
  ASSUME NEW q \in Reqs
  PROVE  /\ G!AnswersTo(q) \subseteq Answers
         /\ \A a \in G!AnswersTo(q) :
              a.client_sock = q.client_sock /\ (a.tid = q.tid \/ a.kind = "bare")
<1>1. /\ q.client_sock \in Fds /\ q.unit \in Nat /\ q.tid \in Nat
  BY DEF Reqs
<1>2. \A a \in G!AnswersTo(q) :
        \/ a = G!Bare(q)
        \/ \E kind \in {"path_unavailable", "data", "target_failed"} :
             a = G!Framed(q, kind)
  BY DEF G!AnswersTo
<1>3. \A a \in G!AnswersTo(q) :
        /\ a \in Answers /\ a.client_sock = q.client_sock
        /\ a.tid = q.tid \/ a.kind = "bare"
  BY <1>1, <1>2 DEF G!Framed, G!Bare, Answers, Kinds
<1>4. QED
  BY <1>3

\* What the engine does to the queues (Gateway).
LEMMA EngineQueues ==
  ASSUME QueueTypes, Engine
  PROVE  /\ QueueTypes' /\ UNCHANGED <<pc, slot>>
         /\ Load' <= Load /\ Len(requests') <= Len(requests)
<1>1. UNCHANGED <<pc, slot, req>>
  BY DEF Engine, loop_vars
<1>2. /\ requests \in Seq(Reqs) /\ responses \in Seq(Answers)
      /\ current \in SUBSET Reqs /\ submitted \in Nat
  BY DEF QueueTypes
<1>3. CASE G!Take
  <2>1. /\ requests # <<>> /\ requests' = Tail(requests) /\ current = {}
        /\ current' = {Head(requests)} /\ UNCHANGED <<responses, submitted>>
    BY <1>3 DEF G!Take
  <2>2. /\ Head(requests) \in Reqs /\ requests' \in Seq(Reqs)
        /\ Len(requests') = Len(requests) - 1 /\ Len(requests) \in Nat
    BY <1>2, <2>1
  <2>3. Serving = 0 /\ Serving' = 1
    BY <2>1 DEF Serving
  <2>4. Len(responses') = Len(responses) /\ Len(responses) \in Nat
    BY <1>2, <2>1
  <2>5. QED
    BY <1>1, <1>2, <2>1, <2>2, <2>3, <2>4 DEF QueueTypes, Load
<1>4. CASE G!Answer
  <2>1. PICK a \in UNION {G!AnswersTo(q) : q \in current} :
          /\ responses' = Append(responses, a) /\ current # {}
          /\ current' = {} /\ UNCHANGED <<requests, submitted>>
    BY <1>4 DEF G!Answer
  <2>2. a \in Answers
    BY <1>2, AnswersType
  <2>3. /\ responses' \in Seq(Answers) /\ Len(responses') = Len(responses) + 1
        /\ Len(responses) \in Nat /\ Len(requests) \in Nat
    BY <1>2, <2>1, <2>2
  <2>4. Serving = 1 /\ Serving' = 0
    BY <2>1 DEF Serving
  <2>5. QED
    BY <1>1, <1>2, <2>1, <2>3, <2>4 DEF QueueTypes, Load
<1>5. CASE G!LoseAnswer \/ G!GiveUp
  <2>1. current' = {} /\ UNCHANGED <<requests, responses, submitted>>
    BY <1>5 DEF G!LoseAnswer, G!GiveUp
  <2>2. Serving \in {0, 1} /\ Serving' = 0
    BY <2>1 DEF Serving
  <2>3. Len(requests) \in Nat /\ Len(responses) \in Nat
    BY <1>2
  <2>4. QED
    BY <1>1, <1>2, <2>1, <2>2, <2>3 DEF QueueTypes, Load
<1>6. QED
  BY <1>3, <1>4, <1>5 DEF Engine

\* What the server does to them.
LEMMA ServerQueues ==
  ASSUME NetInv, QueueTypes, LoadInv, Server
  PROVE  QueueTypes' /\ LoadInv'
<1>1. /\ requests \in Seq(Reqs) /\ responses \in Seq(Answers)
      /\ current \in SUBSET Reqs /\ submitted \in Nat
      /\ Len(requests) \in Nat /\ Len(responses) \in Nat
  BY DEF QueueTypes
<1>2. /\ Serving \in {0, 1} /\ Load \in Nat
      /\ slot \in Nat /\ slot >= 1 /\ slot <= MAX_TCP_CLIENTS + 1
      /\ REQ_LEN \in Nat
  BY <1>1, ServerAssumption DEF Serving, Load, NetInv, LoopTypes
<1>3. CASE Select \/ Accept \/ ClientsDone \/ CloseIdle
  <2>1. /\ UNCHANGED gateway_vars
        /\ \/ pc = "accept" /\ pc' = "clients" /\ slot' = slot
           \/ pc \in {"select", "idle"} /\ pc' \in {"select", "accept"}
           \/ pc' = "responses"
    BY <1>3 DEF Select, Accept, ClientsDone, CloseIdle
  <2>2. UNCHANGED <<requests, responses, current, submitted>>
    BY <2>1 DEF gateway_vars
  <2>3. Load' = Load
    BY <2>2 DEF Load, Serving
  <2>4. QueueTypes'
    BY <1>1, <2>1, <2>2 DEF QueueTypes
  <2>5. QED
    BY <1>2, <2>1, <2>2, <2>3, <2>4 DEF LoadInv
<1>4. CASE Recv
  <2> DEFINE i == Lowest(ReadySlots)
  <2>1. /\ i \in ReadySlots /\ i >= slot /\ i \in Slots /\ client_sockets[i] \in Fds
    BY <1>4, LowestReadySlot, ReadySlotMeans DEF Recv, NetInv
  <2>2. /\ UNCHANGED gateway_vars /\ pc = "clients" /\ slot' = i + 1
        /\ RecvData(i, sockets[client_sockets[i]])
           \/ RecvNothing(i, sockets[client_sockets[i]])
    BY <1>4 DEF Recv
  <2> HIDE DEF i
  <2>3. UNCHANGED <<requests, responses, current, submitted>>
    BY <2>2 DEF gateway_vars
  <2>4. pc' = "clients" \/ (pc' = "forward" /\ req' \in Reqs)
    <3>1. CASE RecvNothing(i, sockets[client_sockets[i]])
      BY <2>2, <3>1 DEF RecvNothing
    <3>2. CASE RecvData(i, sockets[client_sockets[i]]) /\ pc' # "clients"
      <4>1. PICK k \in Chunks, h \in Headers :
              /\ pc' = "forward"
              /\ req' = [tid |-> submitted + 1,
                         client_sock |-> client_sockets[i],
                         protocol_id |-> h.protocol_id, unit |-> h.unit,
                         frame_len |-> 6 * k]
        BY <2>2, <3>2 DEF RecvData
      <4>2. h \in [protocol_id : Nat, unit : 0 .. 255] /\ k \in Nat
        BY ServerAssumption
      <4>3. QED
        BY <1>1, <2>1, <4>1, <4>2 DEF Reqs
    <3>3. QED
      BY <2>2, <3>1, <3>2
  <2>5. Load' = Load
    BY <2>3 DEF Load, Serving
  <2>6. i \in Nat /\ slot' > slot /\ slot' > 1
    BY <1>2, <2>1, <2>2, FdsAndSlots
  <2>7. QueueTypes'
    BY <1>1, <2>3, <2>4 DEF QueueTypes
  <2>8. slot' \in Nat
    BY <2>2, <2>6
  <2>9. QED
    BY <1>2, <2>2, <2>3, <2>4, <2>5, <2>6, <2>7, <2>8 DEF LoadInv
<1>5. CASE Forward
  <2>1. /\ pc = "forward" /\ pc' = "clients"
        /\ UNCHANGED <<responses, current, slot>>
        /\ \/ /\ Len(requests) < REQ_LEN /\ requests' = Append(requests, req)
              /\ submitted' = submitted + 1
           \/ UNCHANGED <<requests, submitted>>
    BY <1>5 DEF Forward
  <2>2. req \in Reqs
    BY <2>1 DEF QueueTypes
  <2>3. requests' \in Seq(Reqs) /\ Len(requests') <= REQ_LEN
        /\ Len(requests') <= Len(requests) + 1 /\ Len(requests') \in Nat
    BY <1>1, <2>1, <2>2, ServerAssumption DEF LoadInv
  <2>4. Serving' = Serving
    BY <2>1 DEF Serving
  <2>5. Load' <= Load + 1 /\ Load' \in Nat
    BY <1>1, <1>2, <2>1, <2>3, <2>4 DEF Load
  <2>6. QueueTypes'
    BY <1>1, <2>1, <2>3 DEF QueueTypes
  <2>7. QED
    BY <1>2, <2>1, <2>3, <2>5, <2>6 DEF LoadInv
<1>6. CASE Respond \/ ResponsesDone
  <2>1. /\ pc = "responses" /\ UNCHANGED <<requests, current, submitted>>
        /\ \/ /\ pc' \in {pc, "sending"}
              /\ responses # <<>> /\ responses' = Tail(responses)
           \/ pc' = "idle" /\ responses = <<>> /\ responses' = responses
    BY <1>6 DEF Respond, lwip_send, SendReturns, ResponsesDone, NoMoreResponses,
       loop_vars, gateway_vars
  <2>2. responses' \in Seq(Answers) /\ (pc' = "idle" => Len(responses') = 0)
    BY <1>1, <2>1
  <2>3. Serving' = Serving
    BY <2>1 DEF Serving
  <2>4. QueueTypes'
    BY <1>1, <2>1, <2>2 DEF QueueTypes
  <2>5. pc' = "idle" => Load' <= REQ_LEN + 1
    BY <1>1, <1>2, <2>1, <2>2, <2>3 DEF LoadInv, Load
  <2>6. QED
    BY <2>1, <2>4, <2>5 DEF LoadInv
<1>7. CASE SendReturns
  <2>1. /\ UNCHANGED <<requests, responses, current, submitted>>
        /\ pc' = "responses"
    BY <1>7 DEF SendReturns, gateway_vars
  <2>2. Serving' = Serving /\ Load' = Load
    BY <2>1 DEF Serving, Load
  <2>3. QED
    BY <1>1, <1>2, <2>1, <2>2 DEF LoadInv, QueueTypes
<1>8. QED
  BY <1>3, <1>4, <1>5, <1>6, <1>7 DEF Server

LEMMA NextQueues ==
  NetInv /\ QueueTypes /\ LoadInv /\ [Next]_vars => QueueTypes' /\ LoadInv'
<1> SUFFICES ASSUME NetInv, QueueTypes, LoadInv, [Next]_vars
             PROVE  QueueTypes' /\ LoadInv'
  OBVIOUS
<1>1. CASE Engine
  <2>1. /\ Load \in Nat /\ Load' \in Nat /\ Len(requests) \in Nat
        /\ Len(requests') \in Nat
    BY <1>1, EngineQueues DEF QueueTypes, Load, Serving
  <2>2. slot \in Nat
    BY DEF NetInv, LoopTypes
  <2>3. QED
    BY <1>1, <2>1, <2>2, EngineQueues, ServerAssumption DEF LoadInv
<1>2. CASE Server
  BY <1>2, ServerQueues
<1>3. CASE UNCHANGED vars \/ Network \/ Tick
  BY <1>3 DEF vars, Network, Tick, gateway_vars, loop_vars, QueueTypes, LoadInv,
     Load, Serving
<1>4. QED
  BY <1>1, <1>2, <1>3 DEF Next

LEMMA QueueInvariant == Spec => [](QueueTypes /\ LoadInv)
<1>1. Init => QueueTypes /\ LoadInv
  BY ServerAssumption DEF Init, G!Init, QueueTypes, LoadInv, Load, Serving
<1>2. QED
  BY <1>1, NextQueues, NetInvariant, PTL DEF Spec

\* While the server waits for room in the request queue the engine does not
\* wait for room in the response queue, if that has a place for each client
\* (8 and 4 in app_config.h).
THEOREM TasksNeverWaitForOneAnother ==
  ASSUME RESP_LEN >= MAX_TCP_CLIENTS
  PROVE  Spec => []NoCircularWait
<1>1. NetInv /\ QueueTypes /\ LoadInv => NoCircularWait
  <2> SUFFICES ASSUME NetInv, QueueTypes, LoadInv, ServerWaits, EngineWaits
               PROVE  FALSE
    BY DEF NoCircularWait
  <2>1. Len(requests) \in Nat /\ Len(responses) \in Nat
    BY DEF QueueTypes
  <2>2. Serving = 1 /\ slot \in 1 .. MAX_TCP_CLIENTS + 1
    BY DEF EngineWaits, Serving, NetInv, LoopTypes
  <2>3. QED
    BY <2>1, <2>2, ServerAssumption DEF ServerWaits, EngineWaits, LoadInv, Load
<1>2. QED
  BY <1>1, NetInvariant, QueueInvariant, PTL

-----------------------------------------------------------------------------
(* Answers that go astray.                                                 *)

\* Descriptor d still is the connection that request t came on, or that one
\* is closed.
Linked(t, d) ==
  /\ origin[t] \in Conns
  /\ sockets[d] = origin[t] \/ conn[origin[t]] = "closed"
Known(t, d) == t <= submitted /\ (t \in Tids => Linked(t, d))

QueuedKnown ==
  /\ \A i \in 1 .. Len(requests) : Known(requests[i].tid, requests[i].client_sock)
  /\ \A q \in current : Known(q.tid, q.client_sock)
  /\ \A i \in 1 .. Len(responses) : responses[i].kind # "bare" =>
       Known(responses[i].tid, responses[i].client_sock)
ForwardKnown ==
  pc = "forward" => /\ req.tid = submitted + 1
                    /\ req.tid \in Tids => Linked(req.tid, req.client_sock)
DeliveredKnown ==
  \A t \in Tids : delivered[t] # NoConn =>
    /\ t <= submitted /\ origin[t] \in Conns
    /\ delivered[t] = origin[t] \/ conn[origin[t]] = "closed"
HistTypes ==
  /\ origin \in [Tids -> Conns \cup {NoConn}]
  /\ delivered \in [Tids -> Conns \cup {NoConn}]
StrayInv == HistTypes /\ QueuedKnown /\ ForwardKnown /\ DeliveredKnown

LEMMA KnownStays ==
  ASSUME NetInv, [Next]_vars, submitted \in Nat, submitted' \in Nat,
         submitted' >= submitted,
         \A t \in Tids : t <= submitted => origin'[t] = origin[t]
  PROVE  /\ \A t \in Nat, d \in Fds : Known(t, d) => Known(t, d)'
         /\ \A t \in Tids, d \in Fds :
              origin'[t] = origin[t] /\ Linked(t, d) => Linked(t, d)'
         /\ delivered' = delivered /\ DeliveredKnown => DeliveredKnown'
<1>1. ASSUME NEW t \in Tids, NEW d \in Fds, origin'[t] = origin[t], Linked(t, d)
      PROVE  Linked(t, d)'
  BY <1>1, NextNet DEF Linked
<1>2. ASSUME NEW t \in Nat, NEW d \in Fds, Known(t, d)
      PROVE  Known(t, d)'
  BY <1>1, <1>2 DEF Known
<1>3. ASSUME delivered' = delivered, DeliveredKnown
      PROVE  DeliveredKnown'
  BY <1>3, NextNet DEF DeliveredKnown, Tids
<1>4. QED
  BY <1>1, <1>2, <1>3

LEMMA QueuedTypes ==
  ASSUME QueueTypes
  PROVE  /\ \A i \in 1 .. Len(requests) :
              requests[i].tid \in Nat /\ requests[i].client_sock \in Fds
         /\ \A q \in current : q.tid \in Nat /\ q.client_sock \in Fds
         /\ \A i \in 1 .. Len(responses) :
              responses[i].tid \in Nat /\ responses[i].client_sock \in Fds
<1>1. /\ \A i \in 1 .. Len(requests) : requests[i] \in Reqs
      /\ \A i \in 1 .. Len(responses) : responses[i] \in Answers
      /\ \A q \in current : q \in Reqs
  BY DEF QueueTypes
<1>2. QED
  BY <1>1 DEF Reqs, Answers

\* What is queued stays known as long as no more is queued.
LEMMA QueuedStays ==
  ASSUME QueueTypes, QueuedKnown, UNCHANGED <<requests, current, responses>>,
         \A t \in Nat, d \in Fds : Known(t, d) => Known(t, d)'
  PROVE  QueuedKnown'
BY QueuedTypes DEF QueuedKnown

LEMMA StrayEngine ==
  ASSUME NetInv, QueueTypes, StrayInv, Engine
  PROVE  StrayInv'
<1>1. /\ UNCHANGED <<pc, req, origin, delivered, sockets, conn>> /\ [Next]_vars
      /\ submitted' = submitted
  BY DEF Engine, loop_vars, hist_vars, net_vars, Next, G!Take, G!Answer,
     G!LoseAnswer, G!GiveUp
<1>2. /\ requests \in Seq(Reqs) /\ responses \in Seq(Answers)
      /\ current \in SUBSET Reqs /\ submitted \in Nat
  BY DEF QueueTypes
<1>3. \A t, d : /\ Known(t, d)' <=> Known(t, d)
                /\ Linked(t, d)' <=> Linked(t, d)
  BY <1>1 DEF Known, Linked
<1>4. HistTypes' /\ ForwardKnown' /\ DeliveredKnown'
  BY <1>1, <1>3 DEF StrayInv, HistTypes, ForwardKnown, DeliveredKnown
<1>5. QueuedKnown'
  <2>1. CASE G!Take
    <3>1. /\ requests # <<>> /\ requests' = Tail(requests)
          /\ current' = {Head(requests)} /\ UNCHANGED responses
      BY <2>1 DEF G!Take
    <3>2. /\ Head(requests) = requests[1] /\ 1 \in 1 .. Len(requests)
          /\ \A i \in 1 .. Len(requests') :
               i + 1 \in 1 .. Len(requests) /\ requests'[i] = requests[i + 1]
      BY <1>2, <3>1
    <3>3. QED
      BY <1>3, <3>1, <3>2 DEF StrayInv, QueuedKnown
  <2>2. CASE G!Answer
    <3>1. PICK q \in current : \E a \in G!AnswersTo(q) :
            responses' = Append(responses, a)
      BY <2>2 DEF G!Answer
    <3>2. PICK a \in G!AnswersTo(q) : responses' = Append(responses, a)
      BY <3>1
    <3>3. /\ a.client_sock = q.client_sock
          /\ a.tid = q.tid \/ a.kind = "bare"
      BY <1>2, AnswersType
    <3>4. a.kind # "bare" => Known(a.tid, a.client_sock)
      BY <3>3 DEF StrayInv, QueuedKnown
    <3>5. \A i \in 1 .. Len(responses') :
            \/ responses'[i] = a
            \/ i \in 1 .. Len(responses) /\ responses'[i] = responses[i]
      BY <1>2, <3>2
    <3>6. requests' = requests /\ current' = {}
      BY <2>2 DEF G!Answer
    <3>7. QED
      BY <1>3, <3>4, <3>5, <3>6 DEF StrayInv, QueuedKnown
  <2>3. CASE G!LoseAnswer \/ G!GiveUp
    <3>1. current' = {} /\ UNCHANGED <<requests, responses>>
      BY <2>3 DEF G!LoseAnswer, G!GiveUp
    <3>2. QED
      BY <1>3, <3>1 DEF StrayInv, QueuedKnown
  <2>4. QED
    BY <2>1, <2>2, <2>3 DEF Engine
<1>6. QED
  BY <1>4, <1>5 DEF StrayInv

\* A request is noted with its connection when it is received.
LEMMA StrayRecv ==
  ASSUME NetInv, QueueTypes, StrayInv, Recv
  PROVE  StrayInv'
<1> DEFINE i == Lowest(ReadySlots)
           c == sockets[client_sockets[i]]
<1>1. /\ client_sockets[i] \in Fds /\ c \in Conns
  BY LowestReadySlot, ReadySlotMeans DEF Recv, NetInv
<1>2. /\ pc = "clients" /\ UNCHANGED <<gateway_vars, delivered>>
      /\ RecvData(i, c) \/ RecvNothing(i, c)
  BY DEF Recv
<1> HIDE DEF i, c
<1>3. /\ UNCHANGED <<requests, current, responses, submitted>>
      /\ submitted \in Nat /\ [Next]_vars
  BY <1>2 DEF gateway_vars, QueueTypes, Next, Server
<1>4. /\ \A t \in Tids : t <= submitted => origin'[t] = origin[t]
      /\ origin' \in [Tids -> Conns \cup {NoConn}]
  <2>1. \/ origin' = origin
        \/ origin' = [origin EXCEPT ![submitted + 1] = c]
    BY <1>2 DEF RecvData, RecvNothing
  <2>2. origin \in [Tids -> Conns \cup {NoConn}]
    BY DEF StrayInv, HistTypes
  <2>3. \A t \in Tids : t <= submitted => t # submitted + 1
    BY <1>3 DEF Tids
  <2>4. QED
    BY <1>1, <2>1, <2>2, <2>3
<1>5. QueuedKnown' /\ DeliveredKnown'
  BY <1>2, <1>3, <1>4, KnownStays, QueuedStays DEF StrayInv
<1>6. ForwardKnown'
  <2>1. CASE pc' = "forward"
    <3>1. /\ req'.tid = submitted + 1 /\ req'.client_sock = client_sockets[i]
          /\ origin' = [origin EXCEPT ![submitted + 1] = c]
          /\ sockets' = sockets
      BY <1>2, <2>1 DEF RecvData, RecvNothing
    <3>2. c = sockets[client_sockets[i]]
      BY DEF c
    <3>3. req'.tid \in Tids => origin'[req'.tid] = c
      BY <3>1 DEF StrayInv, HistTypes
    <3>4. QED
      BY <1>1, <1>3, <3>1, <3>2, <3>3 DEF ForwardKnown, Linked
  <2>2. QED
    BY <2>1 DEF ForwardKnown
<1>7. QED
  BY <1>2, <1>4, <1>5, <1>6 DEF StrayInv, HistTypes

LEMMA StrayForward ==
  ASSUME NetInv, QueueTypes, StrayInv, Forward
  PROVE  StrayInv'
<1>1. /\ pc = "forward" /\ pc' = "clients"
      /\ UNCHANGED <<responses, current, sockets, conn, delivered>>
      /\ [Next]_vars
  BY DEF Forward, net_vars, Next, Server
<1>2. /\ requests \in Seq(Reqs) /\ submitted \in Nat /\ req \in Reqs
      /\ req.tid = submitted + 1
  BY <1>1 DEF QueueTypes, StrayInv, ForwardKnown
<1>3. CASE /\ requests' = Append(requests, req) /\ submitted' = submitted + 1
           /\ origin' = origin
  <2>1. /\ \A t \in Nat, d \in Fds : Known(t, d) => Known(t, d)'
        /\ DeliveredKnown'
    BY <1>1, <1>2, <1>3, KnownStays DEF StrayInv
  <2>2. /\ req.tid \in Nat /\ req.client_sock \in Fds
        /\ req.tid <= submitted'
        /\ req.tid \in Tids => Linked(req.tid, req.client_sock)
    BY <1>1, <1>2, <1>3 DEF StrayInv, ForwardKnown, Reqs
  <2>3. \A t \in Nat, d \in Fds :
          t = req.tid /\ d = req.client_sock => Known(t, d)'
    BY <1>1, <1>3, <2>2 DEF Known, Linked
  <2>4. \A k \in 1 .. Len(requests') :
          \/ requests'[k] = req
          \/ k \in 1 .. Len(requests) /\ requests'[k] = requests[k]
    BY <1>2, <1>3
  <2>5. \A k \in 1 .. Len(requests') : \E t \in Nat, d \in Fds :
          t = requests'[k].tid /\ d = requests'[k].client_sock /\ Known(t, d)'
    <3>1. TAKE k \in 1 .. Len(requests')
    <3>2. CASE requests'[k] = req
      BY <2>2, <2>3, <3>2
    <3>3. CASE k \in 1 .. Len(requests) /\ requests'[k] = requests[k]
      BY <2>1, <3>3, QueuedTypes DEF StrayInv, QueuedKnown
    <3>4. QED
      BY <2>4, <3>2, <3>3
  <2>6. QueuedKnown'
    BY <1>1, <2>1, <2>5, QueuedTypes DEF StrayInv, QueuedKnown
  <2>7. QED
    BY <1>1, <1>3, <2>1, <2>6 DEF StrayInv, HistTypes, ForwardKnown
<1>4. CASE /\ UNCHANGED <<requests, submitted>>
           /\ origin' = [origin EXCEPT ![req.tid] = NoConn]
  <2>1. /\ \A t \in Tids : t <= submitted => origin'[t] = origin[t]
        /\ origin' \in [Tids -> Conns \cup {NoConn}]
    <3>1. origin \in [Tids -> Conns \cup {NoConn}]
      BY DEF StrayInv, HistTypes
    <3>2. \A t \in Tids : t <= submitted => t # req.tid
      BY <1>2 DEF Tids
    <3>3. QED
      BY <1>4, <3>1, <3>2
  <2>2. QueuedKnown' /\ DeliveredKnown'
    BY <1>1, <1>2, <1>4, <2>1, KnownStays, QueuedStays DEF StrayInv
  <2>3. QED
    BY <1>1, <2>1, <2>2 DEF StrayInv, HistTypes, ForwardKnown
<1>5. QED
  BY <1>3, <1>4 DEF Forward

LEMMA StrayRespond ==
  ASSUME NetInv, QueueTypes, StrayInv, Respond
  PROVE  StrayInv'
<1>1. /\ UNCHANGED <<requests, current, submitted, sockets, conn, origin, req>>
      /\ responses # <<>> /\ responses' = Tail(responses)
      /\ pc' # "forward"
  BY DEF Respond, lwip_send, loop_vars, net_vars
<1>2. responses \in Seq(Answers)
  BY DEF QueueTypes
<1> DEFINE a == Head(responses)
<1>3. /\ a = responses[1] /\ a \in Answers /\ 1 \in 1 .. Len(responses)
      /\ \A k \in 1 .. Len(responses') :
           k + 1 \in 1 .. Len(responses) /\ responses'[k] = responses[k + 1]
  BY <1>1, <1>2
<1>4. \/ delivered' = delivered
      \/ /\ TRUE \in SentKinds(a)
         /\ delivered' = [delivered EXCEPT ![a.tid] = sockets[a.client_sock]]
  BY DEF Respond, lwip_send, TargetSock
<1> HIDE DEF a
<1>5. QueuedKnown'
  BY <1>1, <1>3 DEF StrayInv, QueuedKnown, Known, Linked
<1>6. CASE delivered' = delivered
  BY <1>1, <1>5, <1>6 DEF StrayInv, HistTypes, ForwardKnown, DeliveredKnown
<1>7. CASE /\ TRUE \in SentKinds(a)
           /\ delivered' = [delivered EXCEPT ![a.tid] = sockets[a.client_sock]]
  <2>1. a.kind # "bare"
    BY <1>7 DEF SentKinds
  <2>2. Known(a.tid, a.client_sock)
    BY <1>3, <2>1 DEF StrayInv, QueuedKnown
  <2>3. sockets[a.client_sock] \in Conns \cup {NoConn}
    BY <1>3 DEF NetInv, NetTypes, Answers
  <2>4. HistTypes'
    BY <1>1, <1>7, <2>3 DEF StrayInv, HistTypes
  <2>5. DeliveredKnown'
    <3>1. ASSUME NEW t \in Tids, delivered'[t] # NoConn
          PROVE  /\ t <= submitted /\ origin[t] \in Conns
                 /\ delivered'[t] = origin[t] \/ conn[origin[t]] = "closed"
      <4>1. CASE t = a.tid
        BY <1>7, <2>2, <3>1, <4>1 DEF StrayInv, HistTypes, Known, Linked
      <4>2. CASE t # a.tid
        BY <1>7, <3>1, <4>2 DEF StrayInv, HistTypes, DeliveredKnown
      <4>3. QED
        BY <4>1, <4>2
    <3>2. QED
      BY <1>1, <3>1 DEF DeliveredKnown
  <2>6. QED
    BY <1>1, <1>5, <2>4, <2>5 DEF StrayInv, ForwardKnown
<1>8. QED
  BY <1>4, <1>6, <1>7

LEMMA NextStray == NetInv /\ QueueTypes /\ StrayInv /\ [Next]_vars => StrayInv'
<1> SUFFICES ASSUME NetInv, QueueTypes, StrayInv, [Next]_vars PROVE StrayInv'
  OBVIOUS
<1>1. CASE \/ UNCHANGED vars \/ Network \/ Tick \/ Select \/ Accept
           \/ ClientsDone \/ SendReturns \/ ResponsesDone \/ CloseIdle
  <2>1. /\ UNCHANGED <<requests, current, responses, submitted, origin, delivered>>
        /\ UNCHANGED <<pc, req>> \/ pc' # "forward"
    BY <1>1 DEF vars, Network, Tick, Select, Accept, ClientsDone, SendReturns,
       ResponsesDone, NoMoreResponses, CloseIdle, gateway_vars, hist_vars,
       loop_vars
  <2>2. submitted \in Nat /\ (pc = "forward" => req \in Reqs)
    BY DEF QueueTypes
  <2>3. /\ \A t \in Nat, d \in Fds : Known(t, d) => Known(t, d)'
        /\ \A t \in Tids, d \in Fds : Linked(t, d) => Linked(t, d)'
        /\ DeliveredKnown'
    BY <2>1, <2>2, KnownStays DEF StrayInv
  <2>4. QueuedKnown'
    BY <2>1, <2>3, QueuedStays DEF StrayInv
  <2>5. ForwardKnown'
    BY <2>1, <2>2, <2>3 DEF StrayInv, ForwardKnown, Reqs
  <2>6. QED
    BY <2>1, <2>3, <2>4, <2>5 DEF StrayInv, HistTypes
<1>2. CASE Engine \/ Recv \/ Forward \/ Respond
  BY <1>2, StrayEngine, StrayRecv, StrayForward, StrayRespond
<1>3. QED
  BY <1>1, <1>2 DEF Next, Server

LEMMA StrayInvariant == Spec => []StrayInv
<1>1. Init => StrayInv
  BY DEF Init, G!Init, StrayInv, HistTypes, QueuedKnown, ForwardKnown,
     DeliveredKnown
<1>2. QED
  BY <1>1, NextStray, NetInvariant, QueueInvariant, PTL DEF Spec

\* An answer reaches another client than the one that asked only after that
\* one's connection was closed, whichever descriptors were reused meanwhile.
THEOREM StrayNeedsClose == Spec => []StrayOnlyAfterClose
<1>1. StrayInv => StrayOnlyAfterClose
  BY DEF StrayInv, DeliveredKnown, StrayOnlyAfterClose
<1>2. QED
  BY <1>1, StrayInvariant, PTL

-----------------------------------------------------------------------------
(* Answers in the order of the requests.                                   *)

\* Whatever is on its way through the bridge was requested after t.
AllAfter(t) ==
  /\ \A i \in 1 .. Len(requests) : t < requests[i].tid
  /\ \A q \in current : t < q.tid
  /\ \A i \in 1 .. Len(responses) :
       responses[i].kind # "bare" => t < responses[i].tid

\* Along the bridge, from the last request in the queue to the next answer, the
\* numbers of the requests go down.  (A bare answer has none.)
QueuesOrdered ==
  /\ \A i \in 1 .. Len(requests) : \A j \in 1 .. i - 1 :
       requests[j].tid < requests[i].tid
  /\ \A q \in current : \A i \in 1 .. Len(requests) : q.tid < requests[i].tid
  /\ \A i \in 1 .. Len(responses) : responses[i].kind # "bare" =>
       /\ \A q \in current : responses[i].tid < q.tid
       /\ \A j \in 1 .. Len(requests) : responses[i].tid < requests[j].tid
       /\ \A j \in 1 .. i - 1 :
            responses[j].kind # "bare" => responses[j].tid < responses[i].tid
DeliveredFirst == \A t \in Tids : delivered[t] # NoConn => AllAfter(t)

\* A later request of a connection was found further on in its stream.
PlacesOrdered ==
  /\ place \in [Tids -> Nat]
  /\ \A t \in Tids : origin[t] # NoConn =>
       /\ t <= submitted \/ (pc = "forward" /\ t = req.tid)
       /\ place[t] < taken[origin[t]]
       /\ \A u \in Tids : u < t /\ origin[u] = origin[t] => place[u] < place[t]
OrderInv == QueuesOrdered /\ DeliveredFirst /\ PlacesOrdered

\* Engine steps: a request moves on, ahead of those behind it.
LEMMA OrderEngine ==
  ASSUME QueueTypes, OrderInv, Engine
  PROVE  OrderInv'
<1>1. /\ UNCHANGED <<pc, req, origin, place, delivered, taken, submitted>>
  BY DEF Engine, loop_vars, hist_vars, net_vars, G!Take, G!Answer, G!LoseAnswer,
     G!GiveUp
<1>2. /\ requests \in Seq(Reqs) /\ responses \in Seq(Answers)
      /\ current \in SUBSET Reqs
  BY DEF QueueTypes
<1>3. PlacesOrdered'
  BY <1>1 DEF OrderInv, PlacesOrdered
<1>4. QueuesOrdered' /\ \A t \in Tids : AllAfter(t) => AllAfter(t)'
  <2>1. CASE G!Take
    <3>1. /\ requests # <<>> /\ requests' = Tail(requests) /\ current = {}
          /\ current' = {Head(requests)} /\ UNCHANGED responses
      BY <2>1 DEF G!Take
    <3>2. /\ Head(requests) = requests[1] /\ 1 \in 1 .. Len(requests)
          /\ Len(requests') = Len(requests) - 1 /\ Len(requests) \in Nat
          /\ \A i \in 1 .. Len(requests') :
               i + 1 \in 1 .. Len(requests) /\ requests'[i] = requests[i + 1]
      BY <1>2, <3>1
    <3>3. \A i \in 1 .. Len(requests') :
            /\ requests[1].tid < requests'[i].tid
            /\ \A j \in 1 .. i - 1 : requests'[j].tid < requests'[i].tid
      <4>1. TAKE i \in 1 .. Len(requests')
      <4>2. 1 \in 1 .. (i + 1) - 1 /\ \A j \in 1 .. i - 1 :
              /\ j \in 1 .. Len(requests') /\ j + 1 \in 1 .. (i + 1) - 1
        BY <3>2
      <4>3. \A j \in 1 .. (i + 1) - 1 : requests[j].tid < requests[i + 1].tid
        BY <3>2 DEF OrderInv, QueuesOrdered
      <4>4. QED
        BY <3>2, <4>2, <4>3
    <3>4. \A i \in 1 .. Len(responses) : responses[i].kind # "bare" =>
            \A j \in 1 .. Len(requests) : responses[i].tid < requests[j].tid
      BY DEF OrderInv, QueuesOrdered
    <3>5. QueuesOrdered'
      BY <3>1, <3>2, <3>3, <3>4 DEF OrderInv, QueuesOrdered
    <3>6. QED
      BY <3>1, <3>2, <3>5 DEF AllAfter
  <2>2. CASE G!Answer
    <3>1. PICK q \in current : \E a \in G!AnswersTo(q) :
            responses' = Append(responses, a)
      BY <2>2 DEF G!Answer
    <3>2. PICK a \in G!AnswersTo(q) : responses' = Append(responses, a)
      BY <3>1
    <3>3. a \in Answers /\ (a.tid = q.tid \/ a.kind = "bare")
      BY <1>2, AnswersType
    <3>4. requests' = requests /\ current' = {}
      BY <2>2 DEF G!Answer
    <3>5. /\ Len(responses) \in Nat /\ Len(responses') = Len(responses) + 1
          /\ responses'[Len(responses) + 1] = a
          /\ \A i \in 1 .. Len(responses) : responses'[i] = responses[i]
      BY <1>2, <3>2, <3>3
    <3>6. a.kind # "bare" =>
            /\ \A j \in 1 .. Len(requests) : a.tid < requests[j].tid
            /\ \A j \in 1 .. Len(responses) :
                 responses[j].kind # "bare" => responses[j].tid < a.tid
      BY <3>3 DEF OrderInv, QueuesOrdered
    <3>7. ASSUME NEW i \in 1 .. Len(responses'), responses'[i].kind # "bare"
          PROVE  /\ \A j \in 1 .. Len(requests) : responses'[i].tid < requests[j].tid
                 /\ \A j \in 1 .. i - 1 : responses'[j].kind # "bare" =>
                      responses'[j].tid < responses'[i].tid
      <4>1. CASE i = Len(responses) + 1
        BY <3>5, <3>6, <3>7, <4>1
      <4>2. CASE i # Len(responses) + 1
        <5>1. i \in 1 .. Len(responses)
              /\ \A j \in 1 .. i - 1 : j \in 1 .. Len(responses)
          BY <3>5, <4>2
        <5>2. QED
          BY <3>5, <3>7, <5>1 DEF OrderInv, QueuesOrdered
      <4>3. QED
        BY <4>1, <4>2
    <3>8. QueuesOrdered'
      BY <3>4, <3>7 DEF OrderInv, QueuesOrdered
    <3>9. ASSUME NEW t \in Tids, AllAfter(t) PROVE AllAfter(t)'
      <4>1. t < q.tid
        BY <3>9 DEF AllAfter
      <4>2. \A i \in 1 .. Len(responses') : responses'[i].kind # "bare" =>
              t < responses'[i].tid
        <5>1. TAKE i \in 1 .. Len(responses')
        <5>2. i = Len(responses) + 1 \/ i \in 1 .. Len(responses)
          BY <3>5
        <5>3. QED
          BY <3>3, <3>5, <3>9, <4>1, <5>2 DEF AllAfter
      <4>3. QED
        BY <3>4, <3>9, <4>2 DEF AllAfter
    <3>10. QED
      BY <3>8, <3>9
  <2>3. CASE G!LoseAnswer \/ G!GiveUp
    <3>1. current' = {} /\ UNCHANGED <<requests, responses>>
      BY <2>3 DEF G!LoseAnswer, G!GiveUp
    <3>2. QED
      BY <3>1 DEF OrderInv, QueuesOrdered, AllAfter
  <2>4. QED
    BY <2>1, <2>2, <2>3 DEF Engine
<1>5. DeliveredFirst'
  BY <1>1, <1>4 DEF OrderInv, DeliveredFirst
<1>6. QED
  BY <1>3, <1>4, <1>5 DEF OrderInv

\* What recv returns next comes after all that it has returned.
LEMMA OrderRecv ==
  ASSUME NetInv, QueueTypes, StrayInv, OrderInv, Recv
  PROVE  OrderInv'
<1> DEFINE i == Lowest(ReadySlots)
           c == sockets[client_sockets[i]]
<1>1. /\ client_sockets[i] \in Fds /\ c \in Conns
  BY LowestReadySlot, ReadySlotMeans DEF Recv, NetInv
<1>2. /\ pc = "clients" /\ UNCHANGED <<gateway_vars, delivered>>
      /\ RecvData(i, c) \/ RecvNothing(i, c)
  BY DEF Recv
<1> HIDE DEF i, c
<1>3. /\ UNCHANGED <<requests, current, responses, submitted, delivered>>
      /\ submitted \in Nat
  BY <1>2 DEF gateway_vars, QueueTypes
<1>4. QueuesOrdered' /\ DeliveredFirst'
  BY <1>3 DEF OrderInv, QueuesOrdered, DeliveredFirst, AllAfter
<1>5. /\ origin \in [Tids -> Conns \cup {NoConn}] /\ place \in [Tids -> Nat]
      /\ taken \in [Conns -> Nat] /\ Tids \subseteq Nat
      /\ \A t \in Tids : origin[t] # NoConn =>
           /\ t <= submitted /\ origin[t] \in Conns
           /\ place[t] < taken[origin[t]]
  <2>1. /\ origin \in [Tids -> Conns \cup {NoConn}] /\ Tids \subseteq Nat
        /\ taken \in [Conns -> Nat]
    BY DEF StrayInv, HistTypes, NetInv, NetTypes, Tids
  <2>2. PlacesOrdered
    BY DEF OrderInv
  <2>3. QED
    BY <1>2, <2>1, <2>2 DEF PlacesOrdered
<1>6. /\ taken' \in [Conns -> Nat] /\ \A x \in Conns : taken[x] <= taken'[x]
      /\ RecvData(i, c) => taken[c] < taken'[c]
  <2>1. CASE RecvNothing(i, c)
    <3>1. taken' = taken /\ ~RecvData(i, c)
      BY <1>1, <1>5, <2>1 DEF RecvNothing, RecvData, NetInv, NetTypes
    <3>2. QED
      BY <1>5, <3>1
  <2>2. CASE RecvData(i, c)
    <3>1. PICK k \in Chunks : taken' = [taken EXCEPT ![c] = @ + k]
      BY <2>2 DEF RecvData, Consume
    <3>2. k \in Nat /\ k > 0
      BY ServerAssumption
    <3>3. QED
      BY <1>1, <1>5, <3>1, <3>2
  <2>3. QED
    BY <1>2, <2>1, <2>2
<1>7. CASE UNCHANGED <<origin, place>>
  <2>1. \A t \in Tids : origin[t] # NoConn => place[t] < taken'[origin[t]]
    <3>1. TAKE t \in Tids
    <3>2. HAVE origin[t] # NoConn
    <3>3. /\ origin[t] \in Conns /\ place[t] < taken[origin[t]]
          /\ taken[origin[t]] <= taken'[origin[t]]
      BY <1>5, <1>6, <3>2
    <3>4. QED
      BY <1>5, <1>6, <3>3
  <2>2. PlacesOrdered'
    BY <1>3, <1>5, <1>7, <2>1 DEF OrderInv, PlacesOrdered
  <2>3. QED
    BY <1>4, <2>2 DEF OrderInv
<1>8. CASE /\ RecvData(i, c) /\ pc' = "forward" /\ req'.tid = submitted + 1
           /\ origin' = [origin EXCEPT ![submitted + 1] = c]
           /\ place' = [place EXCEPT ![submitted + 1] = taken[c]]
  <2>1. \A t \in Tids : /\ origin'[t] = IF t = submitted + 1 THEN c ELSE origin[t]
                        /\ place'[t] = IF t = submitted + 1 THEN taken[c] ELSE place[t]
    BY <1>5, <1>8
  <2>2. place' \in [Tids -> Nat]
    BY <1>1, <1>5, <1>8
  <2>3. ASSUME NEW t \in Tids, origin'[t] # NoConn
        PROVE  /\ t <= submitted' \/ (pc' = "forward" /\ t = req'.tid)
               /\ place'[t] < taken'[origin'[t]]
               /\ \A u \in Tids : u < t /\ origin'[u] = origin'[t] =>
                    place'[u] < place'[t]
    <3>1. CASE t = submitted + 1
      <4>1. origin'[t] = c /\ place'[t] = taken[c] /\ c # NoConn
        BY <1>1, <2>1, <3>1, FdsAndSlots
      <4>2. \A u \in Tids : u < t => origin'[u] = origin[u] /\ place'[u] = place[u]
        BY <1>3, <1>5, <2>1, <3>1
      <4>3. QED
        BY <1>5, <1>6, <1>8, <3>1, <4>1, <4>2
    <3>2. CASE t # submitted + 1
      <4>1. origin'[t] = origin[t] /\ place'[t] = place[t] /\ origin[t] # NoConn
        BY <2>1, <2>3, <3>2
      <4>2. t <= submitted /\ origin[t] \in Conns /\ place[t] < taken[origin[t]]
            /\ taken[origin[t]] <= taken'[origin[t]]
        BY <1>5, <1>6, <4>1
      <4>3. place'[t] < taken'[origin'[t]]
        BY <1>5, <1>6, <4>1, <4>2
      <4>4. \A u \in Tids : u < t => origin'[u] = origin[u] /\ place'[u] = place[u]
        BY <1>3, <1>5, <2>1, <4>2
      <4>5. QED
        BY <1>3, <4>1, <4>2, <4>3, <4>4 DEF OrderInv, PlacesOrdered
    <3>3. QED
      BY <3>1, <3>2
  <2>4. PlacesOrdered'
    BY <2>2, <2>3 DEF PlacesOrdered
  <2>5. QED
    BY <1>4, <2>4 DEF OrderInv
<1>9. QED
  BY <1>2, <1>7, <1>8 DEF RecvData, RecvNothing

\* A request is queued behind all that were received before it.
LEMMA OrderForward ==
  ASSUME QueueTypes, StrayInv, OrderInv, Forward
  PROVE  OrderInv'
<1>1. /\ pc = "forward" /\ pc' = "clients"
      /\ UNCHANGED <<responses, current, taken, delivered>>
  BY DEF Forward, net_vars
<1>2. /\ requests \in Seq(Reqs) /\ submitted \in Nat /\ req \in Reqs
      /\ req.tid = submitted + 1 /\ Len(requests) \in Nat
      /\ Tids \subseteq Nat
  BY <1>1 DEF QueueTypes, StrayInv, ForwardKnown, Tids
<1>3. CASE /\ requests' = Append(requests, req) /\ submitted' = submitted + 1
           /\ UNCHANGED <<origin, place>>
  <2>1. /\ Len(requests') = Len(requests) + 1
        /\ requests'[Len(requests) + 1] = req
        /\ \A i \in 1 .. Len(requests) : requests'[i] = requests[i]
    BY <1>2, <1>3
  <2>2. /\ \A i \in 1 .. Len(requests) : requests[i].tid < req.tid
        /\ \A q \in current : q.tid < req.tid
        /\ \A i \in 1 .. Len(responses) :
             responses[i].kind # "bare" => responses[i].tid < req.tid
    BY <1>2, QueuedTypes DEF StrayInv, QueuedKnown, Known
  <2>3. \A i \in 1 .. Len(requests') :
          \/ i = Len(requests) + 1 /\ requests'[i] = req
          \/ i \in 1 .. Len(requests) /\ requests'[i] = requests[i]
    BY <1>2, <2>1
  <2>4. \A i \in 1 .. Len(requests') : \A j \in 1 .. i - 1 :
          requests'[j].tid < requests'[i].tid
    <3>1. TAKE i \in 1 .. Len(requests')
    <3>2. \A j \in 1 .. i - 1 : j \in 1 .. Len(requests)
      BY <1>2, <2>1
    <3>3. \A j \in 1 .. i - 1 : requests'[j] = requests[j]
      BY <2>1, <3>2
    <3>4. QED
      BY <2>2, <2>3, <3>2, <3>3 DEF OrderInv, QueuesOrdered
  <2>5. QueuesOrdered'
    BY <1>1, <2>2, <2>3, <2>4 DEF OrderInv, QueuesOrdered
  <2>6. \A t \in Tids : delivered[t] # NoConn => t < req.tid
    BY <1>2 DEF StrayInv, DeliveredKnown
  <2>7. DeliveredFirst'
    BY <1>1, <2>3, <2>6 DEF OrderInv, DeliveredFirst, AllAfter
  <2>8. PlacesOrdered'
    <3>1. \A t \in Tids : origin[t] # NoConn => t <= submitted'
      <4>1. TAKE t \in Tids
      <4>2. HAVE origin[t] # NoConn
      <4>3. t <= submitted \/ t = req.tid
        BY <4>2 DEF OrderInv, PlacesOrdered
      <4>4. QED
        BY <1>2, <1>3, <4>3
    <3>2. QED
      BY <1>1, <1>3, <3>1 DEF OrderInv, PlacesOrdered
  <2>9. QED
    BY <2>5, <2>7, <2>8 DEF OrderInv
<1>4. CASE /\ UNCHANGED <<requests, submitted>>
           /\ origin' = [origin EXCEPT ![req.tid] = NoConn]
           /\ place' = [place EXCEPT ![req.tid] = 0]
  <2>1. QueuesOrdered' /\ DeliveredFirst'
    BY <1>1, <1>4 DEF OrderInv, QueuesOrdered, DeliveredFirst, AllAfter
  <2>2. \A t \in Tids : /\ origin'[t] = IF t = req.tid THEN NoConn ELSE origin[t]
                        /\ place'[t] = IF t = req.tid THEN 0 ELSE place[t]
    BY <1>4 DEF OrderInv, PlacesOrdered, StrayInv, HistTypes
  <2>3. place' \in [Tids -> Nat]
    BY <1>4 DEF OrderInv, PlacesOrdered
  <2>4. ASSUME NEW t \in Tids, origin'[t] # NoConn
        PROVE  /\ t <= submitted' \/ (pc' = "forward" /\ t = req'.tid)
               /\ place'[t] < taken'[origin'[t]]
               /\ \A u \in Tids : u < t /\ origin'[u] = origin'[t] =>
                    place'[u] < place'[t]
    <3>1. t # req.tid /\ origin'[t] = origin[t] /\ place'[t] = place[t]
      BY <2>2, <2>4
    <3>2. /\ t <= submitted /\ place[t] < taken[origin[t]]
          /\ \A u \in Tids : u < t /\ origin[u] = origin[t] => place[u] < place[t]
      BY <2>4, <3>1 DEF OrderInv, PlacesOrdered
    <3>3. \A u \in Tids : u < t => origin'[u] = origin[u] /\ place'[u] = place[u]
      BY <1>2, <2>2, <3>2
    <3>4. QED
      BY <1>1, <1>4, <3>1, <3>2, <3>3
  <2>5. PlacesOrdered'
    BY <2>3, <2>4 DEF PlacesOrdered
  <2>6. QED
    BY <2>1, <2>5 DEF OrderInv
<1>5. QED
  BY <1>3, <1>4 DEF Forward

\* What is sent is ahead of the rest, and behind all that was sent before.
LEMMA OrderRespond ==
  ASSUME QueueTypes, StrayInv, OrderInv, Respond
  PROVE  /\ OrderInv'
         /\ \A t \in Tids : delivered'[t] # delivered[t] =>
              /\ delivered[t] = NoConn
              /\ \A u \in Tids : origin[u] = origin[t] /\ delivered[u] # NoConn
                   => place[u] < place[t]
<1>1. /\ UNCHANGED <<requests, current, submitted, taken, origin, place, req>>
      /\ pc # "forward"
      /\ responses # <<>> /\ responses' = Tail(responses)
  BY DEF Respond, lwip_send, loop_vars, net_vars
<1>2. responses \in Seq(Answers) /\ Tids \subseteq Nat
  BY DEF QueueTypes, Tids
<1> DEFINE a == Head(responses)
<1>3. /\ a = responses[1] /\ a.tid \in Nat /\ 1 \in 1 .. Len(responses)
      /\ \A k \in 1 .. Len(responses') :
           /\ k + 1 \in 1 .. Len(responses) /\ responses'[k] = responses[k + 1]
           /\ 1 \in 1 .. (k + 1) - 1
           /\ \A j \in 1 .. k - 1 : j + 1 \in 1 .. (k + 1) - 1
                                    /\ j \in 1 .. Len(responses')
  BY <1>1, <1>2, QueuedTypes
<1>4. \/ delivered' = delivered
      \/ /\ TRUE \in SentKinds(a)
         /\ delivered' = [delivered EXCEPT ![a.tid] = sockets[a.client_sock]]
  BY DEF Respond, lwip_send, TargetSock
<1>5. TRUE \in SentKinds(a) => a.kind # "bare"
  BY DEF SentKinds
<1> HIDE DEF a
<1>6. QueuesOrdered'
  <2>1. \A k \in 1 .. Len(responses') : responses'[k].kind # "bare" =>
          \A j \in 1 .. k - 1 : responses'[j].kind # "bare" =>
            responses'[j].tid < responses'[k].tid
    <3>1. TAKE k \in 1 .. Len(responses')
    <3>2. \A j \in 1 .. (k + 1) - 1 :
            responses[k + 1].kind # "bare" /\ responses[j].kind # "bare" =>
              responses[j].tid < responses[k + 1].tid
      BY <1>3 DEF OrderInv, QueuesOrdered
    <3>3. QED
      BY <1>3, <3>2
  <2>2. QED
    BY <1>1, <1>3, <2>1 DEF OrderInv, QueuesOrdered
<1>7. \A t \in Tids : /\ AllAfter(t) => AllAfter(t)'
                      /\ t = a.tid /\ a.kind # "bare" => AllAfter(t)'
  <2>1. \A t \in Tids : AllAfter(t) => AllAfter(t)'
    BY <1>1, <1>3 DEF AllAfter
  <2>2. ASSUME NEW t \in Tids, t = a.tid, a.kind # "bare" PROVE AllAfter(t)'
    <3>1. \A k \in 1 .. Len(responses') : responses'[k].kind # "bare" =>
            t < responses'[k].tid
      BY <1>3, <2>2 DEF OrderInv, QueuesOrdered
    <3>2. /\ \A j \in 1 .. Len(requests) : t < requests[j].tid
          /\ \A q \in current : t < q.tid
      BY <1>3, <2>2 DEF OrderInv, QueuesOrdered
    <3>3. QED
      BY <1>1, <3>1, <3>2 DEF AllAfter
  <2>3. QED
    BY <2>1, <2>2
<1>8. \A t \in Tids : \/ delivered'[t] = delivered[t]
                      \/ t = a.tid /\ a.kind # "bare"
  BY <1>4, <1>5 DEF StrayInv, HistTypes
<1>9. DeliveredFirst'
  BY <1>7, <1>8 DEF OrderInv, DeliveredFirst
<1>10. PlacesOrdered'
  BY <1>1 DEF OrderInv, PlacesOrdered
<1>11. ASSUME NEW t \in Tids, delivered'[t] # delivered[t]
       PROVE  /\ delivered[t] = NoConn
              /\ \A u \in Tids : origin[u] = origin[t] /\ delivered[u] # NoConn
                   => place[u] < place[t]
  <2>1. t = a.tid /\ a.kind # "bare"
    BY <1>8, <1>11
  <2>2. \A u \in Tids : delivered[u] # NoConn => u < t
    BY <1>3, <2>1 DEF OrderInv, DeliveredFirst, AllAfter
  <2>3. origin[t] \in Conns
    BY <1>3, <2>1 DEF StrayInv, QueuedKnown, Known, Linked
  <2>4. QED
    BY <1>2, <2>2, <2>3, FdsAndSlots DEF OrderInv, PlacesOrdered
<1>12. QED
  BY <1>6, <1>9, <1>10, <1>11 DEF OrderInv

LEMMA NextOrder ==
  NetInv /\ QueueTypes /\ StrayInv /\ OrderInv /\ [Next]_vars => OrderInv'
<1> SUFFICES ASSUME NetInv, QueueTypes, StrayInv, OrderInv, [Next]_vars
             PROVE  OrderInv'
  OBVIOUS
<1>1. CASE \/ UNCHANGED vars \/ Network \/ Tick \/ Select \/ Accept
           \/ ClientsDone \/ SendReturns \/ ResponsesDone \/ CloseIdle
  <2>1. /\ UNCHANGED <<requests, current, responses, submitted, origin, place,
                       delivered>>
        /\ UNCHANGED <<pc, req>> \/ pc # "forward"
    BY <1>1 DEF vars, Network, Tick, Select, Accept, ClientsDone, SendReturns,
       ResponsesDone, NoMoreResponses, CloseIdle, gateway_vars, hist_vars,
       loop_vars
  <2>2. taken' = taken
    BY <1>1 DEF vars, net_vars, Network, Connect, ClientSends, ClientCloses,
       ClientStalls, ClientReads, Tick, Select, Accept, ClientsDone,
       SendReturns, ResponsesDone, CloseIdle
  <2>3. QED
    BY <2>1, <2>2
    DEF OrderInv, QueuesOrdered, DeliveredFirst, AllAfter, PlacesOrdered
<1>2. CASE Engine \/ Recv \/ Forward \/ Respond
  BY <1>2, OrderEngine, OrderRecv, OrderForward, OrderRespond
<1>3. QED
  BY <1>1, <1>2 DEF Next, Server

\* A request is answered at most once, and the answers that a connection gets
\* are in the order of its requests, whatever the queues drop in between and
\* whichever descriptors are reused.
THEOREM AnswersKeepOrder == Spec => AnswersInOrder
<1> DEFINE InOrder ==
      \A t \in Tids : delivered'[t] # delivered[t] =>
        /\ delivered[t] = NoConn
        /\ \A u \in Tids : origin[u] = origin[t] /\ delivered[u] # NoConn
             => place[u] < place[t]
<1>1. Init => OrderInv
  BY DEF Init, G!Init, OrderInv, QueuesOrdered, DeliveredFirst, PlacesOrdered,
     AllAfter
<1>2. NetInv /\ QueueTypes /\ StrayInv /\ OrderInv /\ [Next]_vars => [InOrder]_vars
  <2> SUFFICES ASSUME QueueTypes, StrayInv, OrderInv, Next PROVE InOrder
    OBVIOUS
  <2>1. CASE Respond
    BY <2>1, OrderRespond
  <2>2. CASE ~Respond
    <3>1. delivered' = delivered
      BY <2>2 DEF Next, Network, Engine, Server, Select, Accept, Recv, Forward,
         ClientsDone, SendReturns, ResponsesDone, CloseIdle, Tick, hist_vars
    <3>2. QED
      BY <3>1
  <2>3. QED
    BY <2>1, <2>2
<1>3. QED
  BY <1>1, <1>2, NextOrder, NetInvariant, QueueInvariant, StrayInvariant, PTL
  DEF Spec, AnswersInOrder

-----------------------------------------------------------------------------
(* The idle timeout and the wrap of uwTick.                                *)

LEMMA WrapArithmetic ==
  ASSUME NEW m \in Nat, NEW a \in 0 .. m - 1
  PROVE  /\ a % m = a /\ (a - m) % m = a
         /\ (a + 1) % m = IF a + 1 = m THEN 0 ELSE a + 1
OBVIOUS

\* The time of each slot, in terms of its age: it is never so old that uwTick
\* could have come round, because the loop closes it first.
InTime(i) ==
  /\ age[i] <= IDLE
  /\ "server" \notin overdue => age[i] < IDLE
  /\ \/ uwTick = client_last_active[i] + age[i]
     \/ uwTick = client_last_active[i] + age[i] - TICK_MOD
ClockTypes ==
  /\ uwTick \in 0 .. TICK_MOD - 1
  /\ client_last_active \in [Slots -> 0 .. TICK_MOD - 1]
  /\ age \in [Slots -> Nat]
IdleInv == ClockTypes /\ \A i \in Slots : client_sockets[i] # -1 => InTime(i)

\* The difference that the code takes is the age.
LEMMA ElapsedIsAge ==
  ASSUME ClockTypes, NEW i \in Slots, InTime(i)
  PROVE  Elapsed(i) = age[i]
<1>1. /\ age[i] \in Nat /\ age[i] \in 0 .. TICK_MOD - 1 /\ TICK_MOD \in Nat
      /\ client_last_active[i] \in Nat
  BY ServerAssumption DEF ClockTypes, InTime
<1>2. \/ uwTick - client_last_active[i] = age[i]
      \/ uwTick - client_last_active[i] = age[i] - TICK_MOD
  BY <1>1 DEF InTime
<1>3. /\ age[i] % TICK_MOD = age[i]
      /\ (age[i] - TICK_MOD) % TICK_MOD = age[i]
  BY <1>1, WrapArithmetic
<1>4. CASE uwTick - client_last_active[i] = age[i]
  BY <1>3, <1>4, Zenon DEF Elapsed
<1>5. CASE uwTick - client_last_active[i] = age[i] - TICK_MOD
  BY <1>3, <1>5, Zenon DEF Elapsed
<1>6. QED
  BY <1>2, <1>4, <1>5

LEMMA OpenMeans ==
  ASSUME NetTypes, NEW i \in Slots
  PROVE  client_sockets[i] >= 0 <=> client_sockets[i] # -1
BY FdsAndSlots DEF NetTypes, Fds

\* Steps of the server that leave the clock: a slot's time is left alone or
\* starts anew.
LEMMA IdleServer ==
  ASSUME NetInv, IdleInv, Accept \/ Recv
  PROVE  IdleInv'
<1>1. UNCHANGED <<uwTick, overdue>>
  BY DEF Accept, Recv, time_vars
<1>2. ASSUME NEW n \in Slots,
             client_last_active' = [client_last_active EXCEPT ![n] = uwTick],
             age' = [age EXCEPT ![n] = 0],
             \A i \in Slots : i # n => client_sockets'[i] = client_sockets[i]
      PROVE  IdleInv'
  <2>1. ClockTypes'
    BY <1>1, <1>2 DEF IdleInv, ClockTypes
  <2>2. \A i \in Slots : i # n =>
          /\ age'[i] = age[i] /\ client_last_active'[i] = client_last_active[i]
    BY <1>2 DEF IdleInv, ClockTypes
  <2>3. age'[n] = 0 /\ client_last_active'[n] = uwTick /\ uwTick \in Nat
    BY <1>2 DEF IdleInv, ClockTypes
  <2>4. InTime(n)'
    BY <1>1, <2>3, ServerAssumption DEF InTime
  <2>5. \A i \in Slots : i # n => (InTime(i) => InTime(i)')
    BY <1>1, <2>2 DEF InTime
  <2>6. QED
    BY <1>2, <2>1, <2>4, <2>5 DEF IdleInv
<1>3. ASSUME UNCHANGED <<client_last_active, age>>,
             \A i \in Slots : client_sockets'[i] # -1 =>
               client_sockets'[i] = client_sockets[i]
      PROVE  IdleInv'
  BY <1>1, <1>3 DEF IdleInv, ClockTypes, InTime
<1>4. CASE Accept
  <2>1. CASE UNCHANGED client_vars
    BY <1>3, <2>1 DEF client_vars
  <2>2. CASE ~UNCHANGED client_vars
    <3>1. Admit(Head(backlog))
      BY <1>4, <2>2 DEF Accept, Refuse, AcceptFails
    <3> DEFINE n == Lowest(FreeSlots)
    <3>2. n \in Slots
      BY <3>1, FreeSlotIsFree DEF Admit, NetInv
    <3>3. /\ client_sockets' = [client_sockets EXCEPT ![n] = FreeFd]
          /\ client_last_active' = [client_last_active EXCEPT ![n] = uwTick]
          /\ age' = [age EXCEPT ![n] = 0]
      BY <3>1 DEF Admit
    <3> HIDE DEF n
    <3>4. \A i \in Slots : i # n => client_sockets'[i] = client_sockets[i]
      BY <3>3 DEF NetInv, NetTypes
    <3>5. QED
      BY <1>2, <3>2, <3>3, <3>4
  <2>3. QED
    BY <2>1, <2>2
<1>5. CASE Recv
  <2> DEFINE n == Lowest(ReadySlots)
             c == sockets[client_sockets[n]]
  <2>1. n \in Slots /\ (RecvData(n, c) \/ RecvNothing(n, c))
    BY <1>5, LowestReadySlot, ReadySlotMeans DEF Recv, NetInv
  <2> HIDE DEF n, c
  <2>2. CASE RecvData(n, c)
    <3>1. /\ client_sockets' = client_sockets
          /\ UNCHANGED <<client_last_active, age>> \/ Touch(n)
      BY <2>2 DEF RecvData
    <3>2. CASE UNCHANGED <<client_last_active, age>>
      BY <1>3, <3>1, <3>2
    <3>3. CASE Touch(n)
      BY <1>2, <2>1, <3>1, <3>3 DEF Touch
    <3>4. QED
      BY <3>1, <3>2, <3>3
  <2>3. CASE RecvNothing(n, c)
    <3>1. /\ UNCHANGED <<client_last_active, age>>
          /\ \A i \in Slots : client_sockets'[i] = IF i \in {n} THEN -1
                                                   ELSE client_sockets[i]
      BY <2>3 DEF RecvNothing, close_client
    <3>2. QED
      BY <1>3, <3>1
  <2>4. QED
    BY <2>1, <2>2, <2>3
<1>6. QED
  BY <1>4, <1>5

\* The end of the loop: those whose time is up are closed.
LEMMA IdleClose ==
  ASSUME NetInv, IdleInv, CloseIdle
  PROVE  IdleInv'
<1>1. /\ close_client(IdleSlots)
      /\ UNCHANGED <<client_last_active, age, uwTick>>
  BY DEF CloseIdle
<1>2. \A i \in Slots : client_sockets'[i] = IF i \in IdleSlots THEN -1
                                            ELSE client_sockets[i]
  BY <1>1 DEF close_client
<1>3. ASSUME NEW i \in Slots, client_sockets'[i] # -1
      PROVE  InTime(i)'
  <2>1. client_sockets[i] # -1 /\ i \notin IdleSlots /\ InTime(i)
    BY <1>2, <1>3 DEF IdleInv
  <2>2. ~(age[i] >= IDLE)
    BY <2>1, ElapsedIsAge, OpenMeans DEF IdleSlots, IdleInv, NetInv
  <2>3. age[i] \in Nat /\ IDLE \in Nat
    BY ServerAssumption DEF IdleInv, ClockTypes
  <2>4. QED
    BY <1>1, <2>1, <2>2, <2>3 DEF InTime
<1>4. QED
  BY <1>1, <1>3 DEF IdleInv, ClockTypes

LEMMA IdleTick ==
  ASSUME IdleInv, Tick
  PROVE  IdleInv'
<1>1. /\ overdue = {} /\ "server" \in overdue' /\ uwTick' = (uwTick + 1) % TICK_MOD
      /\ age' = [i \in Slots |-> age[i] + 1]
      /\ UNCHANGED <<client_sockets, client_last_active>>
  BY DEF Tick
<1>2. uwTick' = IF uwTick + 1 = TICK_MOD THEN 0 ELSE uwTick + 1
  BY <1>1, WrapArithmetic, ServerAssumption DEF IdleInv, ClockTypes
<1>3. ClockTypes'
  BY <1>1, <1>2, ServerAssumption DEF IdleInv, ClockTypes
<1>4. ASSUME NEW i \in Slots, InTime(i)
      PROVE  InTime(i)'
  <2>1. /\ age[i] \in Nat /\ uwTick \in Nat /\ client_last_active[i] \in Nat
        /\ client_last_active[i] < TICK_MOD /\ uwTick < TICK_MOD
        /\ TICK_MOD \in Nat /\ IDLE \in Nat /\ IDLE < TICK_MOD
    BY ServerAssumption DEF IdleInv, ClockTypes
  <2>2. age[i] < IDLE /\ age'[i] = age[i] + 1
    BY <1>1, <1>4 DEF InTime
  <2>3. \/ uwTick' = client_last_active[i] + age'[i]
        \/ uwTick' = client_last_active[i] + age'[i] - TICK_MOD
    BY <1>2, <1>4, <2>1, <2>2 DEF InTime
  <2>4. QED
    BY <1>1, <2>1, <2>2, <2>3 DEF InTime
<1>5. QED
  BY <1>1, <1>3, <1>4 DEF IdleInv

LEMMA IdleInvariant == Spec => []IdleInv
<1>1. Init => IdleInv
  BY ServerAssumption DEF Init, IdleInv, ClockTypes
<1>2. NetInv /\ IdleInv /\ [Next]_vars => IdleInv'
  <2> SUFFICES ASSUME NetInv, IdleInv, [Next]_vars PROVE IdleInv'
    OBVIOUS
  <2>1. CASE \/ UNCHANGED vars \/ Network \/ Select \/ Forward \/ ClientsDone
             \/ Respond \/ SendReturns \/ ResponsesDone
    <3>1. UNCHANGED <<client_vars, uwTick, overdue>>
      BY <2>1 DEF vars, Network, Select, Forward, ClientsDone, Respond,
         lwip_send, SendReturns, ResponsesDone, time_vars
    <3>2. QED
      BY <3>1 DEF client_vars, IdleInv, ClockTypes, InTime
  <2>2. CASE Engine
    <3>1. /\ UNCHANGED <<client_vars, uwTick>>
          /\ overdue' = overdue \/ overdue' = overdue \ {"engine"}
      BY <2>2 DEF Engine
    <3>2. "server" \notin overdue' => "server" \notin overdue
      BY <3>1
    <3>3. QED
      BY <3>1, <3>2 DEF client_vars, IdleInv, ClockTypes, InTime
  <2>3. QED
    BY <2>1, <2>2, IdleServer, IdleClose, IdleTick DEF Next, Server
<1>3. QED
  BY <1>1, <1>2, NetInvariant, PTL DEF Spec

\* A client is closed as idle exactly when it has been idle for that long,
\* whatever the timeout, the width of uwTick and its value at the start.
THEOREM IdleTimeoutExact == Spec => []IdleExact
<1>1. NetInv /\ IdleInv => IdleExact
  BY ElapsedIsAge, OpenMeans DEF NetInv, IdleInv, IdleExact, IdleSlots
<1>2. QED
  BY <1>1, IdleInvariant, NetInvariant, PTL

-----------------------------------------------------------------------------
(* No client is closed while its request is on its way.                    *)

Due(who) == IF who \in overdue THEN 1 ELSE 0
AtIdle == IF pc = "idle" THEN 1 ELSE 0
Asker(i, t) == client_sockets[i] # -1 /\ origin[t] = sockets[client_sockets[i]]

\* A client in slot i cannot have been idle for long while its request t is at
\* its place: each unit of time sees the engine finish one request, and the
\* server collect the answers.
NotOld(i, t) ==
  /\ \A j \in 1 .. Len(requests) : requests[j].tid = t =>
       age[i] + j + Serving <= REQ_LEN + 2 + Due("engine")
  /\ \A q \in current : q.tid = t => age[i] + 1 <= REQ_LEN + 2 + Due("engine")
  /\ \A j \in 1 .. Len(responses) : responses[j].tid = t =>
       age[i] + AtIdle + 1 <= REQ_LEN + 4 + Due("server")
  /\ pc = "forward" /\ req.tid = t => age[i] <= Due("server")

EngineBusy == "engine" \in overdue => current # {}
AskersKnown ==
  \A t \in Tids : origin[t] # NoConn => conn[origin[t]] \in {"open", "closed"}
WaitInv ==
  /\ EngineBusy /\ AskersKnown
  /\ \A i \in Slots, t \in Tids : Asker(i, t) => NotOld(i, t)

LEMMA WaitTypes ==
  ASSUME QueueTypes, IdleInv, NEW i \in Slots
  PROVE  /\ age[i] \in Nat /\ Serving \in {0, 1} /\ AtIdle \in {0, 1}
         /\ \A who : Due(who) \in {0, 1}
         /\ REQ_LEN \in Nat /\ Len(requests) \in Nat
         /\ requests \in Seq(Reqs) /\ responses \in Seq(Answers)
         /\ current \in SUBSET Reqs
BY ServerAssumption DEF QueueTypes, IdleInv, ClockTypes, Serving, AtIdle, Due

LEMMA AskerMeans ==
  ASSUME NetInv, NEW i \in Slots, NEW t \in Tids, Asker(i, t)
  PROVE  /\ client_sockets[i] \in Fds /\ origin[t] \in Conns
         /\ origin[t] # NoConn
BY FdsAndSlots DEF Asker, NetInv, NetTypes, SlotsInv

\* The slots that close_client leaves, with their descriptors.
LEMMA CloseLeaves ==
  ASSUME NetInv, NEW S \in SUBSET Slots, close_client(S), NEW i \in Slots,
         client_sockets'[i] # -1
  PROVE  /\ client_sockets'[i] = client_sockets[i]
         /\ sockets'[client_sockets[i]] = sockets[client_sockets[i]]
<1>1. i \notin S /\ client_sockets'[i] = client_sockets[i]
  BY DEF close_client
<1>2. client_sockets[i] \in Fds
  BY <1>1 DEF NetInv, NetTypes
<1>3. ~\E j \in S : client_sockets[j] = client_sockets[i]
  BY <1>1 DEF NetInv, SlotsInv
<1>4. QED
  BY <1>1, <1>2, <1>3 DEF close_client

\* Who has asked was there before the step, and no slot gets older by a step of
\* the server.
LEMMA AskerStays ==
  ASSUME NetInv, IdleInv, AskersKnown, Server,
         NEW i \in Slots, NEW t \in Tids, Asker(i, t)', origin'[t] = origin[t]
  PROVE  Asker(i, t) /\ age'[i] \in Nat /\ age'[i] <= age[i]
<1>1. age \in [Slots -> Nat]
  BY DEF IdleInv, ClockTypes
<1>2. ASSUME client_sockets'[i] = client_sockets[i],
             sockets'[client_sockets[i]] = sockets[client_sockets[i]],
             age'[i] \in {age[i], 0}
      PROVE  Asker(i, t) /\ age'[i] \in Nat /\ age'[i] <= age[i]
  <2>1. age[i] \in Nat
    BY <1>1
  <2>2. client_sockets'[i] # -1 /\ origin'[t] = sockets'[client_sockets'[i]]
    BY DEF Asker
  <2>3. Asker(i, t)
    BY <1>2, <2>2 DEF Asker
  <2>4. QED
    BY <1>2, <2>1, <2>3
<1>3. CASE \/ Select \/ Forward \/ ClientsDone
           \/ Respond \/ SendReturns \/ ResponsesDone
  <2>1. UNCHANGED <<client_sockets, age, sockets>>
    BY <1>3 DEF Select, Forward, ClientsDone, Respond, lwip_send, SendReturns,
       ResponsesDone, client_vars, net_vars
  <2>2. QED
    BY <1>2, <2>1
<1>4. CASE Accept
  <2>1. CASE UNCHANGED <<client_vars, sockets>>
    BY <1>2, <2>1 DEF client_vars
  <2>2. CASE ~UNCHANGED <<client_vars, sockets>>
    <3> DEFINE n == Lowest(FreeSlots)
               c == Head(backlog)
    <3>1. listen_ready /\ Admit(c) /\ pc = "accept"
      BY <1>4, <2>2 DEF Accept, Refuse, AcceptFails
    <3>2. c \in Conns /\ conn[c] = "backlog"
      <4>1. backlog \in Seq(Conns) /\ backlog # <<>>
        BY <3>1 DEF NetInv, NetTypes, AcceptInv
      <4>2. c = backlog[1] /\ 1 \in 1 .. Len(backlog) /\ c \in Conns
        BY <4>1
      <4>3. QED
        BY <4>2 DEF NetInv, BacklogInv
    <3>3. n \in Slots
      BY <3>1, FreeSlotIsFree DEF Admit, NetInv
    <3>4. FreeFd \in Fds /\ sockets[FreeFd] = NoConn
      BY FreeFdExists DEF NetInv
    <3>5. /\ client_sockets' = [client_sockets EXCEPT ![n] = FreeFd]
          /\ age' = [age EXCEPT ![n] = 0]
          /\ sockets' = [sockets EXCEPT ![FreeFd] = c]
      BY <3>1 DEF Admit
    <3> HIDE DEF n, c
    <3>6. CASE i = n
      <4>1. client_sockets'[i] = FreeFd /\ sockets'[FreeFd] = c
        BY <3>3, <3>4, <3>5, <3>6 DEF NetInv, NetTypes
      <4>2. origin[t] = c
        BY <4>1 DEF Asker
      <4>3. QED
        BY <3>2, <4>2, FdsAndSlots DEF AskersKnown
    <3>7. CASE i # n
      <4>1. client_sockets'[i] = client_sockets[i] /\ age'[i] = age[i]
        BY <1>1, <3>5, <3>7 DEF NetInv, NetTypes
      <4>2. client_sockets[i] \in Fds /\ client_sockets[i] # FreeFd
        BY <3>4, <4>1 DEF Asker, NetInv, NetTypes, SlotsInv
      <4>3. sockets'[client_sockets[i]] = sockets[client_sockets[i]]
        BY <3>5, <4>2 DEF NetInv, NetTypes
      <4>4. QED
        BY <1>2, <4>1, <4>3
    <3>8. QED
      BY <3>6, <3>7
  <2>3. QED
    BY <2>1, <2>2
<1>5. CASE Recv
  <2> DEFINE n == Lowest(ReadySlots)
             c == sockets[client_sockets[n]]
  <2>1. n \in Slots /\ (RecvData(n, c) \/ RecvNothing(n, c))
    BY <1>5, LowestReadySlot, ReadySlotMeans DEF Recv, NetInv
  <2> HIDE DEF n, c
  <2>2. CASE RecvData(n, c)
    <3>1. UNCHANGED <<client_sockets, sockets>> /\ age'[i] \in {age[i], 0}
      BY <1>1, <2>2 DEF RecvData, Touch
    <3>2. QED
      BY <1>2, <3>1
  <2>3. CASE RecvNothing(n, c)
    <3>1. close_client({n}) /\ age' = age
      BY <2>3 DEF RecvNothing
    <3>2. client_sockets'[i] # -1
      BY DEF Asker
    <3>3. QED
      BY <1>2, <2>1, <3>1, <3>2, CloseLeaves
  <2>4. QED
    BY <2>1, <2>2, <2>3
<1>6. CASE CloseIdle
  <2>1. close_client(IdleSlots) /\ age' = age /\ IdleSlots \in SUBSET Slots
    BY <1>6 DEF CloseIdle, IdleSlots
  <2>2. client_sockets'[i] # -1
    BY DEF Asker
  <2>3. QED
    BY <1>2, <2>1, <2>2, CloseLeaves
<1>7. QED
  BY <1>3, <1>4, <1>5, <1>6 DEF Server

\* A connection that was admitted is never again one that was not.
LEMMA AdmittedStays ==
  ASSUME NetInv, [Next]_vars, NEW c \in Conns, conn[c] \in {"open", "closed"}
  PROVE  conn'[c] \in {"open", "closed"}
<1>1. CASE Network
  BY <1>1 DEF Network, Connect, ClientSends, ClientCloses, ClientStalls,
     ClientReads, NetInv, NetTypes
<1>2. CASE Accept
  BY <1>2 DEF Accept, Admit, Refuse, AcceptFails, NetInv, NetTypes
<1>3. CASE Recv
  <2>1. \A n : close_client({n}) => conn'[c] \in {"open", "closed"}
    BY DEF close_client
  <2>2. QED
    BY <1>3, <2>1 DEF Recv, RecvData, RecvNothing
<1>4. CASE CloseIdle
  BY <1>4 DEF CloseIdle, close_client
<1>5. CASE UNCHANGED vars \/ Engine \/ Select \/ Forward \/ ClientsDone
           \/ Respond \/ SendReturns \/ ResponsesDone \/ Tick
  BY <1>5 DEF vars, net_vars, Engine, Select, Forward, ClientsDone, Respond,
     lwip_send, SendReturns, ResponsesDone, Tick
<1>6. QED
  BY <1>1, <1>2, <1>3, <1>4, <1>5 DEF Next, Server

LEMMA NextAskers ==
  ASSUME NetInv, StrayInv, AskersKnown, [Next]_vars
  PROVE  AskersKnown'
<1>1. CASE Recv
  <2> DEFINE n == Lowest(ReadySlots)
             c == sockets[client_sockets[n]]
  <2>1. client_sockets[n] \in Fds /\ c \in Conns
    BY <1>1, LowestReadySlot, ReadySlotMeans DEF Recv, NetInv
  <2>2. conn[c] = "open"
    BY <2>1 DEF NetInv, ConnInv
  <2>3. RecvData(n, c) \/ RecvNothing(n, c)
    BY <1>1 DEF Recv
  <2> HIDE DEF n, c
  <2>4. origin' = origin \/ origin' = [origin EXCEPT ![submitted + 1] = c]
    BY <2>3 DEF RecvData, RecvNothing
  <2>5. \A t \in Tids : origin'[t] \in {origin[t], c}
    BY <2>4 DEF StrayInv, HistTypes
  <2>6. \A t \in Tids : origin[t] \in Conns \cup {NoConn}
    BY DEF StrayInv, HistTypes
  <2>7. QED
    BY <2>1, <2>2, <2>5, <2>6, AdmittedStays DEF AskersKnown
<1>2. CASE ~Recv
  <2>1. \A t \in Tids : origin'[t] \in {origin[t], NoConn}
    BY <1>2 DEF StrayInv, HistTypes, Next, vars, Network, Engine, Server,
       Select, Accept, Forward, ClientsDone, Respond, lwip_send, SendReturns,
       ResponsesDone, CloseIdle, Tick, hist_vars
  <2>2. \A t \in Tids : origin[t] \in Conns \cup {NoConn}
    BY DEF StrayInv, HistTypes
  <2>3. QED
    BY <2>1, <2>2, AdmittedStays DEF AskersKnown
<1>3. QED
  BY <1>1, <1>2

\* An answer has the number of its request, or none.
LEMMA AnswerNumber ==
  ASSUME NEW q, NEW a \in G!AnswersTo(q)
  PROVE  a.tid \in {q.tid, 0}
BY DEF G!AnswersTo, G!Bare, G!Framed

\* A request moves up when the engine takes one, and becomes an answer one unit
\* later at the most.
LEMMA WaitEngine ==
  ASSUME QueueTypes, IdleInv, WaitInv, Engine
  PROVE  /\ EngineBusy'
         /\ \A i \in Slots, t \in Tids : Asker(i, t)' => NotOld(i, t)'
<1>1. UNCHANGED <<client_sockets, sockets, age, origin, pc, req>>
  BY DEF Engine, client_vars, loop_vars, net_vars, hist_vars
<1>2. EngineBusy'
  BY DEF Engine, WaitInv, EngineBusy, G!Take, G!Answer, G!LoseAnswer, G!GiveUp
<1>3. ASSUME NEW i \in Slots, NEW t \in Tids, Asker(i, t)'
      PROVE  NotOld(i, t)'
  <2>1. NotOld(i, t)
    BY <1>1, <1>3 DEF WaitInv, Asker
  <2>2. /\ age'[i] = age[i] /\ AtIdle' = AtIdle
        /\ "server" \in overdue' <=> "server" \in overdue
        /\ Due("server")' = Due("server")
    BY <1>1 DEF Engine, AtIdle, Due
  <2>3. pc' = "forward" /\ req'.tid = t => age'[i] <= Due("server")'
    BY <1>1, <2>1, <2>2 DEF NotOld
  <2>4. /\ age[i] \in Nat /\ Serving \in {0, 1} /\ AtIdle \in {0, 1}
        /\ Due("engine") \in {0, 1} /\ Due("server") \in {0, 1}
        /\ REQ_LEN \in Nat /\ Len(requests) \in Nat
        /\ requests \in Seq(Reqs) /\ responses \in Seq(Answers)
    BY WaitTypes
  <2>5. CASE G!Take
    <3>1. /\ requests # <<>> /\ requests' = Tail(requests) /\ current = {}
          /\ current' = {Head(requests)} /\ responses' = responses
          /\ overdue' = overdue
      BY <2>5 DEF Engine, G!Take, G!Answer, G!LoseAnswer, G!GiveUp
    <3>2. Serving = 0 /\ Serving' = 1 /\ Due("engine") = 0 /\ Due("engine")' = 0
      BY <3>1 DEF Serving, Due, WaitInv, EngineBusy
    <3>3. /\ Head(requests) = requests[1] /\ 1 \in 1 .. Len(requests)
          /\ \A j \in 1 .. Len(requests') :
               j + 1 \in 1 .. Len(requests) /\ requests'[j] = requests[j + 1]
      BY <2>4, <3>1
    <3>4. ASSUME NEW j \in 1 .. Len(requests'), requests'[j].tid = t
          PROVE  age'[i] + j + Serving' <= REQ_LEN + 2 + Due("engine")'
      <4>1. age[i] + (j + 1) + Serving <= REQ_LEN + 2 + Due("engine")
        BY <2>1, <3>3, <3>4 DEF NotOld
      <4>2. j \in Nat
        OBVIOUS
      <4>3. QED
        BY <2>2, <2>4, <3>2, <4>1, <4>2
    <3>5. requests[1].tid = t => age'[i] + 1 <= REQ_LEN + 2 + Due("engine")'
      <4>1. requests[1].tid = t =>
              age[i] + 1 + Serving <= REQ_LEN + 2 + Due("engine")
        BY <2>1, <3>3 DEF NotOld
      <4>2. QED
        BY <2>2, <2>4, <3>2, <4>1
    <3>6. \A j \in 1 .. Len(responses') : responses'[j].tid = t =>
            age'[i] + AtIdle' + 1 <= REQ_LEN + 4 + Due("server")'
      BY <2>1, <2>2, <3>1 DEF NotOld
    <3>7. QED
      BY <2>3, <3>1, <3>3, <3>4, <3>5, <3>6 DEF NotOld
  <2>6. CASE G!Answer \/ G!LoseAnswer \/ G!GiveUp
    <3>1. /\ current # {} /\ current' = {} /\ requests' = requests
          /\ overdue' = overdue \ {"engine"}
      BY <2>6 DEF Engine, G!Take, G!Answer, G!LoseAnswer, G!GiveUp
    <3>2. Serving = 1 /\ Serving' = 0 /\ Due("engine")' = 0
      BY <3>1 DEF Serving, Due
    <3>3. ASSUME NEW j \in 1 .. Len(requests'), requests'[j].tid = t
          PROVE  age'[i] + j + Serving' <= REQ_LEN + 2 + Due("engine")'
      <4>1. age[i] + j + Serving <= REQ_LEN + 2 + Due("engine")
        BY <2>1, <3>1, <3>3 DEF NotOld
      <4>2. j \in Nat
        OBVIOUS
      <4>3. QED
        BY <2>2, <2>4, <3>2, <4>1, <4>2
    <3>4. ASSUME NEW j \in 1 .. Len(responses'), responses'[j].tid = t
          PROVE  age'[i] + AtIdle' + 1 <= REQ_LEN + 4 + Due("server")'
      <4>1. \/ j \in 1 .. Len(responses) /\ responses'[j] = responses[j]
            \/ \E q \in current : q.tid = t
        <5>1. CASE G!Answer
          <6>1. PICK q \in current : \E a \in G!AnswersTo(q) :
                  responses' = Append(responses, a)
            BY <5>1 DEF G!Answer
          <6>2. PICK a \in G!AnswersTo(q) : responses' = Append(responses, a)
            BY <6>1
          <6>3. a.tid \in {q.tid, 0}
            BY AnswerNumber
          <6>4. \/ j \in 1 .. Len(responses) /\ responses'[j] = responses[j]
                \/ responses'[j] = a
            <7>1. a \in Answers
              BY <6>2, AnswersType DEF QueueTypes
            <7>2. QED
              BY <2>4, <6>2, <7>1
          <6>5. t # 0
            BY DEF Tids
          <6>6. QED
            BY <3>4, <6>3, <6>4, <6>5
        <5>2. CASE G!LoseAnswer \/ G!GiveUp
          BY <5>2 DEF G!LoseAnswer, G!GiveUp
        <5>3. QED
          BY <2>6, <5>1, <5>2
      <4>2. CASE j \in 1 .. Len(responses) /\ responses'[j] = responses[j]
        BY <2>1, <2>2, <3>4, <4>2 DEF NotOld
      <4>3. CASE \E q \in current : q.tid = t
        <5>1. age[i] + 1 <= REQ_LEN + 2 + Due("engine")
          BY <2>1, <4>3 DEF NotOld
        <5>2. QED
          BY <2>2, <2>4, <5>1
      <4>4. QED
        BY <4>1, <4>2, <4>3
    <3>5. QED
      BY <2>3, <3>1, <3>3, <3>4 DEF NotOld
  <2>7. QED
    BY <2>5, <2>6 DEF Engine
<1>4. QED
  BY <1>2, <1>3

\* The server's steps but Recv and Forward leave requests where they are; the
\* loop has come round before the next unit of time.
LEMMA WaitLoop ==
  ASSUME NetInv, QueueTypes, IdleInv, WaitInv,
         \/ Select \/ Accept \/ ClientsDone
         \/ Respond \/ SendReturns \/ ResponsesDone \/ CloseIdle
  PROVE  /\ EngineBusy'
         /\ \A i \in Slots, t \in Tids : Asker(i, t)' => NotOld(i, t)'
<1>1. /\ UNCHANGED <<requests, current, origin>> /\ pc # "forward"
      /\ pc' # "forward" /\ Server
  BY DEF Select, Accept, ClientsDone, Respond, lwip_send, SendReturns,
     ResponsesDone, NoMoreResponses, CloseIdle, loop_vars, gateway_vars,
     hist_vars, Server
<1>2. \/ overdue' = overdue
      \/ pc = "idle" /\ pc' = "select" /\ overdue' = overdue \ {"server"}
  BY DEF Select, Accept, ClientsDone, Respond, lwip_send, SendReturns,
     ResponsesDone, CloseIdle, time_vars
<1>3. /\ Due("engine")' = Due("engine") /\ Serving' = Serving
      /\ "engine" \in overdue' <=> "engine" \in overdue
  BY <1>1, <1>2 DEF Due, Serving
<1>4. EngineBusy'
  BY <1>1, <1>3 DEF WaitInv, EngineBusy
<1>5. ASSUME NEW i \in Slots, NEW t \in Tids, Asker(i, t)'
      PROVE  NotOld(i, t)'
  <2>1. Asker(i, t) /\ age'[i] \in Nat /\ age'[i] <= age[i]
    BY <1>1, <1>5, AskerStays DEF WaitInv
  <2>2. NotOld(i, t)
    BY <2>1 DEF WaitInv
  <2>3. /\ age[i] \in Nat /\ Serving \in {0, 1} /\ AtIdle \in {0, 1}
        /\ Due("engine") \in {0, 1} /\ Due("server") \in {0, 1}
        /\ REQ_LEN \in Nat /\ responses \in Seq(Answers)
    BY WaitTypes
  <2>4. ASSUME NEW j \in 1 .. Len(requests'), requests'[j].tid = t
        PROVE  age'[i] + j + Serving' <= REQ_LEN + 2 + Due("engine")'
    <3>1. age[i] + j + Serving <= REQ_LEN + 2 + Due("engine")
      BY <1>1, <2>2, <2>4 DEF NotOld
    <3>2. j \in Nat
      OBVIOUS
    <3>3. QED
      BY <1>3, <2>1, <2>3, <3>1, <3>2
  <2>5. ASSUME NEW q \in current', q.tid = t
        PROVE  age'[i] + 1 <= REQ_LEN + 2 + Due("engine")'
    <3>1. age[i] + 1 <= REQ_LEN + 2 + Due("engine")
      BY <1>1, <2>2, <2>5 DEF NotOld
    <3>2. QED
      BY <1>3, <2>1, <2>3, <3>1
  <2>6. ASSUME NEW j \in 1 .. Len(responses'), responses'[j].tid = t
        PROVE  age'[i] + AtIdle' + 1 <= REQ_LEN + 4 + Due("server")'
    <3>1. \E k \in 1 .. Len(responses) : responses[k].tid = t
      <4>1. CASE Respond
        <5>1. responses # <<>> /\ responses' = Tail(responses)
          BY <4>1 DEF Respond
        <5>2. j + 1 \in 1 .. Len(responses) /\ responses'[j] = responses[j + 1]
          BY <2>3, <5>1
        <5>3. QED
          BY <2>6, <5>2
      <4>2. CASE ~Respond
        <5>1. responses' = responses
          BY <4>2 DEF Select, Accept, ClientsDone, SendReturns, ResponsesDone,
             CloseIdle, gateway_vars
        <5>2. QED
          BY <2>6, <5>1
      <4>3. QED
        BY <4>1, <4>2
    <3>2. age[i] + AtIdle + 1 <= REQ_LEN + 4 + Due("server")
      BY <2>2, <3>1 DEF NotOld
    <3>3. CASE overdue' = overdue
      <4>1. AtIdle' = 1 => AtIdle = 1
        <5>1. responses # <<>>
          BY <2>3, <3>1
        <5>2. pc' = "idle" => pc = "idle"
          BY <5>1 DEF Select, Accept, ClientsDone, Respond, lwip_send,
             SendReturns, ResponsesDone, NoMoreResponses, CloseIdle, loop_vars
        <5>3. QED
          BY <5>2 DEF AtIdle
      <4>2. AtIdle' \in {0, 1} /\ Due("server")' = Due("server")
        BY <3>3 DEF AtIdle, Due
      <4>3. QED
        BY <2>1, <2>3, <3>2, <4>1, <4>2
    <3>4. CASE pc = "idle" /\ pc' = "select" /\ overdue' = overdue \ {"server"}
      <4>1. AtIdle = 1 /\ AtIdle' = 0 /\ Due("server")' = 0
        BY <3>4 DEF AtIdle, Due
      <4>2. QED
        BY <2>1, <2>3, <3>2, <4>1
    <3>5. QED
      BY <1>2, <3>3, <3>4
  <2>7. QED
    BY <1>1, <2>4, <2>5, <2>6 DEF NotOld
<1>6. QED
  BY <1>4, <1>5

\* The client that has just sent a request is not old.
LEMMA WaitRecv ==
  ASSUME NetInv, QueueTypes, StrayInv, IdleInv, WaitInv, Recv
  PROVE  /\ EngineBusy'
         /\ \A i \in Slots, t \in Tids : Asker(i, t)' => NotOld(i, t)'
<1> DEFINE n == Lowest(ReadySlots)
           c == sockets[client_sockets[n]]
<1>1. n \in Slots /\ client_sockets[n] \in Fds /\ c \in Conns
  BY LowestReadySlot, ReadySlotMeans DEF Recv, NetInv
<1>2. /\ pc = "clients" /\ UNCHANGED <<gateway_vars, overdue>>
      /\ RecvData(n, c) \/ RecvNothing(n, c)
  BY DEF Recv, time_vars
<1>3. c = sockets[client_sockets[n]]
  OBVIOUS
<1> HIDE DEF n, c
<1>4. /\ UNCHANGED <<requests, current, responses, submitted, overdue>>
      /\ submitted \in Nat /\ Server
      /\ Serving' = Serving /\ Due("engine")' = Due("engine")
      /\ Due("server")' = Due("server")
  BY <1>2 DEF gateway_vars, QueueTypes, Server, Serving, Due
<1>5. pc' # "idle" /\ AtIdle = 0 /\ AtIdle' = 0
  <2>1. pc' \in {"clients", "forward"}
    BY <1>2 DEF RecvData, RecvNothing
  <2>2. QED
    BY <1>2, <2>1 DEF AtIdle
<1>6. \/ origin' = origin /\ pc' = "clients"
      \/ /\ RecvData(n, c) /\ Touch(n) /\ req'.tid = submitted + 1
         /\ origin' = [origin EXCEPT ![submitted + 1] = c]
  BY <1>2 DEF RecvData, RecvNothing
<1>7. ASSUME NEW i \in Slots, NEW t \in Tids, Asker(i, t)', origin'[t] = origin[t],
             pc' = "clients" \/ t # req'.tid
      PROVE  NotOld(i, t)'
  <2>1. Asker(i, t) /\ age'[i] \in Nat /\ age'[i] <= age[i]
    BY <1>4, <1>7, AskerStays DEF WaitInv
  <2>2. NotOld(i, t)
    BY <2>1 DEF WaitInv
  <2>3. /\ age[i] \in Nat /\ Serving \in {0, 1}
        /\ Due("engine") \in {0, 1} /\ Due("server") \in {0, 1} /\ REQ_LEN \in Nat
    BY WaitTypes
  <2>4. \A j \in 1 .. Len(requests) : requests[j].tid = t =>
          age'[i] + j + Serving <= REQ_LEN + 2 + Due("engine")
    <3>1. TAKE j \in 1 .. Len(requests)
    <3>2. HAVE requests[j].tid = t
    <3>3. age[i] + j + Serving <= REQ_LEN + 2 + Due("engine")
      BY <2>2, <3>2 DEF NotOld
    <3>4. j \in Nat
      OBVIOUS
    <3>5. QED
      BY <2>1, <2>3, <3>3, <3>4
  <2>5. \A q \in current : q.tid = t => age'[i] + 1 <= REQ_LEN + 2 + Due("engine")
    <3>1. TAKE q \in current
    <3>2. HAVE q.tid = t
    <3>3. age[i] + 1 <= REQ_LEN + 2 + Due("engine")
      BY <2>2, <3>2 DEF NotOld
    <3>4. QED
      BY <2>1, <2>3, <3>3
  <2>6. \A j \in 1 .. Len(responses) : responses[j].tid = t =>
          age'[i] + AtIdle' + 1 <= REQ_LEN + 4 + Due("server")
    <3>1. TAKE j \in 1 .. Len(responses)
    <3>2. HAVE responses[j].tid = t
    <3>3. age[i] + AtIdle + 1 <= REQ_LEN + 4 + Due("server")
      BY <2>2, <3>2 DEF NotOld
    <3>4. QED
      BY <1>5, <2>1, <2>3, <3>3
  <2>7. QED
    BY <1>4, <1>7, <2>4, <2>5, <2>6 DEF NotOld
<1>8. CASE origin' = origin /\ pc' = "clients"
  BY <1>4, <1>7, <1>8 DEF WaitInv, EngineBusy
<1>9. CASE /\ RecvData(n, c) /\ Touch(n) /\ req'.tid = submitted + 1
           /\ origin' = [origin EXCEPT ![submitted + 1] = c]
  <2>1. ASSUME NEW i \in Slots, NEW t \in Tids, Asker(i, t)' PROVE NotOld(i, t)'
    <3>1. CASE t # submitted + 1
      <4>1. origin'[t] = origin[t]
        BY <1>9, <3>1 DEF StrayInv, HistTypes
      <4>2. QED
        BY <1>7, <1>9, <2>1, <3>1, <4>1
    <3>2. CASE t = submitted + 1
      <4>1. origin'[t] = c
        BY <1>9, <3>2 DEF StrayInv, HistTypes
      <4>2. UNCHANGED <<client_sockets, sockets>>
        BY <1>9 DEF RecvData
      <4>3. i = n
        <5>1. /\ client_sockets[i] # -1
              /\ sockets[client_sockets[i]] = sockets[client_sockets[n]]
          BY <1>3, <2>1, <4>1, <4>2 DEF Asker
        <5>2. client_sockets[i] = client_sockets[n]
          <6>1. client_sockets[i] \in Fds /\ client_sockets[n] \in Fds
            BY <1>1, <1>3, <5>1, FdsAndSlots DEF NetInv, NetTypes
          <6>2. \A d \in Fds : (\E j \in Slots : client_sockets[j] = d)
                                => sockets[d] # NoConn
            BY DEF NetInv, SlotsInv
          <6>3. sockets[client_sockets[i]] # NoConn
            BY <6>1, <6>2
          <6>4. \A d, e \in Fds : sockets[d] = sockets[e] /\ sockets[d] # NoConn
                                  => d = e
            BY DEF NetInv, ConnInv
          <6>5. QED
            BY <5>1, <6>1, <6>3, <6>4
        <5>3. QED
          BY <1>1, <5>1, <5>2 DEF NetInv, SlotsInv
      <4>4. age'[i] = 0
        BY <1>9, <4>3 DEF Touch, IdleInv, ClockTypes
      <4>5. age'[i] <= Due("server")'
        BY <4>4 DEF Due
      <4>6. /\ \A j \in 1 .. Len(requests) : requests[j].tid # t
            /\ \A q \in current : q.tid # t
        BY <1>4, <3>2 DEF StrayInv, QueuedKnown, Known
      <4>7. \A j \in 1 .. Len(responses) : responses[j].tid = t =>
              age'[i] + AtIdle' + 1 <= REQ_LEN + 4 + Due("server")'
        BY <1>5, <4>4, ServerAssumption DEF Due
      <4>8. QED
        BY <1>4, <4>5, <4>6, <4>7 DEF NotOld
    <3>3. QED
      BY <3>1, <3>2
  <2>2. QED
    BY <1>4, <2>1 DEF WaitInv, EngineBusy
<1>10. QED
  BY <1>6, <1>8, <1>9

\* A request is forwarded within a unit of time after it was received.
LEMMA WaitForward ==
  ASSUME NetInv, NetInv', QueueTypes, LoadInv', StrayInv, IdleInv, WaitInv, Forward
  PROVE  /\ EngineBusy'
         /\ \A i \in Slots, t \in Tids : Asker(i, t)' => NotOld(i, t)'
<1>1. /\ pc = "forward" /\ pc' = "clients" /\ Server
      /\ UNCHANGED <<responses, current, overdue>>
  BY DEF Forward, time_vars, Server
<1>2. /\ Serving' = Serving /\ Due("engine")' = Due("engine")
      /\ Due("server")' = Due("server") /\ AtIdle = 0 /\ AtIdle' = 0
  BY <1>1 DEF Serving, Due, AtIdle
<1>3. /\ requests \in Seq(Reqs) /\ submitted \in Nat /\ req \in Reqs
      /\ Len(requests) \in Nat
  BY <1>1 DEF QueueTypes
<1>4. ASSUME NEW i \in Slots, NEW t \in Tids, Asker(i, t)' PROVE NotOld(i, t)'
  <2>1. origin'[t] # NoConn
    <3>1. client_sockets'[i] # -1 /\ origin'[t] = sockets'[client_sockets'[i]]
      BY <1>4 DEF Asker
    <3>2. client_sockets' \in [Slots -> Fds \cup {-1}]
      BY DEF NetInv, NetTypes
    <3>3. client_sockets'[i] \in Fds
      BY <3>1, <3>2
    <3>4. \A d \in Fds : (\E j \in Slots : client_sockets'[j] = d)
                          => sockets'[d] # NoConn
      BY DEF NetInv, SlotsInv
    <3>5. QED
      BY <3>1, <3>3, <3>4
  <2>2. origin'[t] = origin[t]
    BY <2>1 DEF Forward, StrayInv, HistTypes
  <2>3. Asker(i, t) /\ age'[i] \in Nat /\ age'[i] <= age[i]
    BY <1>1, <1>4, <2>2, AskerStays DEF WaitInv
  <2>4. NotOld(i, t)
    BY <2>3 DEF WaitInv
  <2>5. /\ age[i] \in Nat /\ Serving \in {0, 1}
        /\ Due("engine") \in {0, 1} /\ Due("server") \in {0, 1} /\ REQ_LEN \in Nat
    BY WaitTypes
  <2>6. ASSUME NEW j \in 1 .. Len(requests'), requests'[j].tid = t
        PROVE  age'[i] + j + Serving <= REQ_LEN + 2 + Due("engine")
    <3>1. j \in Nat
      OBVIOUS
    <3>2. \/ j \in 1 .. Len(requests) /\ requests'[j] = requests[j]
          \/ requests'[j] = req /\ j <= REQ_LEN
      <4>1. CASE requests' = Append(requests, req)
        <5>1. Len(requests') <= REQ_LEN
          BY DEF LoadInv
        <5>2. QED
          BY <1>3, <2>5, <4>1, <5>1
      <4>2. CASE requests' = requests
        BY <4>2
      <4>3. QED
        BY <4>1, <4>2 DEF Forward
    <3>3. CASE j \in 1 .. Len(requests) /\ requests'[j] = requests[j]
      <4>1. age[i] + j + Serving <= REQ_LEN + 2 + Due("engine")
        BY <2>4, <2>6, <3>3 DEF NotOld
      <4>2. QED
        BY <2>3, <2>5, <3>1, <4>1
    <3>4. CASE requests'[j] = req /\ j <= REQ_LEN
      <4>1. age[i] <= Due("server")
        BY <1>1, <2>4, <2>6, <3>4 DEF NotOld
      <4>2. QED
        BY <2>3, <2>5, <3>1, <3>4, <4>1
    <3>5. QED
      BY <3>2, <3>3, <3>4
  <2>7. \A q \in current : q.tid = t => age'[i] + 1 <= REQ_LEN + 2 + Due("engine")
    <3>1. TAKE q \in current
    <3>2. HAVE q.tid = t
    <3>3. age[i] + 1 <= REQ_LEN + 2 + Due("engine")
      BY <2>4, <3>2 DEF NotOld
    <3>4. QED
      BY <2>3, <2>5, <3>3
  <2>8. \A j \in 1 .. Len(responses) : responses[j].tid = t =>
          age'[i] + AtIdle' + 1 <= REQ_LEN + 4 + Due("server")
    <3>1. TAKE j \in 1 .. Len(responses)
    <3>2. HAVE responses[j].tid = t
    <3>3. age[i] + AtIdle + 1 <= REQ_LEN + 4 + Due("server")
      BY <2>4, <3>2 DEF NotOld
    <3>4. QED
      BY <1>2, <2>3, <2>5, <3>3
  <2>9. QED
    BY <1>1, <1>2, <2>6, <2>7, <2>8 DEF NotOld
<1>5. QED
  BY <1>1, <1>4 DEF WaitInv, EngineBusy

\* A unit of time passes only after the loop has come round, with a request in
\* service if there is any.
LEMMA WaitTick ==
  ASSUME QueueTypes, IdleInv, WaitInv, Tick
  PROVE  /\ EngineBusy'
         /\ \A i \in Slots, t \in Tids : Asker(i, t)' => NotOld(i, t)'
<1>1. /\ UNCHANGED <<requests, current, responses, client_sockets, sockets, origin,
                     pc, req>>
      /\ overdue = {} /\ (requests # <<>> => current # {})
      /\ overdue' = {"server"} \cup (IF current = {} THEN {} ELSE {"engine"})
  BY DEF Tick, gateway_vars, loop_vars, net_vars, hist_vars
<1>2. /\ Serving' = Serving /\ AtIdle' = AtIdle
      /\ Due("engine") = 0 /\ Due("engine")' = Serving
      /\ Due("server") = 0 /\ Due("server")' = 1
  BY <1>1 DEF Serving, AtIdle, Due
<1>3. EngineBusy'
  BY <1>1 DEF EngineBusy
<1>4. ASSUME NEW i \in Slots, NEW t \in Tids, Asker(i, t)' PROVE NotOld(i, t)'
  <2>1. NotOld(i, t)
    BY <1>1, <1>4 DEF WaitInv, Asker
  <2>2. age'[i] = age[i] + 1
    BY DEF Tick
  <2>3. /\ age[i] \in Nat /\ Serving \in {0, 1} /\ AtIdle \in {0, 1}
        /\ REQ_LEN \in Nat
    BY WaitTypes
  <2>4. ASSUME NEW j \in 1 .. Len(requests), requests[j].tid = t
        PROVE  age'[i] + j + Serving <= REQ_LEN + 2 + Serving
    <3>1. age[i] + j + Serving <= REQ_LEN + 2 + Due("engine") /\ j \in Nat
      BY <2>1, <2>4 DEF NotOld
    <3>2. Serving = 1
      BY <1>1, <2>4 DEF Serving
    <3>3. QED
      BY <1>2, <2>2, <2>3, <3>1, <3>2
  <2>5. ASSUME NEW q \in current, q.tid = t
        PROVE  age'[i] + 1 <= REQ_LEN + 2 + Serving
    <3>1. age[i] + 1 <= REQ_LEN + 2 + Due("engine")
      BY <2>1, <2>5 DEF NotOld
    <3>2. Serving = 1
      BY <2>5 DEF Serving
    <3>3. QED
      BY <1>2, <2>2, <2>3, <3>1, <3>2
  <2>6. ASSUME NEW j \in 1 .. Len(responses), responses[j].tid = t
        PROVE  age'[i] + AtIdle + 1 <= REQ_LEN + 4 + 1
    <3>1. age[i] + AtIdle + 1 <= REQ_LEN + 4 + Due("server")
      BY <2>1, <2>6 DEF NotOld
    <3>2. QED
      BY <1>2, <2>2, <2>3, <3>1
  <2>7. pc = "forward" /\ req.tid = t => age'[i] <= 1
    <3>1. pc = "forward" /\ req.tid = t => age[i] <= 0
      BY <1>2, <2>1 DEF NotOld
    <3>2. QED
      BY <2>2, <2>3, <3>1
  <2>8. QED
    BY <1>1, <1>2, <2>4, <2>5, <2>6, <2>7 DEF NotOld
<1>5. QED
  BY <1>3, <1>4

LEMMA NextWait ==
  /\ NetInv /\ NetInv' /\ QueueTypes /\ LoadInv' /\ StrayInv /\ IdleInv
  /\ WaitInv /\ [Next]_vars
  => WaitInv'
<1> SUFFICES ASSUME NetInv, NetInv', QueueTypes, LoadInv', StrayInv, IdleInv,
                    WaitInv, [Next]_vars
             PROVE  WaitInv'
  OBVIOUS
<1>1. AskersKnown'
  BY NextAskers DEF WaitInv
<1>2. CASE UNCHANGED vars \/ Network
  <2>1. UNCHANGED <<requests, current, responses, client_sockets, sockets, origin,
                    age, overdue, pc, req>>
    BY <1>2 DEF vars, Network, Connect, ClientSends, ClientCloses, ClientStalls,
       ClientReads, gateway_vars, client_vars, net_vars, time_vars, hist_vars,
       loop_vars
  <2>2. /\ EngineBusy'
        /\ \A i \in Slots, t \in Tids : Asker(i, t)' => NotOld(i, t)'
    BY <2>1 DEF WaitInv, EngineBusy, Asker, NotOld, Serving, AtIdle, Due
  <2>3. QED
    BY <1>1, <2>2 DEF WaitInv
<1>3. CASE Engine
  BY <1>1, <1>3, WaitEngine DEF WaitInv
<1>4. CASE \/ Select \/ Accept \/ ClientsDone
           \/ Respond \/ SendReturns \/ ResponsesDone \/ CloseIdle
  BY <1>1, <1>4, WaitLoop DEF WaitInv
<1>5. CASE Recv
  BY <1>1, <1>5, WaitRecv DEF WaitInv
<1>6. CASE Forward
  BY <1>1, <1>6, WaitForward DEF WaitInv
<1>7. CASE Tick
  BY <1>1, <1>7, WaitTick DEF WaitInv
<1>8. QED
  BY <1>2, <1>3, <1>4, <1>5, <1>6, <1>7 DEF Next, Server

\* With an idle timeout of four services more than the request queue has places
\* (23 and 8 in app_config.h, in units of 1.301 s) no client is closed as idle
\* while its request is on its way, whatever is before it and whatever lwip_send
\* does within one unit of time.
THEOREM IdleClientsHaveNoRequest ==
  ASSUME IDLE >= REQ_LEN + 4
  PROVE  Spec => []IdleHasNothingOutstanding
<1>1. Init => WaitInv
  BY FdsAndSlots DEF Init, G!Init, WaitInv, EngineBusy, AskersKnown, Asker
<1>2. Spec => []WaitInv
  BY <1>1, NextWait, NetInvariant, QueueInvariant, StrayInvariant, IdleInvariant,
     PTL DEF Spec
<1>3. NetInv /\ QueueTypes /\ IdleInv /\ WaitInv => IdleHasNothingOutstanding
  <2> SUFFICES ASSUME NetInv, QueueTypes, IdleInv, WaitInv, pc = "idle",
                      NEW i \in IdleSlots, NEW t \in Tids,
                      origin[t] = sockets[client_sockets[i]]
               PROVE  ~Outstanding(t)
    BY DEF IdleHasNothingOutstanding
  <2>1. i \in Slots /\ client_sockets[i] # -1 /\ Elapsed(i) >= IDLE
    BY OpenMeans DEF IdleSlots, NetInv
  <2>2. age[i] >= REQ_LEN + 4
    <3>1. Elapsed(i) = age[i]
      BY <2>1, ElapsedIsAge DEF IdleInv
    <3>2. age[i] \in Nat /\ IDLE \in Nat /\ REQ_LEN \in Nat
      BY <2>1, ServerAssumption DEF IdleInv, ClockTypes
    <3>3. QED
      BY <2>1, <3>1, <3>2
  <2>3. NotOld(i, t)
    BY <2>1 DEF WaitInv, Asker
  <2>4. /\ age[i] \in Nat /\ Serving \in {0, 1} /\ AtIdle = 1
        /\ Due("engine") \in {0, 1} /\ Due("server") \in {0, 1} /\ REQ_LEN \in Nat
    BY <2>1, WaitTypes DEF AtIdle
  <2>5. Due("engine") <= Serving
    BY DEF WaitInv, EngineBusy, Serving, Due
  <2>6. ASSUME NEW j \in 1 .. Len(requests), requests[j].tid = t PROVE FALSE
    <3>1. age[i] + j + Serving <= REQ_LEN + 2 + Due("engine") /\ j \in Nat
      BY <2>3, <2>6 DEF NotOld
    <3>2. QED
      BY <2>2, <2>4, <2>5, <3>1
  <2>7. ASSUME NEW q \in current, q.tid = t PROVE FALSE
    <3>1. age[i] + 1 <= REQ_LEN + 2 + Due("engine")
      BY <2>3, <2>7 DEF NotOld
    <3>2. QED
      BY <2>2, <2>4, <3>1
  <2>8. ASSUME NEW j \in 1 .. Len(responses), responses[j].tid = t PROVE FALSE
    <3>1. age[i] + AtIdle + 1 <= REQ_LEN + 4 + Due("server")
      BY <2>3, <2>8 DEF NotOld
    <3>2. QED
      BY <2>2, <2>4, <3>1
  <2>9. QED
    BY <2>6, <2>7, <2>8 DEF Outstanding
<1>4. QED
  BY <1>2, <1>3, NetInvariant, QueueInvariant, IdleInvariant, PTL

-----------------------------------------------------------------------------
(* The server's side of Gateway.                                           *)

\* What is about to be forwarded is a request that the engine is specified for.
Forwardable ==
  pc = "forward" =>
    /\ req.tid = submitted + 1
    /\ \E f \in Frames, s \in Fds :
         req = [tid |-> req.tid, client_sock |-> s, protocol_id |-> f.protocol_id,
                unit |-> f.unit, frame_len |-> f.frame_len]

LEMMA NextForwardable == NetInv /\ Forwardable /\ [Next]_vars => Forwardable'
<1> SUFFICES ASSUME NetInv, Forwardable, [Next]_vars PROVE Forwardable'
  OBVIOUS
<1>1. CASE Recv /\ pc' = "forward"
  <2> DEFINE i == Lowest(ReadySlots)
             c == sockets[client_sockets[i]]
  <2>1. client_sockets[i] \in Fds
    BY <1>1, LowestReadySlot, ReadySlotMeans DEF Recv, NetInv
  <2>2. /\ pc = "clients" /\ UNCHANGED gateway_vars
        /\ RecvData(i, c) \/ RecvNothing(i, c)
    BY <1>1 DEF Recv
  <2> HIDE DEF i, c
  <2>3. PICK k \in Chunks, h \in Headers :
          /\ LongEnough(6 * k)
          /\ req' = [tid |-> submitted + 1, client_sock |-> client_sockets[i],
                     protocol_id |-> h.protocol_id, unit |-> h.unit,
                     frame_len |-> 6 * k]
    BY <1>1, <2>2 DEF RecvData, RecvNothing
  <2>4. 6 * k \in ForwardedLen
    BY <2>3, ServerAssumption
    DEF LongEnough, ForwardedLen, MODBUS_TCP_MAX_ADU_SIZE
  <2>5. /\ [protocol_id |-> h.protocol_id, unit |-> h.unit,
            frame_len |-> 6 * k] \in Frames
    BY <2>4 DEF Frames
  <2>6. submitted' = submitted
    BY <2>2 DEF gateway_vars
  <2>7. QED
    BY <2>1, <2>3, <2>5, <2>6 DEF Forwardable
<1>2. CASE Engine
  BY <1>2 DEF Engine, loop_vars, Forwardable, G!Take, G!Answer, G!LoseAnswer,
     G!GiveUp
<1>3. CASE UNCHANGED vars \/ Network \/ Tick
  BY <1>3 DEF vars, Network, Tick, gateway_vars, loop_vars, Forwardable
<1>4. CASE \/ Select \/ Accept \/ Forward \/ ClientsDone
           \/ Respond \/ SendReturns \/ ResponsesDone \/ CloseIdle
  <2>1. pc' # "forward"
    BY <1>4 DEF Select, Accept, Forward, ClientsDone, Respond, lwip_send,
       SendReturns, ResponsesDone, NoMoreResponses, CloseIdle, loop_vars
  <2>2. QED
    BY <2>1 DEF Forwardable
<1>5. QED
  BY <1>1, <1>2, <1>3, <1>4 DEF Next, Server, Forwardable

\* One step of the server, the engine or the network, as Gateway sees it.
LEMMA GatewayStep ==
  ASSUME Forwardable, [Next]_vars, submitted \in Nat, submitted' <= MaxRequests
  PROVE  [G!Next]_(G!vars)
<1>1. CASE Engine
  BY <1>1 DEF Engine, G!Next
<1>2. CASE Forward
  <2>1. \/ /\ Len(requests) < REQ_LEN /\ requests' = Append(requests, req)
           /\ submitted' = submitted + 1 /\ UNCHANGED <<responses, current>>
        \/ UNCHANGED <<requests, submitted, responses, current>>
    BY <1>2 DEF Forward
  <2>2. CASE UNCHANGED <<requests, submitted, responses, current>>
    BY <2>2 DEF G!vars
  <2>3. CASE submitted' = submitted + 1
    <3>1. submitted < MaxRequests
      BY <2>3, ServerAssumption
    <3>2. /\ req.tid = submitted + 1
          /\ \E f \in Frames, s \in Fds :
               req = [tid |-> req.tid, client_sock |-> s,
                      protocol_id |-> f.protocol_id, unit |-> f.unit,
                      frame_len |-> f.frame_len]
      BY <1>2 DEF Forward, Forwardable
    <3>3. QED
      BY <2>1, <2>3, <3>1, <3>2 DEF G!Next, G!Submit
  <2>4. QED
    BY <2>1, <2>2, <2>3
<1>3. CASE Respond
  BY <1>3 DEF Respond, lwip_send, G!Next, G!Collect
<1>4. CASE \/ UNCHANGED vars \/ Network \/ Tick \/ Select \/ Accept \/ Recv
           \/ ClientsDone \/ SendReturns \/ ResponsesDone \/ CloseIdle
  BY <1>4 DEF vars, Network, Tick, Select, Accept, Recv, ClientsDone,
     SendReturns, ResponsesDone, CloseIdle, gateway_vars, G!vars
<1>5. QED
  BY <1>1, <1>2, <1>3, <1>4 DEF Next, Server

\* No more is forwarded than what was received, and no more is received than
\* what the clients sent.
CountInv ==
  /\ sent \in [Conns -> 0 .. 2 * MaxRequests] /\ taken \in [Conns -> Nat]
  /\ \A c \in Conns : taken[c] <= sent[c]
  /\ Cardinality(Halves(sent)) <= 2 * MaxRequests
  /\ submitted \in Nat /\ 2 * submitted <= Cardinality(Halves(taken))
  /\ pc = "forward" => 2 * submitted + 2 <= Cardinality(Halves(taken))

LEMMA HalvesFinite ==
  ASSUME NEW upto
  PROVE  IsFiniteSet(Halves(upto)) /\ Cardinality(Halves(upto)) \in Nat
<1> DEFINE P == 0 .. 2 * MaxRequests - 1
<1>1. 2 * MaxRequests - 1 \in Int
  BY ServerAssumption
<1>2. IsFiniteSet(P)
  BY <1>1, FS_Interval
<1>3. IsFiniteSet(Conns \X P)
  BY <1>2, ServerAssumption, FS_Product
<1>4. Halves(upto) \in SUBSET (Conns \X P)
  BY DEF Halves
<1> HIDE DEF P
<1>5. QED
  BY <1>3, <1>4, FS_Subset, FS_CardinalityType

LEMMA HalvesMonotone ==
  ASSUME NEW f \in [Conns -> Nat], NEW g \in [Conns -> Nat],
         \A c \in Conns : f[c] <= g[c]
  PROVE  Cardinality(Halves(f)) <= Cardinality(Halves(g))
<1>1. Halves(f) \in SUBSET Halves(g)
  <2>1. ASSUME NEW c \in Conns, NEW n \in 0 .. 2 * MaxRequests - 1, n < f[c]
        PROVE  n < g[c]
    BY <2>1
  <2>2. QED
    BY <2>1 DEF Halves
<1>2. QED
  BY <1>1, HalvesFinite, FS_Subset

\* One half more.
LEMMA HalvesNext ==
  ASSUME NEW f \in [Conns -> Nat], NEW c \in Conns, f[c] <= 2 * MaxRequests - 1
  PROVE  /\ [f EXCEPT ![c] = @ + 1] \in [Conns -> Nat]
         /\ Cardinality(Halves([f EXCEPT ![c] = @ + 1]))
              = Cardinality(Halves(f)) + 1
<1> DEFINE g == [f EXCEPT ![c] = @ + 1]
           P == 0 .. 2 * MaxRequests - 1
<1>1. g \in [Conns -> Nat]
  OBVIOUS
<1>2. f[c] \in P
  BY ServerAssumption
<1>3. ASSUME NEW d \in Conns, NEW n \in P
      PROVE  n < g[d] <=> (n < f[d] \/ <<d, n>> = <<c, f[c]>>)
  BY ServerAssumption
<1> HIDE DEF g, P
<1>4. Halves(g) = Halves(f) \cup {<<c, f[c]>>}
  BY <1>2, <1>3 DEF Halves, P
<1>5. <<c, f[c]>> \notin Halves(f)
  BY DEF Halves
<1>6. Cardinality(Halves(g)) = Cardinality(Halves(f)) + 1
  BY <1>4, <1>5, HalvesFinite, FS_AddElement
<1>7. QED
  BY <1>1, <1>6 DEF g

\* A request more, that is two halves.
LEMMA HalvesTwo ==
  ASSUME NEW f \in [Conns -> Nat], NEW c \in Conns, f[c] + 2 <= 2 * MaxRequests
  PROVE  /\ [f EXCEPT ![c] = @ + 2] \in [Conns -> Nat]
         /\ Cardinality(Halves([f EXCEPT ![c] = @ + 2]))
              = Cardinality(Halves(f)) + 2
<1> DEFINE g == [f EXCEPT ![c] = @ + 1]
<1>1. /\ g \in [Conns -> Nat] /\ g[c] <= 2 * MaxRequests - 1
      /\ [f EXCEPT ![c] = @ + 2] = [g EXCEPT ![c] = @ + 1]
  BY ServerAssumption
<1>2. f[c] <= 2 * MaxRequests - 1
  BY ServerAssumption
<1>3. Cardinality(Halves(g)) = Cardinality(Halves(f)) + 1
  BY <1>2, HalvesNext
<1> HIDE DEF g
<1>4. /\ [g EXCEPT ![c] = @ + 1] \in [Conns -> Nat]
      /\ Cardinality(Halves([g EXCEPT ![c] = @ + 1])) = Cardinality(Halves(g)) + 1
  BY <1>1, HalvesNext
<1>5. QED
  BY <1>1, <1>3, <1>4, HalvesFinite

\* A client's stream is no longer than all of them together.
LEMMA StreamBounded ==
  ASSUME CountInv, NEW c \in Conns
  PROVE  sent[c] <= Cardinality(Halves(sent))
<1> DEFINE P == 0 .. sent[c] - 1
<1>1. sent[c] \in Nat /\ sent[c] <= 2 * MaxRequests
  BY ServerAssumption DEF CountInv
<1>2. IsFiniteSet(P) /\ Cardinality(P) = sent[c]
  BY <1>1, FS_Interval
<1>3. IsFiniteSet({c}) /\ Cardinality({c}) = 1
  BY FS_Singleton
<1>4. P \subseteq 0 .. 2 * MaxRequests - 1 /\ \A n \in P : n < sent[c]
  BY <1>1, ServerAssumption
<1> HIDE DEF P
<1>5. Cardinality({c} \X P) = sent[c]
  <2>1. Cardinality({c} \X P) = Cardinality({c}) * Cardinality(P)
    BY <1>2, <1>3, FS_Product
  <2>2. 1 * sent[c] = sent[c]
    BY <1>1
  <2>3. QED
    BY <1>2, <1>3, <2>1, <2>2
<1>6. {c} \X P \in SUBSET Halves(sent)
  BY <1>4 DEF Halves
<1>7. QED
  BY <1>5, <1>6, HalvesFinite, FS_Subset

\* A client sends a request.
LEMMA CountSends ==
  ASSUME CountInv, NEW c \in Conns, ClientSends(c), UNCHANGED <<submitted, pc>>
  PROVE  CountInv'
<1>1. /\ sent' = [sent EXCEPT ![c] = @ + 2] /\ taken' = taken
      /\ Cardinality(Halves(sent)) + 2 <= 2 * MaxRequests
  BY DEF ClientSends
<1>2. /\ sent \in [Conns -> Nat] /\ sent[c] \in Nat
      /\ Cardinality(Halves(sent)) \in Nat /\ MaxRequests \in Nat
  BY HalvesFinite, ServerAssumption DEF CountInv
<1>3. sent[c] + 2 <= 2 * MaxRequests
  BY <1>1, <1>2, StreamBounded
<1>4. Cardinality(Halves(sent')) <= 2 * MaxRequests
  <2>1. Cardinality(Halves([sent EXCEPT ![c] = @ + 2]))
          = Cardinality(Halves(sent)) + 2
    BY <1>2, <1>3, HalvesTwo
  <2>2. QED
    BY <1>1, <2>1
<1>5. sent' \in [Conns -> 0 .. 2 * MaxRequests]
  <2>1. sent \in [Conns -> 0 .. 2 * MaxRequests]
    BY DEF CountInv
  <2>2. sent[c] + 2 \in 0 .. 2 * MaxRequests
    BY <1>2, <1>3
  <2>3. QED
    BY <1>1, <2>1, <2>2
<1>6. \A d \in Conns : taken'[d] <= sent'[d]
  <2>1. \A d \in Conns : taken[d] \in Nat /\ sent[d] \in Nat /\ taken[d] <= sent[d]
    BY <1>2 DEF CountInv
  <2>2. \A d \in Conns : sent'[d] \in {sent[d], sent[d] + 2}
    BY <1>1, <1>2
  <2>3. QED
    BY <1>1, <2>1, <2>2
<1>7. Halves(taken)' = Halves(taken)
  BY <1>1 DEF Halves
<1>8. QED
  BY <1>1, <1>4, <1>5, <1>6, <1>7 DEF CountInv, Halves

\* The server receives from a client: a request, if it was enough for one.
LEMMA CountRecv == NetInv /\ CountInv /\ Recv => CountInv'
<1> SUFFICES ASSUME NetInv, CountInv, Recv PROVE CountInv'
  OBVIOUS
<1> DEFINE i == Lowest(ReadySlots)
           c == sockets[client_sockets[i]]
<1>1. c \in Conns
  BY LowestReadySlot, ReadySlotMeans DEF Recv, NetInv
<1>2. /\ pc = "clients" /\ UNCHANGED <<sent, submitted>>
      /\ RecvData(i, c) \/ RecvNothing(i, c)
  BY DEF Recv, gateway_vars
<1> HIDE DEF i, c
<1>3. /\ sent \in [Conns -> Nat] /\ taken \in [Conns -> Nat]
      /\ sent[c] \in Nat /\ taken[c] \in Nat /\ sent[c] <= 2 * MaxRequests
      /\ submitted \in Nat /\ MaxRequests \in Nat
      /\ 2 * submitted <= Cardinality(Halves(taken))
  BY <1>1, <1>2, ServerAssumption DEF CountInv
<1>4. CASE RecvNothing(i, c)
  <2>1. UNCHANGED <<sent, taken, submitted, pc>>
    BY <1>2, <1>4 DEF RecvNothing
  <2>2. QED
    BY <2>1 DEF CountInv, Halves
<1>5. CASE RecvData(i, c)
  <2>1. PICK k \in Chunks :
          /\ k <= sent[c] - taken[c] /\ taken' = [taken EXCEPT ![c] = @ + k]
          /\ pc' = pc \/ k >= 2
    <3>1. \A k \in Chunks : LongEnough(6 * k) => k >= 2
      BY ServerAssumption DEF LongEnough
    <3>2. QED
      BY <1>5, <3>1 DEF RecvData, Consume
  <2>2. k \in Nat /\ taken[c] + k <= sent[c]
    BY <1>3, <2>1, ServerAssumption
  <2>3. taken' \in [Conns -> Nat] /\ \A d \in Conns : taken'[d] <= sent'[d]
    <3>1. \A d \in Conns : taken[d] <= sent[d]
      BY DEF CountInv
    <3>2. taken[c] + k \in Nat
      BY <1>3, <2>2
    <3>3. taken' \in [Conns -> Nat]
      BY <1>3, <2>1, <3>2
    <3>4. ASSUME NEW d \in Conns PROVE taken'[d] <= sent'[d]
      <4>1. CASE d = c
        BY <1>2, <1>3, <2>1, <2>2, <4>1
      <4>2. CASE d # c
        BY <1>2, <1>3, <2>1, <3>1, <4>2
      <4>3. QED
        BY <4>1, <4>2
    <3>5. QED
      BY <3>3, <3>4
  <2>4. CASE pc' = pc
    <3>1. \A d \in Conns : taken[d] <= taken'[d]
      BY <1>3, <2>1, <2>2
    <3>2. Cardinality(Halves(taken)) <= Cardinality(Halves(taken'))
      BY <1>3, <2>3, <3>1, HalvesMonotone
    <3>3. 2 * submitted <= Cardinality(Halves(taken'))
      BY <1>3, <3>2, HalvesFinite
    <3>4. QED
      BY <1>2, <2>3, <2>4, <3>3 DEF CountInv, Halves
  <2>5. CASE k >= 2
    <3> DEFINE g == [taken EXCEPT ![c] = @ + 2]
    <3>1. /\ g \in [Conns -> Nat]
          /\ Cardinality(Halves(g)) = Cardinality(Halves(taken)) + 2
      <4>1. taken[c] + 2 <= 2 * MaxRequests
        BY <1>3, <2>2, <2>5
      <4>2. QED
        BY <1>1, <1>3, <4>1, HalvesTwo
    <3>2. \A d \in Conns : g[d] <= taken'[d]
      BY <1>3, <2>1, <2>2, <2>5
    <3> HIDE DEF g
    <3>3. Cardinality(Halves(g)) <= Cardinality(Halves(taken'))
      BY <2>3, <3>1, <3>2, HalvesMonotone
    <3>4. /\ 2 * submitted <= Cardinality(Halves(taken'))
          /\ 2 * submitted + 2 <= Cardinality(Halves(taken'))
      BY <1>3, <3>1, <3>3, HalvesFinite
    <3>5. QED
      BY <1>2, <2>3, <3>4 DEF CountInv, Halves
  <2>6. QED
    BY <2>1, <2>4, <2>5
<1>6. QED
  BY <1>2, <1>4, <1>5

LEMMA NextCount == NetInv /\ CountInv /\ [Next]_vars => CountInv'
<1> SUFFICES ASSUME NetInv, CountInv, [Next]_vars PROVE CountInv'
  OBVIOUS
<1>1. CASE \E c \in Conns : ClientSends(c) /\ UNCHANGED <<submitted, pc>>
  BY <1>1, CountSends
<1>2. CASE Recv
  BY <1>2, CountRecv
<1>3. ASSUME UNCHANGED <<sent, taken>>
      PROVE  /\ sent' \in [Conns -> 0 .. 2 * MaxRequests]
             /\ taken' \in [Conns -> Nat]
             /\ \A c \in Conns : taken'[c] <= sent'[c]
             /\ Cardinality(Halves(sent')) <= 2 * MaxRequests
             /\ Cardinality(Halves(taken')) = Cardinality(Halves(taken))
  BY <1>3 DEF CountInv
<1>4. CASE Forward
  <2>1. /\ pc = "forward" /\ pc' = "clients" /\ UNCHANGED <<sent, taken>>
        /\ submitted' = submitted \/ submitted' = submitted + 1
    BY <1>4 DEF Forward, net_vars
  <2>2. /\ submitted \in Nat /\ 2 * submitted <= Cardinality(Halves(taken))
        /\ 2 * submitted + 2 <= Cardinality(Halves(taken))
    BY <2>1 DEF CountInv
  <2>3. 2 * (submitted + 1) = 2 * submitted + 2 /\ submitted + 1 \in Nat
    BY <2>2
  <2>4. submitted' \in Nat /\ 2 * submitted' <= Cardinality(Halves(taken))
    BY <2>1, <2>2, <2>3
  <2>5. QED
    BY <1>3, <2>1, <2>4 DEF CountInv, Halves
<1>5. CASE /\ UNCHANGED <<sent, taken, submitted>>
           /\ pc' = pc \/ pc' # "forward"
  <2>1. /\ submitted \in Nat /\ 2 * submitted <= Cardinality(Halves(taken))
        /\ pc = "forward" => 2 * submitted + 2 <= Cardinality(Halves(taken))
    BY DEF CountInv
  <2>2. QED
    BY <1>3, <1>5, <2>1 DEF CountInv, Halves
<1>6. CASE Network
  BY <1>1, <1>5, <1>6 DEF Network, Connect, ClientCloses, ClientStalls,
     ClientReads, gateway_vars, loop_vars
<1>7. CASE Engine
  BY <1>5, <1>7 DEF Engine, G!Take, G!Answer, G!LoseAnswer, G!GiveUp, loop_vars,
     net_vars
<1>8. CASE \/ UNCHANGED vars \/ Select \/ Accept \/ ClientsDone \/ Respond
           \/ SendReturns \/ ResponsesDone \/ CloseIdle \/ Tick
  <2>1. UNCHANGED <<sent, taken, submitted>>
    BY <1>8 DEF vars, Select, Accept, ClientsDone, Respond, lwip_send,
       SendReturns, ResponsesDone, CloseIdle, Tick, gateway_vars, net_vars
  <2>2. pc' = pc \/ pc' # "forward"
    BY <1>8 DEF vars, Select, Accept, ClientsDone, Respond, lwip_send,
       SendReturns, ResponsesDone, NoMoreResponses, CloseIdle, Tick, loop_vars
  <2>3. QED
    BY <1>5, <2>1, <2>2
<1>9. QED
  BY <1>2, <1>4, <1>6, <1>7, <1>8 DEF Next, Server

LEMMA InitCount == Init => CountInv
<1> SUFFICES ASSUME Init PROVE CountInv
  OBVIOUS
<1>1. /\ sent = [c \in Conns |-> 0] /\ taken = [c \in Conns |-> 0]
      /\ submitted = 0 /\ MaxRequests \in Nat /\ pc # "forward"
  BY ServerAssumption DEF Init, G!Init
<1>2. Halves(sent) = {} /\ Halves(taken) = {}
  BY <1>1 DEF Halves
<1>3. Cardinality({}) = 0
  BY FS_EmptySet
<1>4. 0 \in 0 .. 2 * MaxRequests /\ 2 * 0 <= 0 /\ 0 <= 2 * MaxRequests
  BY <1>1
<1>5. /\ sent \in [Conns -> 0 .. 2 * MaxRequests] /\ taken \in [Conns -> Nat]
      /\ \A c \in Conns : taken[c] <= sent[c]
  BY <1>1, <1>4
<1>6. /\ Cardinality(Halves(sent)) <= 2 * MaxRequests
      /\ submitted \in Nat /\ 2 * submitted <= Cardinality(Halves(taken))
  BY <1>1, <1>2, <1>3, <1>4
<1>7. QED
  BY <1>1, <1>5, <1>6 DEF CountInv

\* No more requests are forwarded than the clients send.
LEMMA RequestsBounded == CountInv => submitted <= MaxRequests
<1> SUFFICES ASSUME CountInv PROVE submitted <= MaxRequests
  OBVIOUS
<1>1. /\ sent \in [Conns -> Nat] /\ taken \in [Conns -> Nat]
      /\ submitted \in Nat /\ MaxRequests \in Nat
      /\ \A c \in Conns : taken[c] <= sent[c]
  BY ServerAssumption DEF CountInv
<1>2. Cardinality(Halves(taken)) <= Cardinality(Halves(sent))
  BY <1>1, HalvesMonotone
<1>3. /\ 2 * submitted <= Cardinality(Halves(taken))
      /\ Cardinality(Halves(sent)) <= 2 * MaxRequests
  BY DEF CountInv
<1>4. Cardinality(Halves(taken)) \in Nat /\ Cardinality(Halves(sent)) \in Nat
  BY HalvesFinite
<1>5. QED
  BY <1>1, <1>2, <1>3, <1>4

\* The server forwards only what the engine is specified for, one request at a
\* time, in order and within the queue, and takes each response once: with the
\* engine it is a Gateway.
THEOREM ServerKeepsContract == Spec => GatewaySpec
<1>1. Init => G!Init /\ Forwardable
  BY DEF Init, Forwardable
<1>2. QueueTypes => submitted \in Nat
  BY DEF QueueTypes
<1>3. Forwardable /\ [Next]_vars /\ submitted \in Nat /\ (submitted <= MaxRequests)'
        => [G!Next]_(G!vars)
  BY GatewayStep
<1>4. CountInv' => (submitted <= MaxRequests)'
  BY RequestsBounded, PTL
<1>5. QED
  BY <1>1, <1>2, <1>3, <1>4, InitCount, NextCount, NextForwardable, NetInvariant,
     QueueInvariant, PTL
  DEF Spec, GatewaySpec, G!Spec

=============================================================================
