------------------------- MODULE MinimoteServer_proofs -------------------------
(***************************************************************************)
(* Every client record owns its descriptor, what select() said still holds *)
(* when it is used, and answers go to the host that asked.  Only what is   *)
(* said there makes a connection lose its record or stay open without one, *)
(* and packets are handled as they were sent, whole.  All of it for any    *)
(* number of hosts, connections and descriptors.                           *)
(***************************************************************************)
EXTENDS MinimoteServer, SequenceTheorems, TLAPS

\* What select() has reported holds until it is acted upon.
ReadyStays ==
    /\ \A h \in todo : FdOf(h) # NoFd => Readable(FdOf(h))
    /\ TcpFd \in ready => backlog # << >>
    /\ UdpFd \in ready => udpQueue # {}

\* The loop is left only at its head, when nothing is left to do.
StoppedIdle == pc # "loop" => todo = {}

IInv == TypeOK /\ OwnFd /\ ReadyStays /\ StoppedIdle

-----------------------------------------------------------------------------
(* Typing, one part of the state at a time. *)

ConnTypeOK == conn \in Seq(Connections) /\ Len(conn) <= MaxConns
BacklogTypeOK == backlog \in Seq(Conns)
TableTypeOK == table \in [0 .. MaxFd -> -3 .. MaxConns]
ClientsTypeOK ==
    /\ Known \subseteq Hosts
    /\ \A h \in Known : clients[h] \in Clients /\ Len(clients[h].buf) < 2
RestTypeOK ==
    /\ udpQueue \subseteq Datagrams
    /\ running \in BOOLEAN /\ acceptFailed \in BOOLEAN
    /\ pc \in {"loop", "stopped", "destroyed"}
    /\ todo \subseteq Known
    /\ ready \subseteq {TcpFd, UdpFd}

\* The type invariant is the conjunction of its parts, before a step and after it.
LEMMA TypeParts ==
  /\ TypeOK <=> ConnTypeOK /\ BacklogTypeOK /\ TableTypeOK /\ ClientsTypeOK /\ RestTypeOK
  /\ TypeOK' <=> /\ ConnTypeOK' /\ BacklogTypeOK' /\ TableTypeOK'
                 /\ ClientsTypeOK' /\ RestTypeOK'
BY DEF TypeOK, ConnTypeOK, BacklogTypeOK, TableTypeOK, ClientsTypeOK, RestTypeOK

\* The new connections keep the old ones and their hosts.
ConnsKept ==
    /\ Len(conn) <= Len(conn')
    /\ \A c \in Conns : conn'[c].host = conn[c].host

\* A connection is a record of its host.
LEMMA ConnRecord ==
  ASSUME ConnTypeOK, NEW c \in Conns
  PROVE  /\ conn[c] \in Connections /\ c \in Nat /\ c <= MaxConns
         /\ Len(conn) \in Nat /\ DOMAIN conn = Conns
<1>1. conn[c] \in Connections
  BY ElementOfSeq DEF ConnTypeOK, Conns
<1>2. Len(conn) \in Nat /\ DOMAIN conn = Conns /\ Len(conn) <= MaxConns
  BY LenProperties DEF ConnTypeOK, Conns
<1> QED BY <1>1, <1>2, BoundsAssumption DEF Conns

\* A change of one connection that leaves its host alone keeps them all.
LEMMA ConnUpdate ==
  ASSUME ConnTypeOK, NEW c \in Conns, NEW r \in Connections,
         r.host = conn[c].host, conn' = [conn EXCEPT ![c] = r]
  PROVE  /\ ConnTypeOK' /\ ConnsKept /\ Conns' = Conns
         /\ \A d \in Conns : conn'[d] = IF d = c THEN r ELSE conn[d]
<1>1. /\ [conn EXCEPT ![c] = r] \in Seq(Connections)
      /\ Len([conn EXCEPT ![c] = r]) = Len(conn)
      /\ \A j \in 1 .. Len(conn) : [conn EXCEPT ![c] = r][j] = IF j = c THEN r ELSE conn[j]
  BY ExceptSeq DEF ConnTypeOK, Conns
<1>2. Len(conn) \in Nat
  BY ConnRecord
<1> QED BY <1>1, <1>2 DEF ConnTypeOK, ConnsKept, Conns

\* A new connection comes behind the others.
LEMMA ConnAppend ==
  ASSUME ConnTypeOK, Len(conn) < MaxConns, NEW r \in Connections, conn' = Append(conn, r)
  PROVE  /\ ConnTypeOK' /\ ConnsKept
         /\ Conns' = Conns \cup {Len(conn) + 1} /\ conn'[Len(conn) + 1] = r
         /\ \A d \in Conns : conn'[d] = conn[d]
<1>1. /\ Append(conn, r) \in Seq(Connections)
      /\ Len(Append(conn, r)) = Len(conn) + 1
      /\ \A i \in 1 .. Len(conn) : Append(conn, r)[i] = conn[i]
      /\ Append(conn, r)[Len(conn) + 1] = r
  BY AppendProperties DEF ConnTypeOK
<1>2. Len(conn) \in Nat
  BY LenProperties DEF ConnTypeOK
<1>3. Len(conn) + 1 <= MaxConns
  BY <1>2, BoundsAssumption
<1>4. Conns' = Conns \cup {Len(conn) + 1}
  BY <1>1, <1>2 DEF Conns
<1> QED BY <1>1, <1>2, <1>3, <1>4 DEF ConnTypeOK, ConnsKept, Conns

\* Connections only become more, so that those in the backlog stay connections.
LEMMA BacklogKept ==
  ASSUME BacklogTypeOK, UNCHANGED backlog, Conns \subseteq Conns'
  PROVE  BacklogTypeOK'
BY SeqMonotonic DEF BacklogTypeOK

\* A record that was found or made belongs to its address.
LEMMA RecordProperties ==
  ASSUME ClientsTypeOK, NEW address \in Addresses
  PROVE  /\ Record(address) \in Clients /\ Len(Record(address).buf) < 2
         /\ address.host \in Hosts
         /\ address.host \in Known => Record(address) = clients[address.host]
         /\ address.host \notin Known => Record(address).fd = NoFd
<1>1. address.host \in Hosts
  BY DEF Addresses
<1>2. CASE address.host \in Known
  BY <1>1, <1>2 DEF ClientsTypeOK, Record
<1>3. CASE address.host \notin Known
  <2>1. << >> \in Seq(Tokens) /\ Len(<< >>) = 0
    BY EmptySeq
  <2>2. NoFd \in -1 .. MaxFd
    BY BoundsAssumption DEF NoFd
  <2>3. Record(address) = [address |-> address, fd |-> NoFd, buf |-> << >>]
    BY <1>3 DEF Record, NewClient
  <2> QED BY <1>1, <1>3, <2>1, <2>2, <2>3 DEF Clients
<1> QED BY <1>2, <1>3

\* Put changes the record of one host.
LEMMA PutProperties ==
  ASSUME ClientsTypeOK, NEW h \in Hosts, NEW r \in Clients, Len(r.buf) < 2,
         clients' = Put(h, r)
  PROVE  /\ ClientsTypeOK' /\ Known' = Known \cup {h}
         /\ \A k \in Known' : clients'[k] = IF k = h THEN r ELSE clients[k]
<1>1. Known' = Known \cup {h}
  BY DEF Known, Put
<1>2. \A k \in Known' : clients'[k] = IF k = h THEN r ELSE clients[k]
  BY <1>1 DEF Put
<1> QED BY <1>1, <1>2 DEF ClientsTypeOK

\* Remove takes one record away, and closes its descriptor.
LEMMA RemoveProperties ==
  ASSUME ClientsTypeOK, TableTypeOK, NEW h \in Hosts, Remove(h)
  PROVE  /\ ClientsTypeOK' /\ Known' = Known \ {h}
         /\ \A k \in Known' : clients'[k] = clients[k]
         /\ TableTypeOK'
         /\ \A f \in 0 .. MaxFd : table'[f] = IF f = FdOf(h) THEN Free ELSE table[f]
<1>1. Known' = Known \ {h}
  BY DEF Known, Remove
<1>2. \A k \in Known' : clients'[k] = clients[k]
  BY <1>1 DEF Remove, Known
<1>3. \A f \in 0 .. MaxFd : table'[f] = IF f = FdOf(h) THEN Free ELSE table[f]
  BY DEF Remove, Closing
<1>4. TableTypeOK'
  <2>1. 0 \in -3 .. MaxConns
    BY BoundsAssumption
  <2>2. table' = [f \in 0 .. MaxFd |-> IF f \in {FdOf(h)} THEN 0 ELSE table[f]]
    BY DEF Remove, Closing, Free
  <2> QED BY <2>1, <2>2 DEF TableTypeOK
<1> QED BY <1>1, <1>2, <1>3, <1>4 DEF ClientsTypeOK

\* Closing changes no type.
LEMMA ClosingType ==
  ASSUME TableTypeOK, NEW fds, table' = Closing(fds)
  PROVE  TableTypeOK'
<1>1. 0 \in -3 .. MaxConns
  BY BoundsAssumption
<1> QED BY <1>1 DEF TableTypeOK, Closing, Free

-----------------------------------------------------------------------------
(* The type invariant. *)

\* The state is well typed at the start.
LEMMA InitTypeOK == Init => TypeOK
<1> SUFFICES ASSUME Init PROVE TypeOK
  OBVIOUS
<1>1. ConnTypeOK /\ BacklogTypeOK
  BY EmptySeq, BoundsAssumption DEF Init, ConnTypeOK, BacklogTypeOK
<1>2. TableTypeOK
  BY BoundsAssumption DEF Init, TableTypeOK, Stdin, TcpMaster, UdpMaster, Free
<1>3. ClientsTypeOK /\ RestTypeOK
  <2>1. Known = {}
    BY DEF Init, Known
  <2> QED BY <2>1 DEF Init, ClientsTypeOK, RestTypeOK
<1> QED BY <1>1, <1>2, <1>3, TypeParts

\* Peers, network and user leave the state well typed.
LEMMA EnvironmentTypeOK == TypeOK /\ Environment => TypeOK' /\ ConnsKept
<1> SUFFICES ASSUME TypeOK, Environment PROVE TypeOK' /\ ConnsKept
  OBVIOUS
<1>1. ConnTypeOK /\ BacklogTypeOK /\ TableTypeOK /\ ClientsTypeOK /\ RestTypeOK
  BY TypeParts
<1>2. Len(conn) \in Nat
  BY <1>1, LenProperties DEF ConnTypeOK
<1>3. UNCHANGED <<table, clients, todo, ready, pc, acceptFailed>>
  BY DEF Environment, Connect, PeerSend, PeerEnd, UdpArrive, SigInt, server, history
<1>4. TableTypeOK' /\ ClientsTypeOK' /\ Known' = Known
  BY <1>1, <1>3 DEF TableTypeOK, ClientsTypeOK, Known
<1>5. ASSUME NEW h \in Hosts, Connect(h) PROVE TypeOK' /\ ConnsKept
  <2> DEFINE r == [host |-> h, peer |-> "open", sent |-> 0, read |-> 0]
  <2>1. r \in Connections
    BY BoundsAssumption DEF Connections
  <2>2. Len(conn) < MaxConns /\ conn' = Append(conn, r)
    BY <1>5 DEF Connect
  <2> HIDE DEF r
  <2>3. ConnTypeOK' /\ ConnsKept /\ Conns' = Conns \cup {Len(conn) + 1}
    BY <1>1, <2>1, <2>2, ConnAppend
  <2>4. BacklogTypeOK'
    <3>1. backlog \in Seq(Conns')
      BY <1>1, <2>3, SeqMonotonic DEF BacklogTypeOK
    <3>2. Append(backlog, Len(conn) + 1) \in Seq(Conns')
      BY <3>1, <2>3, AppendProperties
    <3> QED BY <3>2, <1>5 DEF BacklogTypeOK, Connect
  <2>5. RestTypeOK'
    BY <1>1, <1>3, <1>4, <1>5 DEF Connect, RestTypeOK
  <2> QED BY <1>4, <2>3, <2>4, <2>5, TypeParts
<1>6. ASSUME NEW c \in Conns, NEW r \in Connections, r.host = conn[c].host,
             conn' = [conn EXCEPT ![c] = r], UNCHANGED <<backlog, udpQueue, running>>
      PROVE  TypeOK' /\ ConnsKept
  <2>1. ConnTypeOK' /\ ConnsKept /\ Conns' = Conns
    BY <1>1, <1>6, ConnUpdate
  <2>2. BacklogTypeOK'
    BY <1>1, <1>6, <2>1 DEF BacklogTypeOK
  <2>3. RestTypeOK'
    BY <1>1, <1>3, <1>4, <1>6 DEF RestTypeOK
  <2> QED BY <1>4, <2>1, <2>2, <2>3, TypeParts
<1>7. ASSUME NEW c \in Conns, PeerSend(c) PROVE TypeOK' /\ ConnsKept
  <2> DEFINE r == [conn[c] EXCEPT !.sent = @ + 1]
  <2>1. conn[c] \in Connections
    BY <1>1, ConnRecord
  <2>2. r \in Connections /\ r.host = conn[c].host
    BY <1>7, <2>1, BoundsAssumption DEF Connections, PeerSend
  <2>3. conn' = [conn EXCEPT ![c] = r] /\ UNCHANGED <<backlog, udpQueue, running>>
    BY <1>7 DEF PeerSend
  <2> QED BY <1>6, <2>2, <2>3
<1>8. ASSUME NEW c \in Conns, NEW end \in {"closed", "reset"}, PeerEnd(c, end)
      PROVE  TypeOK' /\ ConnsKept
  <2> DEFINE r == [conn[c] EXCEPT !.peer = end]
  <2>1. conn[c] \in Connections
    BY <1>1, ConnRecord
  <2>2. r \in Connections /\ r.host = conn[c].host
    BY <2>1 DEF Connections
  <2>3. conn' = [conn EXCEPT ![c] = r] /\ UNCHANGED <<backlog, udpQueue, running>>
    BY <1>8 DEF PeerEnd
  <2> QED BY <1>6, <2>2, <2>3
<1>9. ASSUME UNCHANGED <<conn, backlog>>, udpQueue' \subseteq Datagrams, running' \in BOOLEAN
      PROVE  TypeOK' /\ ConnsKept
  <2>1. ConnTypeOK' /\ BacklogTypeOK' /\ RestTypeOK'
    BY <1>1, <1>3, <1>4, <1>9 DEF ConnTypeOK, BacklogTypeOK, Conns, RestTypeOK
  <2>2. ConnsKept
    BY <1>2, <1>9 DEF ConnsKept
  <2> QED BY <1>4, <2>1, <2>2, TypeParts
<1>10. ASSUME NEW d \in Datagrams, UdpArrive(d) PROVE TypeOK' /\ ConnsKept
  <2>1. UNCHANGED <<conn, backlog>> /\ udpQueue' \subseteq Datagrams /\ running' \in BOOLEAN
    BY <1>1, <1>10 DEF UdpArrive, RestTypeOK
  <2> QED BY <1>9, <2>1
<1>11. ASSUME SigInt PROVE TypeOK' /\ ConnsKept
  <2>1. UNCHANGED <<conn, backlog>> /\ udpQueue' \subseteq Datagrams /\ running' \in BOOLEAN
    BY <1>1, <1>11 DEF SigInt, RestTypeOK
  <2> QED BY <1>9, <2>1
<1> QED BY <1>5, <1>7, <1>8, <1>10, <1>11 DEF Environment

\* Neither descriptors nor who has them change.
FdsKept ==
    /\ UNCHANGED table
    /\ Known' = Known
    /\ \A h \in Known : clients'[h].fd = clients[h].fd

\* Reading moves bytes from one connection to the buffer of its record.
LEMMA RecvDataTypeOK ==
  ASSUME TypeOK, NEW h \in Hosts, NEW n \in 1 .. 2, NEW kind \in Kinds, RecvData(h, n, kind)
  PROVE  TypeOK' /\ ConnsKept /\ FdsKept /\ Conns' = Conns
<1>1. ConnTypeOK /\ BacklogTypeOK /\ TableTypeOK /\ ClientsTypeOK /\ RestTypeOK
  BY TypeParts
<1> DEFINE c == ConnOf(h)
           buf == clients[h].buf
           read == conn[c].read
           block == [i \in 1 .. n |-> <<c, read + i>>]
           data == buf \o block
           r == [conn[c] EXCEPT !.read = @ + n]
<1>2. c \in Conns /\ h \in todo
  BY DEF RecvData, Connected, ConnOf, AtRecv
<1>3. conn[c] \in Connections /\ c \in Nat /\ c <= MaxConns
  BY <1>1, <1>2, ConnRecord
<1>4. /\ read + n <= conn[c].sent /\ conn' = [conn EXCEPT ![c] = r]
      /\ \/ Len(data) < 2 /\ clients' = [clients EXCEPT ![h].buf = data]
         \/ 2 <= Len(data) /\ clients' = [clients EXCEPT ![h].buf = SubSeq(data, 3, Len(data))]
      /\ todo' = todo \ {h}
      /\ UNCHANGED <<backlog, udpQueue, running, table, pc, ready, acceptFailed>>
  BY DEF RecvData
<1>5. h \in Known /\ buf \in Seq(Tokens) /\ Len(buf) \in Nat /\ Len(buf) < 2
  <2>1. h \in Known /\ clients[h] \in Clients
    BY <1>1, <1>2 DEF RestTypeOK, ClientsTypeOK
  <2>2. buf \in Seq(Tokens) /\ Len(buf) < 2
    BY <1>1, <2>1 DEF Clients, ClientsTypeOK
  <2> QED BY <2>1, <2>2, LenProperties
<1>6. r \in Connections /\ r.host = conn[c].host
  <2> DEFINE end == conn[c].sent
             more == read + n
  <2>1. read \in 0 .. MaxTokens /\ end \in 0 .. MaxTokens /\ more <= end
    BY <1>3, <1>4 DEF Connections
  <2>2. more \in 0 .. MaxTokens
    <3> HIDE DEF read, end
    <3> QED BY <2>1, BoundsAssumption
  <2>3. r = [conn[c] EXCEPT !.read = more]
    OBVIOUS
  <2> HIDE DEF more, r
  <2> QED BY <1>3, <2>2, <2>3 DEF Connections
<1>7. ConnTypeOK' /\ ConnsKept /\ Conns' = Conns
  BY <1>1, <1>2, <1>4, <1>6, ConnUpdate
<1>8. block \in Seq(Tokens) /\ Len(block) = n
  <2>1. read \in Nat /\ conn[c].sent \in Nat /\ conn[c].sent <= MaxTokens
    BY <1>3, BoundsAssumption DEF Connections
  <2>2. ASSUME NEW i \in 1 .. n PROVE <<c, read + i>> \in Tokens
    <3>1. read + i \in 1 .. MaxTokens
      <4> DEFINE end == conn[c].sent
      <4>1. read \in Nat /\ end \in Nat /\ end <= MaxTokens /\ read + n <= end
        BY <1>4, <2>1
      <4> HIDE DEF read, end
      <4> QED BY <2>2, <4>1, BoundsAssumption
    <3>2. c \in 1 .. MaxConns
      BY <1>2, <1>3 DEF Conns
    <3> QED BY <3>1, <3>2 DEF Tokens
  <2> QED BY <2>2
<1>9. data \in Seq(Tokens) /\ Len(data) = Len(buf) + n
  <2> HIDE DEF block, buf
  <2> QED BY <1>5, <1>8, ConcatProperties
<1>10. /\ SubSeq(data, 3, Len(data)) \in Seq(Tokens)
       /\ Len(SubSeq(data, 3, Len(data))) < 2
  <2> DEFINE m == Len(data)
  <2>1. m \in Int /\ m <= 3
    BY <1>5, <1>9
  <2> HIDE DEF data, m
  <2>2. \A i \in 3 .. m : data[i] \in Tokens
    BY <1>9, <2>1, ElementOfSeq DEF m
  <2>3. /\ SubSeq(data, 3, m) \in Seq(Tokens)
        /\ Len(SubSeq(data, 3, m)) = IF 3 <= m THEN m - 3 + 1 ELSE 0
    BY <2>1, <2>2, SubSeqProperties
  <2> QED BY <2>1, <2>3 DEF m
<1>11. PICK b \in Seq(Tokens) : Len(b) < 2 /\ clients' = [clients EXCEPT ![h].buf = b]
  <2> HIDE DEF data
  <2> QED BY <1>4, <1>9, <1>10
<1>12. ClientsTypeOK' /\ Known' = Known /\ \A k \in Known : clients'[k].fd = clients[k].fd
  <2>1. Known' = Known
    BY <1>11 DEF Known
  <2>2. \A k \in Known : clients'[k] = IF k = h THEN [clients[h] EXCEPT !.buf = b] ELSE clients[k]
    BY <1>11 DEF Known
  <2>3. \A k \in Known : clients[k] \in Clients /\ Len(clients[k].buf) < 2
    BY <1>1 DEF ClientsTypeOK
  <2>4. [clients[h] EXCEPT !.buf = b] \in Clients /\ [clients[h] EXCEPT !.buf = b].buf = b
        /\ [clients[h] EXCEPT !.buf = b].fd = clients[h].fd
    BY <1>5, <1>11, <2>3 DEF Clients
  <2> QED BY <1>1, <1>11, <2>1, <2>2, <2>3, <2>4 DEF ClientsTypeOK
<1>13. BacklogTypeOK' /\ TableTypeOK' /\ RestTypeOK'
  BY <1>1, <1>4, <1>7, <1>12 DEF BacklogTypeOK, TableTypeOK, RestTypeOK
<1> QED BY <1>4, <1>7, <1>12, <1>13, TypeParts DEF FdsKept

\* Removing a record leaves the state well typed.
LEMMA RemoveTypeOK ==
  ASSUME TypeOK, NEW h \in Hosts, Remove(h), UNCHANGED <<env, pc, ready, history>>
  PROVE  TypeOK'
<1>1. ConnTypeOK /\ BacklogTypeOK /\ TableTypeOK /\ ClientsTypeOK /\ RestTypeOK
  BY TypeParts
<1>2. ClientsTypeOK' /\ Known' = Known \ {h} /\ TableTypeOK'
  BY <1>1, RemoveProperties
<1>3. ConnTypeOK' /\ BacklogTypeOK'
  BY <1>1 DEF env, ConnTypeOK, BacklogTypeOK, Conns
<1>4. RestTypeOK'
  BY <1>1, <1>2 DEF env, history, RestTypeOK, Remove
<1> QED BY <1>2, <1>3, <1>4, TypeParts

\* The connection that accept() returns, and the record that gets it.
LEMMA AcceptEffect ==
  ASSUME TypeOK, backlog # << >>, Accept
  PROVE  \E f \in 0 .. MaxFd, c \in Conns :
            /\ table[f] = Free /\ table' = [table EXCEPT ![f] = c]
            /\ Head(backlog) = c /\ conn[c].host \in Hosts
            /\ ClientsTypeOK' /\ Known' = Known \cup {conn[c].host}
            /\ \A k \in Known' : clients'[k].fd = IF k = conn[c].host THEN f ELSE clients[k].fd
<1>1. ConnTypeOK /\ BacklogTypeOK /\ TableTypeOK /\ ClientsTypeOK
  BY TypeParts
<1> DEFINE c == Head(backlog)
           address == [host |-> conn[c].host, port |-> c]
<1>2. c \in Conns
  BY <1>1, HeadTailProperties DEF BacklogTypeOK
<1>3. PICK f \in 0 .. MaxFd :
         /\ LowestFree(f)
         /\ table' = [table EXCEPT ![f] = c]
         /\ clients' = Put(address.host, [Record(address) EXCEPT !.fd = f])
  BY DEF Accept
<1>4. address \in Addresses /\ address.host = conn[c].host
  BY <1>1, <1>2, ConnRecord DEF Addresses, Connections
<1> HIDE DEF c
<1> DEFINE r == [Record(address) EXCEPT !.fd = f]
<1>5. Record(address) \in Clients /\ Len(Record(address).buf) < 2 /\ address.host \in Hosts
  BY <1>1, <1>4, RecordProperties
<1>6. f \in -1 .. MaxFd
  BY BoundsAssumption
<1>7. r \in Clients /\ Len(r.buf) < 2 /\ r.fd = f
  <2> HIDE DEF address
  <2> QED BY <1>5, <1>6 DEF Clients
<1>8. clients' = Put(address.host, r)
  BY <1>3
<1> HIDE DEF r
<1>9. /\ ClientsTypeOK' /\ Known' = Known \cup {address.host}
      /\ \A k \in Known' : clients'[k] = IF k = address.host THEN r ELSE clients[k]
  BY <1>1, <1>5, <1>7, <1>8, PutProperties
<1>10. table[f] = Free
  BY <1>3 DEF LowestFree, FreeFds
<1> QED BY <1>2, <1>3, <1>4, <1>5, <1>7, <1>9, <1>10 DEF c

\* Accepting leaves the state well typed.
LEMMA AcceptTypeOK ==
  ASSUME TypeOK, backlog # << >>, Accept
  PROVE  TypeOK'
<1>1. ConnTypeOK /\ BacklogTypeOK /\ TableTypeOK /\ ClientsTypeOK /\ RestTypeOK
  BY TypeParts
<1>2. PICK f \in 0 .. MaxFd, c \in Conns :
        /\ table' = [table EXCEPT ![f] = c]
        /\ ClientsTypeOK' /\ Known' = Known \cup {conn[c].host}
  BY AcceptEffect
<1>3. UNCHANGED <<conn, udpQueue, running, pc, todo, acceptFailed>> /\ backlog' = Tail(backlog)
      /\ ready' = ready \ {TcpFd}
  BY DEF Accept, history
<1>4. ConnTypeOK' /\ BacklogTypeOK'
  BY <1>1, <1>3, HeadTailProperties DEF ConnTypeOK, BacklogTypeOK, Conns
<1>5. c \in -3 .. MaxConns
  <2>1. c \in Nat /\ c <= MaxConns
    BY <1>1, ConnRecord
  <2> QED BY <2>1, BoundsAssumption
<1>6. TableTypeOK'
  BY <1>1, <1>2, <1>5 DEF TableTypeOK
<1>7. RestTypeOK'
  BY <1>1, <1>2, <1>3 DEF RestTypeOK
<1> QED BY <1>2, <1>4, <1>6, <1>7, TypeParts

\* What a failed accept() and a datagram do to the records: one is made or kept, and
\* gets no descriptor that is not its own.
FdsKeptOrNone ==
    /\ UNCHANGED <<conn, table>>
    /\ \A h \in Known' :
          clients'[h].fd = NoFd \/ (h \in Known /\ clients'[h].fd = clients[h].fd)

\* A failed accept() leaves the state well typed.
LEMMA AcceptFailsTypeOK ==
  ASSUME TypeOK, AcceptFails
  PROVE  TypeOK' /\ FdsKeptOrNone
<1>1. ConnTypeOK /\ BacklogTypeOK /\ TableTypeOK /\ ClientsTypeOK /\ RestTypeOK
  BY TypeParts
<1>2. PICK address \in [host : Hosts, port : {0}] :
         clients' = Put(address.host, [Record(address) EXCEPT !.fd = NoFd])
  BY DEF AcceptFails
<1> DEFINE r == [Record(address) EXCEPT !.fd = NoFd]
<1>3. address \in Addresses
  BY DEF Addresses
<1>4. Record(address) \in Clients /\ Len(Record(address).buf) < 2 /\ address.host \in Hosts
  BY <1>1, <1>3, RecordProperties
<1>5. NoFd \in -1 .. MaxFd
  BY BoundsAssumption DEF NoFd
<1>6. r \in Clients /\ Len(r.buf) < 2 /\ r.fd = NoFd
  BY <1>4, <1>5 DEF Clients
<1> HIDE DEF r
<1>7. /\ ClientsTypeOK' /\ Known' = Known \cup {address.host}
      /\ \A k \in Known' : clients'[k] = IF k = address.host THEN r ELSE clients[k]
  BY <1>1, <1>2, <1>4, <1>6, PutProperties DEF r
<1>8. UNCHANGED <<conn, backlog, udpQueue, running, table, pc, todo>>
      /\ ready' \subseteq ready /\ acceptFailed' \in BOOLEAN
  BY DEF AcceptFails, env
<1>9. ConnTypeOK' /\ BacklogTypeOK' /\ TableTypeOK' /\ RestTypeOK'
  BY <1>1, <1>7, <1>8 DEF ConnTypeOK, BacklogTypeOK, Conns, TableTypeOK, RestTypeOK
<1> QED BY <1>6, <1>7, <1>8, <1>9, TypeParts DEF FdsKeptOrNone

\* A datagram leaves the state well typed.
LEMMA HandleDatagramTypeOK ==
  ASSUME TypeOK, NEW d \in udpQueue, HandleDatagram(d)
  PROVE  /\ TypeOK' /\ FdsKeptOrNone
         /\ \A h \in Known : h \in Known' /\ clients'[h].fd = clients[h].fd
<1>1. ConnTypeOK /\ BacklogTypeOK /\ TableTypeOK /\ ClientsTypeOK /\ RestTypeOK
  BY TypeParts
<1>2. d.address \in Addresses
  BY <1>1, PortAssumption DEF RestTypeOK, Datagrams, Addresses
<1>3. UNCHANGED <<conn, backlog, running, table, pc, todo, acceptFailed>>
      /\ ready' = {} /\ udpQueue' \subseteq udpQueue
  BY DEF HandleDatagram
<1>4. /\ ClientsTypeOK' /\ Known \subseteq Known'
      /\ \A h \in Known : clients'[h].fd = clients[h].fd
      /\ \A h \in Known' : clients'[h].fd = NoFd \/ (h \in Known /\ clients'[h].fd = clients[h].fd)
  <2>1. CASE UNCHANGED clients
    BY <1>1, <2>1 DEF ClientsTypeOK, Known
  <2>2. CASE clients' = Put(d.address.host, Record(d.address))
    <3> DEFINE r == Record(d.address)
               h == d.address.host
    <3>1. /\ r \in Clients /\ Len(r.buf) < 2 /\ h \in Hosts
          /\ h \in Known => r = clients[h]
          /\ h \notin Known => r.fd = NoFd
      BY <1>1, <1>2, RecordProperties
    <3> HIDE DEF r, h
    <3>2. clients' = Put(h, r)
      BY <2>2 DEF r, h
    <3>3. /\ ClientsTypeOK' /\ Known' = Known \cup {h}
          /\ \A k \in Known' : clients'[k] = IF k = h THEN r ELSE clients[k]
      BY <1>1, <3>1, <3>2, PutProperties
    <3> QED BY <3>1, <3>3
  <2> QED BY <2>1, <2>2 DEF HandleDatagram
<1>5. ConnTypeOK' /\ BacklogTypeOK' /\ TableTypeOK' /\ RestTypeOK'
  BY <1>1, <1>3, <1>4 DEF ConnTypeOK, BacklogTypeOK, Conns, TableTypeOK, RestTypeOK
<1> QED BY <1>3, <1>4, <1>5, TypeParts DEF FdsKeptOrNone

\* Select() changes what is to be done, and nothing else.
LEMMA SelectTypeOK ==
  ASSUME TypeOK, Select \/ Stop
  PROVE  TypeOK' /\ UNCHANGED <<env, table, clients>>
<1>1. ConnTypeOK /\ BacklogTypeOK /\ TableTypeOK /\ ClientsTypeOK /\ RestTypeOK
  BY TypeParts
<1>2. UNCHANGED <<conn, backlog, udpQueue, running, table, clients, acceptFailed>>
  BY DEF Select, Stop, env, history
<1>3. ConnTypeOK' /\ BacklogTypeOK' /\ TableTypeOK' /\ ClientsTypeOK' /\ Known' = Known
  BY <1>1, <1>2 DEF ConnTypeOK, BacklogTypeOK, Conns, TableTypeOK, ClientsTypeOK, Known
<1>4. todo' \subseteq Known /\ ready' \subseteq {TcpFd, UdpFd}
      /\ pc' \in {"loop", "stopped", "destroyed"}
  BY <1>1 DEF Select, Stop, ReadyClients, RestTypeOK
<1>5. RestTypeOK'
  BY <1>1, <1>2, <1>3, <1>4 DEF RestTypeOK
<1> QED BY <1>2, <1>3, <1>5, TypeParts DEF env

\* Destroying the server leaves the state well typed.
LEMMA DestroyTypeOK ==
  ASSUME TypeOK, todo = {}, Destroy
  PROVE  TypeOK'
<1>1. ConnTypeOK /\ BacklogTypeOK /\ TableTypeOK /\ RestTypeOK
  BY TypeParts
<1>2. UNCHANGED <<conn, backlog, udpQueue, running, todo, ready, acceptFailed>>
      /\ pc' = "destroyed"
  BY DEF Destroy, env, history
<1>3. Known' = {}
  BY DEF Destroy, Known
<1>4. TableTypeOK'
  <2> DEFINE fds == {FdOf(h) : h \in Known}
  <2>1. table' = Closing(fds)
    BY DEF Destroy
  <2> HIDE DEF fds
  <2> QED BY <1>1, <2>1, ClosingType
<1>5. ConnTypeOK' /\ BacklogTypeOK' /\ ClientsTypeOK' /\ RestTypeOK'
  BY <1>1, <1>2, <1>3 DEF ConnTypeOK, BacklogTypeOK, Conns, ClientsTypeOK, RestTypeOK
<1> QED BY <1>1, <1>4, <1>5, TypeParts

-----------------------------------------------------------------------------
(* Records and their descriptors. *)

\* The descriptor of a record is that of a connection of its host.
LEMMA OwnedFd ==
  ASSUME TypeOK, OwnFd, NEW h \in Known, FdOf(h) # NoFd
  PROVE  /\ FdOf(h) \in 0 .. MaxFd /\ FdOf(h) \notin {0, TcpFd, UdpFd}
         /\ table[FdOf(h)] \in Conns /\ table[FdOf(h)] # Free
         /\ conn[table[FdOf(h)]].host = h
<1>1. FdOf(h) \in -1 .. MaxFd
  BY DEF TypeOK, Clients, FdOf
<1>2. FdOf(h) \in 0 .. MaxFd
  BY <1>1, BoundsAssumption DEF NoFd
<1>3. table[FdOf(h)] \in Conns /\ conn[table[FdOf(h)]].host = h
  BY DEF OwnFd, Connected, ConnOf
<1>4. Len(conn) \in Nat
  BY LenProperties DEF TypeOK
<1>5. table[0] \notin Conns /\ table[TcpFd] \notin Conns /\ table[UdpFd] \notin Conns
      /\ Free \notin Conns
  BY <1>4 DEF OwnFd, Conns, Stdin, TcpMaster, UdpMaster, Free
<1> QED BY <1>2, <1>3, <1>5

\* No two records share a descriptor.
LEMMA DistinctFds ==
  ASSUME TypeOK, OwnFd, NEW h \in Known, NEW k \in Known, h # k, FdOf(h) # NoFd
  PROVE  FdOf(h) # FdOf(k)
BY OwnedFd

\* Records that keep their descriptors, or lose them, own what they have.
LEMMA OwnFdKept ==
  ASSUME TypeOK, OwnFd, ConnsKept, UNCHANGED table,
         \A h \in Known' :
            clients'[h].fd = NoFd \/ (h \in Known /\ clients'[h].fd = clients[h].fd)
  PROVE  OwnFd'
<1>1. ASSUME NEW h \in Known', FdOf(h)' # NoFd
      PROVE  Connected(h)' /\ (conn[ConnOf(h)].host = h)'
  <2>1. h \in Known /\ FdOf(h)' = FdOf(h) /\ FdOf(h) # NoFd
    BY <1>1 DEF FdOf
  <2>2. table[FdOf(h)] \in Conns /\ conn[table[FdOf(h)]].host = h
    BY <2>1, OwnedFd
  <2>3. Conns \subseteq Conns'
    <3>1. Len(conn) \in Nat
      BY LenProperties DEF TypeOK
    <3> QED BY <2>2, <3>1 DEF Conns, ConnsKept
  <2>4. conn'[table[FdOf(h)]].host = h
    BY <2>2 DEF ConnsKept
  <2>5. table'[FdOf(h)'] = table[FdOf(h)]
    BY <2>1
  <2> QED BY <1>1, <2>2, <2>3, <2>4, <2>5 DEF Connected, ConnOf
<1> QED BY <1>1 DEF OwnFd

\* Removing a record closes no descriptor but its own.
LEMMA RemoveOwnFd ==
  ASSUME TypeOK, OwnFd, NEW h \in Known, Remove(h), UNCHANGED conn
  PROVE  OwnFd'
<1>1. ClientsTypeOK /\ TableTypeOK /\ h \in Hosts
  BY TypeParts DEF ClientsTypeOK
<1>2. /\ Known' = Known \ {h} /\ \A k \in Known' : clients'[k] = clients[k]
      /\ \A f \in 0 .. MaxFd : table'[f] = IF f = FdOf(h) THEN Free ELSE table[f]
  BY <1>1, RemoveProperties
<1>3. ASSUME NEW k \in Known', FdOf(k)' # NoFd
      PROVE  Connected(k)' /\ (conn[ConnOf(k)].host = k)'
  <2>1. k \in Known /\ k # h /\ FdOf(k)' = FdOf(k) /\ FdOf(k) # NoFd
    BY <1>2, <1>3 DEF FdOf
  <2>2. FdOf(k) \in 0 .. MaxFd /\ table[FdOf(k)] \in Conns /\ conn[table[FdOf(k)]].host = k
    BY <2>1, OwnedFd
  <2>3. table'[FdOf(k)'] = table[FdOf(k)]
    BY <1>2, <2>1, <2>2, DistinctFds
  <2> QED BY <1>3, <2>2, <2>3 DEF Connected, ConnOf, Conns
<1>4. table'[0] = table[0] /\ table'[TcpFd] = table[TcpFd] /\ table'[UdpFd] = table[UdpFd]
  <2>1. 0 \in 0 .. MaxFd /\ TcpFd \in 0 .. MaxFd /\ UdpFd \in 0 .. MaxFd
    BY BoundsAssumption DEF TcpFd, UdpFd
  <2>2. FdOf(h) \notin {0, TcpFd, UdpFd}
    BY OwnedFd DEF NoFd, TcpFd, UdpFd
  <2> QED BY <1>2, <2>1, <2>2
<1> QED BY <1>3, <1>4 DEF OwnFd

\* A free descriptor that accept() takes was nobody's.
LEMMA AcceptOwnFd ==
  ASSUME TypeOK, OwnFd, backlog # << >>, Accept
  PROVE  OwnFd'
<1>1. PICK f \in 0 .. MaxFd, c \in Conns :
        /\ table[f] = Free /\ table' = [table EXCEPT ![f] = c]
        /\ Known' = Known \cup {conn[c].host}
        /\ \A k \in Known' : clients'[k].fd = IF k = conn[c].host THEN f ELSE clients[k].fd
  BY AcceptEffect
<1>2. UNCHANGED conn
  BY DEF Accept
<1>3. \A g \in 0 .. MaxFd : table'[g] = IF g = f THEN c ELSE table[g]
  BY <1>1 DEF TypeOK
<1>4. ASSUME NEW k \in Known', FdOf(k)' # NoFd
      PROVE  Connected(k)' /\ (conn[ConnOf(k)].host = k)'
  <2>1. CASE k = conn[c].host
    <3>1. FdOf(k)' = f /\ table'[f] = c
      BY <1>1, <1>3, <2>1 DEF FdOf
    <3> QED BY <1>1, <1>2, <1>4, <2>1, <3>1 DEF Connected, ConnOf, Conns
  <2>2. CASE k # conn[c].host
    <3>1. k \in Known /\ FdOf(k)' = FdOf(k) /\ FdOf(k) # NoFd
      BY <1>1, <1>4, <2>2 DEF FdOf
    <3>2. /\ FdOf(k) \in 0 .. MaxFd /\ table[FdOf(k)] \in Conns /\ table[FdOf(k)] # Free
          /\ conn[table[FdOf(k)]].host = k
      BY <3>1, OwnedFd
    <3>3. table'[FdOf(k)'] = table[FdOf(k)]
      BY <1>1, <1>3, <3>1, <3>2
    <3> QED BY <1>2, <1>4, <3>2, <3>3 DEF Connected, ConnOf, Conns
  <2> QED BY <2>1, <2>2
<1>5. table'[0] = table[0] /\ table'[TcpFd] = table[TcpFd] /\ table'[UdpFd] = table[UdpFd]
  <2>1. 0 \in 0 .. MaxFd /\ TcpFd \in 0 .. MaxFd /\ UdpFd \in 0 .. MaxFd
    BY BoundsAssumption DEF TcpFd, UdpFd
  <2>2. f \notin {0, TcpFd, UdpFd}
    BY <1>1 DEF OwnFd, Stdin, TcpMaster, UdpMaster, Free
  <2> QED BY <1>3, <2>1, <2>2
<1> QED BY <1>4, <1>5 DEF OwnFd

\* The server closes the descriptors of its records when it is destroyed, only those.
LEMMA DestroyOwnFd ==
  ASSUME TypeOK, OwnFd, Destroy
  PROVE  OwnFd'
<1>1. Known' = {}
  BY DEF Destroy, Known
<1>2. \A f \in 0 .. MaxFd : f \notin {FdOf(h) : h \in Known} => table'[f] = table[f]
  BY DEF Destroy, Closing
<1>3. \A h \in Known : FdOf(h) \notin {0, TcpFd, UdpFd}
  BY OwnedFd DEF NoFd, TcpFd, UdpFd
<1>4. 0 \in 0 .. MaxFd /\ TcpFd \in 0 .. MaxFd /\ UdpFd \in 0 .. MaxFd
  BY BoundsAssumption DEF TcpFd, UdpFd
<1> QED BY <1>1, <1>2, <1>3, <1>4 DEF OwnFd

-----------------------------------------------------------------------------
(* What select() has reported. *)

\* A connection has something to read: bytes, or its end.
HasInput(c) == conn[c].read < conn[c].sent \/ conn[c].peer \in {"closed", "reset"}

\* For the descriptor of a record, readable means that.
LEMMA ReadableFd ==
  ASSUME TypeOK, OwnFd, NEW h \in Known, FdOf(h) # NoFd
  PROVE  Readable(FdOf(h)) <=> HasInput(table[FdOf(h)])
<1>1. table[FdOf(h)] \in Conns /\ Len(conn) \in Nat
  BY OwnedFd, LenProperties DEF TypeOK
<1>2. table[FdOf(h)] # TcpMaster /\ table[FdOf(h)] # UdpMaster
  BY <1>1 DEF Conns, TcpMaster, UdpMaster
<1> QED BY <1>1, <1>2 DEF Readable, HasInput

\* The environment takes nothing back.
LEMMA EnvironmentReady ==
  ASSUME TypeOK, OwnFd, ReadyStays, Environment, TypeOK', OwnFd'
  PROVE  ReadyStays'
<1>1. ConnTypeOK /\ Len(conn) \in Nat
  BY TypeParts, LenProperties DEF ConnTypeOK
<1>2. UNCHANGED <<table, clients, todo, ready>>
  BY DEF Environment, Connect, PeerSend, PeerEnd, UdpArrive, SigInt, server
<1>3. (backlog # << >> => backlog' # << >>) /\ (udpQueue # {} => udpQueue' # {})
  <2>1. ASSUME NEW h \in Hosts, Connect(h) PROVE backlog' # << >> /\ udpQueue' = udpQueue
    <3>1. backlog \in Seq(Int)
      BY <1>1, SeqMonotonic DEF TypeOK, Conns
    <3>2. Append(backlog, Len(conn) + 1) # << >>
      BY <1>1, <3>1, AppendProperties
    <3> QED BY <2>1, <3>2 DEF Connect
  <2>2. ASSUME NEW d, UdpArrive(d) PROVE backlog' = backlog /\ udpQueue' # {}
    BY <2>2 DEF UdpArrive
  <2>3. ASSUME NEW c \in Conns, NEW end,
               PeerSend(c) \/ PeerEnd(c, end) \/ SigInt
        PROVE  UNCHANGED <<backlog, udpQueue>>
    BY <2>3 DEF PeerSend, PeerEnd, SigInt
  <2>4. SigInt => UNCHANGED <<backlog, udpQueue>>
    BY DEF SigInt
  <2> QED BY <2>1, <2>2, <2>3, <2>4 DEF Environment
<1>4. ASSUME NEW c \in Conns, HasInput(c) PROVE HasInput(c)'
  <2>1. CASE conn' = conn
    BY <1>4, <2>1 DEF HasInput
  <2>2. ASSUME NEW h \in Hosts, Connect(h) PROVE HasInput(c)'
    <3> DEFINE r == [host |-> h, peer |-> "open", sent |-> 0, read |-> 0]
    <3>1. conn' = Append(conn, r) /\ r \in Connections /\ Len(conn) < MaxConns
      BY <2>2, BoundsAssumption DEF Connect, Connections
    <3> HIDE DEF r
    <3>2. conn'[c] = conn[c]
      BY <1>1, <3>1, ConnAppend
    <3> QED BY <1>4, <3>2 DEF HasInput
  <2>3. ASSUME NEW d \in Conns, PeerSend(d) PROVE HasInput(c)'
    <3>1. conn[c] \in Connections /\ conn[d] \in Connections
      BY <1>1, ConnRecord
    <3>2. DOMAIN conn = Conns
      BY <1>1, ConnRecord
    <3>3. conn' = [conn EXCEPT ![d] = [conn[d] EXCEPT !.sent = @ + 1]]
      BY <2>3 DEF PeerSend
    <3>4. CASE c = d
      <4> DEFINE read == conn[c].read
                 end == conn[c].sent
      <4>1. conn'[c] = [conn[c] EXCEPT !.sent = @ + 1]
        BY <3>2, <3>3, <3>4
      <4>2. conn'[c].read = read /\ conn'[c].peer = conn[c].peer /\ conn'[c].sent = end + 1
        BY <3>1, <4>1 DEF Connections
      <4>3. read \in Int /\ end \in Int
        BY <3>1, BoundsAssumption DEF Connections
      <4>4. read < end => read < end + 1
        <5> HIDE DEF read, end
        <5> QED BY <4>3
      <4> HIDE DEF read, end
      <4> QED BY <1>4, <4>2, <4>4 DEF HasInput, read, end
    <3>5. CASE c # d
      BY <1>4, <3>2, <3>3, <3>5 DEF HasInput
    <3> QED BY <3>4, <3>5
  <2>4. ASSUME NEW d \in Conns, NEW end \in {"closed", "reset"}, PeerEnd(d, end)
        PROVE  HasInput(c)'
    <3>1. conn[c] \in Connections /\ conn[d] \in Connections /\ DOMAIN conn = Conns
      BY <1>1, ConnRecord
    <3>2. conn' = [conn EXCEPT ![d] = [conn[d] EXCEPT !.peer = end]]
      BY <2>4 DEF PeerEnd
    <3>3. CASE c = d
      BY <3>1, <3>2, <3>3 DEF HasInput, Connections
    <3>4. CASE c # d
      BY <1>4, <3>1, <3>2, <3>4 DEF HasInput
    <3> QED BY <3>3, <3>4
  <2> QED BY <2>1, <2>2, <2>3, <2>4 DEF Environment, UdpArrive, SigInt
<1>5. ASSUME NEW h \in todo', FdOf(h)' # NoFd PROVE Readable(FdOf(h))'
  <2>1. h \in todo /\ h \in Known /\ FdOf(h)' = FdOf(h) /\ FdOf(h) # NoFd
    BY <1>2, <1>5 DEF TypeOK, FdOf
  <2>2. Readable(FdOf(h)) /\ table[FdOf(h)] \in Conns
    BY <2>1, OwnedFd DEF ReadyStays
  <2>3. HasInput(table[FdOf(h)])'
    BY <1>2, <1>4, <2>1, <2>2, ReadableFd
  <2>4. table'[FdOf(h)'] \in Conns'
    BY <1>2, <1>5, <2>1 DEF OwnFd, Connected, Known
  <2> QED BY <1>2, <2>1, <2>3, <2>4 DEF Readable, HasInput
<1> QED BY <1>2, <1>3, <1>5 DEF ReadyStays

\* Reading one connection leaves what the others have.
LEMMA RecvDataReady ==
  ASSUME TypeOK, OwnFd, ReadyStays, NEW h \in Hosts, NEW n \in 1 .. 2, NEW kind \in Kinds,
         RecvData(h, n, kind), FdsKept, Conns' = Conns
  PROVE  ReadyStays'
<1> DEFINE c == ConnOf(h)
<1>1. /\ h \in todo /\ h \in Known /\ FdOf(h) # NoFd /\ todo' = todo \ {h}
      /\ conn' = [conn EXCEPT ![c].read = @ + n]
      /\ UNCHANGED <<backlog, udpQueue, ready>>
  BY DEF RecvData, AtRecv, Connected, TypeOK
<1>2. DOMAIN conn = Conns /\ DOMAIN conn' = Conns
  BY <1>1, ConnRecord, TypeParts, LenProperties DEF TypeOK, Conns
<1>3. ASSUME NEW k \in todo', FdOf(k)' # NoFd PROVE Readable(FdOf(k))'
  <2>1. k \in todo /\ k \in Known /\ k # h /\ FdOf(k)' = FdOf(k) /\ FdOf(k) # NoFd
    BY <1>1, <1>3 DEF TypeOK, FdOf, FdsKept
  <2>2. Readable(FdOf(k)) /\ table[FdOf(k)] \in Conns /\ conn[table[FdOf(k)]].host = k
    BY <2>1, OwnedFd DEF ReadyStays
  <2>3. table[FdOf(k)] # c
    BY <1>1, <2>1, <2>2, OwnedFd DEF ConnOf
  <2>4. conn'[table[FdOf(k)]] = conn[table[FdOf(k)]]
    BY <1>1, <1>2, <2>2, <2>3
  <2>5. HasInput(table[FdOf(k)])
    BY <2>1, <2>2, ReadableFd
  <2> QED BY <2>1, <2>2, <2>4, <2>5 DEF Readable, HasInput, FdsKept
<1> QED BY <1>1, <1>3 DEF ReadyStays

\* Removing one record leaves what the others have.
LEMMA RemoveReady ==
  ASSUME TypeOK, OwnFd, ReadyStays, NEW h \in todo, Remove(h),
         UNCHANGED <<env, pc, ready, history>>
  PROVE  ReadyStays'
<1>1. UNCHANGED <<conn, backlog, udpQueue, ready>> /\ todo' = todo \ {h}
  BY DEF env, Remove
<1>2. ClientsTypeOK /\ TableTypeOK /\ h \in Hosts /\ h \in Known
  BY TypeParts DEF ClientsTypeOK, RestTypeOK
<1>3. /\ Known' = Known \ {h} /\ \A k \in Known' : clients'[k] = clients[k]
      /\ \A f \in 0 .. MaxFd : table'[f] = IF f = FdOf(h) THEN Free ELSE table[f]
  BY <1>2, RemoveProperties
<1>4. ASSUME NEW k \in todo', FdOf(k)' # NoFd PROVE Readable(FdOf(k))'
  <2>1. k \in todo /\ k \in Known /\ k # h /\ FdOf(k)' = FdOf(k) /\ FdOf(k) # NoFd
    BY <1>1, <1>3, <1>4 DEF TypeOK, FdOf
  <2>2. Readable(FdOf(k)) /\ FdOf(k) \in 0 .. MaxFd
    BY <2>1, OwnedFd DEF ReadyStays
  <2>3. table'[FdOf(k)] = table[FdOf(k)]
    BY <1>2, <1>3, <2>1, <2>2, DistinctFds
  <2> QED BY <1>1, <2>1, <2>2, <2>3 DEF Readable, Conns
<1> QED BY <1>1, <1>4 DEF ReadyStays

\* Select() reports what is so.
LEMMA SelectReady ==
  ASSUME TypeOK, OwnFd, ReadyStays, Select \/ Stop, UNCHANGED <<env, table, clients>>
  PROVE  ReadyStays'
<1>1. CASE Stop
  BY <1>1 DEF Stop, ReadyStays, env, FdOf, Readable, Conns
<1>2. CASE Select
  <2>1. \A h \in todo' : FdOf(h) # NoFd => Readable(FdOf(h))
    BY <1>2 DEF Select, ReadyClients
  <2>2. \A f \in ready' : Readable(f)
    BY <1>2 DEF Select
  <2>3. TcpFd \in ready' => backlog # << >>
    <3>1. table[TcpFd] = TcpMaster /\ TcpMaster \notin Conns /\ TcpMaster # UdpMaster
      BY LenProperties DEF OwnFd, TypeOK, Conns, TcpMaster, UdpMaster
    <3> QED BY <2>2, <3>1 DEF Readable
  <2>4. UdpFd \in ready' => udpQueue # {}
    <3>1. table[UdpFd] = UdpMaster /\ UdpMaster \notin Conns /\ TcpMaster # UdpMaster
      BY LenProperties DEF OwnFd, TypeOK, Conns, TcpMaster, UdpMaster
    <3> QED BY <2>2, <3>1 DEF Readable
  <2> QED BY <2>1, <2>3, <2>4 DEF ReadyStays, env, FdOf, Readable, Conns
<1> QED BY <1>1, <1>2

-----------------------------------------------------------------------------
(* The invariant. *)

\* The invariant holds at the start.
LEMMA InitIInv == Init => IInv
<1> SUFFICES ASSUME Init PROVE IInv
  OBVIOUS
<1>1. Known = {}
  BY DEF Init, Known
<1>2. OwnFd
  BY <1>1, BoundsAssumption DEF Init, OwnFd, TcpFd, UdpFd
<1>3. ReadyStays
  BY DEF Init, ReadyStays
<1>4. StoppedIdle
  BY DEF Init, StoppedIdle
<1> QED BY <1>2, <1>3, <1>4, InitTypeOK DEF IInv

\* Records that keep or lose their descriptors leave what the others have.
LEMMA ReadyUnderPut ==
  ASSUME todo = {}, UNCHANGED todo, ready' \subseteq ready,
         TcpFd \in ready' => backlog' # << >>, UdpFd \in ready' => udpQueue' # {}
  PROVE  ReadyStays'
BY DEF ReadyStays

\* No step leaves the loop in the middle of a pass.
LEMMA ServerIdle == StoppedIdle /\ Server => StoppedIdle'
BY DEF StoppedIdle, Server, Select, Stop, AtSelect, RecvData, RecvEof, RecvError, Remove,
       AtRecv, Accept, AcceptFails, HandleDatagram, Destroy

\* Every step of the server keeps the invariant.
LEMMA ServerIInv == IInv /\ Server => IInv'
<1> SUFFICES ASSUME IInv, Server PROVE IInv'
  OBVIOUS
<1>1. TypeOK /\ OwnFd /\ ReadyStays /\ StoppedIdle /\ StoppedIdle'
  BY ServerIdle DEF IInv
<1>2. Len(conn) \in Nat
  BY <1>1, LenProperties DEF TypeOK
<1>3. CASE Select \/ Stop
  <2>1. TypeOK' /\ UNCHANGED <<env, table, clients>>
    BY <1>1, <1>3, SelectTypeOK
  <2>2. OwnFd'
    BY <1>1, <2>1 DEF OwnFd, Connected, ConnOf, FdOf, Known, Conns, env
  <2> QED BY <1>1, <1>3, <2>1, <2>2, SelectReady DEF IInv
<1>4. ASSUME NEW h \in Hosts, NEW n \in 1 .. 2, NEW kind \in Kinds, RecvData(h, n, kind)
      PROVE  IInv'
  <2>1. TypeOK' /\ ConnsKept /\ FdsKept /\ Conns' = Conns
    BY <1>1, <1>4, RecvDataTypeOK
  <2>2. OwnFd'
    BY <1>1, <2>1, OwnFdKept DEF FdsKept
  <2>3. ReadyStays'
    BY <1>1, <1>4, <2>1, RecvDataReady
  <2> QED BY <1>1, <2>1, <2>2, <2>3 DEF IInv
<1>5. ASSUME NEW h \in Hosts, RecvEof(h) \/ RecvError(h) PROVE IInv'
  <2>1. h \in todo /\ Remove(h) /\ UNCHANGED <<env, pc, ready, history>>
    BY <1>5 DEF RecvEof, RecvError, AtRecv
  <2>2. h \in Known /\ UNCHANGED conn
    BY <1>1, <2>1 DEF TypeOK, env
  <2>3. TypeOK'
    BY <1>1, <2>1, RemoveTypeOK
  <2>4. OwnFd'
    BY <1>1, <2>1, <2>2, RemoveOwnFd
  <2>5. ReadyStays'
    BY <1>1, <2>1, RemoveReady
  <2> QED BY <1>1, <2>3, <2>4, <2>5 DEF IInv
<1>6. CASE Accept
  <2>1. /\ backlog # << >> /\ todo = {} /\ UNCHANGED <<todo, udpQueue>>
        /\ ready' = ready \ {TcpFd}
    BY <1>1, <1>6 DEF Accept, AtMaster, ReadyStays
  <2>2. TypeOK' /\ OwnFd'
    BY <1>1, <1>6, <2>1, AcceptTypeOK, AcceptOwnFd
  <2>3. ReadyStays'
    BY <1>1, <2>1, ReadyUnderPut DEF ReadyStays
  <2> QED BY <1>1, <2>2, <2>3 DEF IInv
<1>7. CASE AcceptFails
  <2>1. TypeOK' /\ FdsKeptOrNone
    BY <1>1, <1>7, AcceptFailsTypeOK
  <2>2. OwnFd'
    BY <1>1, <1>2, <2>1, OwnFdKept DEF FdsKeptOrNone, ConnsKept
  <2>3. todo = {} /\ UNCHANGED <<todo, udpQueue>> /\ ready' = ready \ {TcpFd}
    BY <1>7 DEF AcceptFails, AtMaster, env
  <2>4. ReadyStays'
    BY <1>1, <2>3, ReadyUnderPut DEF ReadyStays
  <2> QED BY <1>1, <2>1, <2>2, <2>4 DEF IInv
<1>8. ASSUME NEW d \in udpQueue, HandleDatagram(d) PROVE IInv'
  <2>1. TypeOK' /\ FdsKeptOrNone
    BY <1>1, <1>8, HandleDatagramTypeOK
  <2>2. OwnFd'
    BY <1>1, <1>2, <2>1, OwnFdKept DEF FdsKeptOrNone, ConnsKept
  <2>3. todo = {} /\ UNCHANGED todo /\ ready' = {}
    BY <1>8 DEF HandleDatagram, AtUdp
  <2>4. ReadyStays'
    BY <2>3, ReadyUnderPut
  <2> QED BY <1>1, <2>1, <2>2, <2>4 DEF IInv
<1>9. CASE Destroy
  <2>1. UNCHANGED <<todo, ready, backlog, udpQueue>> /\ todo = {}
    BY <1>1, <1>9 DEF Destroy, env, StoppedIdle
  <2>2. TypeOK' /\ OwnFd'
    BY <1>1, <1>9, <2>1, DestroyTypeOK, DestroyOwnFd
  <2>3. ReadyStays'
    BY <1>1, <2>1, ReadyUnderPut DEF ReadyStays
  <2> QED BY <1>1, <2>2, <2>3 DEF IInv
<1> QED BY <1>3, <1>4, <1>5, <1>6, <1>7, <1>8, <1>9 DEF Server

\* Nor does a step of the environment break it.
LEMMA EnvironmentIInv == IInv /\ Environment => IInv'
<1> SUFFICES ASSUME IInv, Environment PROVE IInv'
  OBVIOUS
<1>1. TypeOK /\ OwnFd /\ ReadyStays /\ StoppedIdle
  BY DEF IInv
<1>2. TypeOK' /\ ConnsKept
  BY <1>1, EnvironmentTypeOK
<1>3. UNCHANGED server
  BY DEF Environment, Connect, PeerSend, PeerEnd, UdpArrive, SigInt
<1>4. OwnFd'
  BY <1>1, <1>2, <1>3, OwnFdKept DEF server, Known
<1>5. ReadyStays'
  BY <1>1, <1>2, <1>4, EnvironmentReady
<1>6. StoppedIdle'
  BY <1>1, <1>3 DEF server, StoppedIdle
<1> QED BY <1>2, <1>4, <1>5, <1>6 DEF IInv

\* A step that changes nothing keeps the invariant.
LEMMA StutterIInv == IInv /\ UNCHANGED vars => IInv'
<1> SUFFICES ASSUME IInv, UNCHANGED vars PROVE IInv'
  OBVIOUS
<1>1. TypeOK'
  BY DEF IInv, TypeOK, vars, env, server, history, Conns, Known
<1>2. OwnFd'
  BY DEF IInv, OwnFd, Connected, ConnOf, FdOf, Conns, Known, vars, env, server
<1>3. ReadyStays' /\ StoppedIdle'
  BY DEF IInv, ReadyStays, StoppedIdle, Readable, FdOf, Conns, vars, env, server
<1> QED BY <1>1, <1>2, <1>3 DEF IInv

\* The invariant of the server: types, descriptors and what select() has reported.
THEOREM ServerInvariant == Spec => []IInv
<1>1. IInv /\ [Next]_vars => IInv'
  BY ServerIInv, EnvironmentIInv, StutterIInv DEF Next
<1> QED BY <1>1, InitIInv, PTL DEF Spec

\* The state of the server keeps its type, and no buffer holds a whole packet.
THEOREM ServerTypeCorrect == Spec => []TypeOK
<1>1. IInv => TypeOK
  BY DEF IInv
<1> QED BY <1>1, ServerInvariant, PTL

\* Every record owns its descriptor: recv() and close() hit nothing else.
THEOREM RecordsOwnDescriptors == Spec => []OwnFd
<1>1. IInv => OwnFd
  BY DEF IInv
<1> QED BY <1>1, ServerInvariant, PTL

\* The server never reads from a socket that has nothing to read.
THEOREM ServerDoesNotBlock == Spec => []RecvWouldNotBlock
<1>1. IInv => RecvWouldNotBlock
  BY DEF IInv, ReadyStays, RecvWouldNotBlock, AtRecv, AtMaster, AtUdp
<1> QED BY <1>1, ServerInvariant, PTL

-----------------------------------------------------------------------------
(* Where answers go. *)

\* A record holds an address of its own host.
HomeAddress == \A h \in Known : clients[h].address.host = h

AnswersInv == HomeAddress /\ AnswersGoHome

\* The record that was found or made for an address belongs there.
LEMMA RecordAtHome ==
  ASSUME HomeAddress, NEW address \in Addresses
  PROVE  Record(address).address.host = address.host
BY DEF HomeAddress, Record, NewClient

\* Putting such a record, with whatever descriptor, keeps the others.
LEMMA PutAtHome ==
  ASSUME HomeAddress, NEW h, NEW r, r.address.host = h, clients' = Put(h, r)
  PROVE  HomeAddress'
<1>1. Known' = Known \cup {h} /\ \A k \in Known' : clients'[k] = IF k = h THEN r ELSE clients[k]
  BY DEF Known, Put
<1> QED BY <1>1 DEF HomeAddress

\* An answer goes to the host that asked when the record is of that host.
LEMMA AnswerGoesHome ==
  ASSUME AnswersGoHome, NEW kind, NEW asker, NEW address, address.host = asker.host,
         Answer(kind, asker, address)
  PROVE  AnswersGoHome'
<1>1. CASE kind = "input"
  BY <1>1 DEF Answer, AnswersGoHome
<1>2. CASE kind # "input"
  <2>1. reply' = [kind |-> kind, asker |-> asker, to |-> Destination(kind, address)]
    BY <1>2 DEF Answer
  <2>2. Destination(kind, address).host = asker.host
    BY DEF Destination
  <2>3. kind = "ping" => Destination(kind, address).port = PongPort
    BY DEF Destination
  <2> QED BY <2>1, <2>2, <2>3 DEF AnswersGoHome
<1> QED BY <1>1, <1>2

\* Setting the descriptor of a record leaves its address alone.
LEMMA NewFd ==
  ASSUME NEW r \in Clients, NEW f
  PROVE  [r EXCEPT !.fd = f].address = r.address
BY DEF Clients

\* Accept() puts a record of the host of the connection, or of the host whose
\* address was left on the stack.
LEMMA AcceptAtHome ==
  ASSUME TypeOK, HomeAddress, (backlog # << >> /\ Accept) \/ AcceptFails
  PROVE  HomeAddress'
<1>1. ConnTypeOK /\ BacklogTypeOK /\ ClientsTypeOK
  BY TypeParts
<1>2. PICK address \in Addresses, f \in -1 .. MaxFd :
         clients' = Put(address.host, [Record(address) EXCEPT !.fd = f])
  <2>1. CASE backlog # << >> /\ Accept
    <3> DEFINE c == Head(backlog)
               address == [host |-> conn[c].host, port |-> c]
    <3>1. c \in Conns
      BY <1>1, <2>1, HeadTailProperties DEF BacklogTypeOK
    <3>2. address \in Addresses
      BY <1>1, <3>1, ConnRecord DEF Addresses, Connections
    <3>3. PICK f \in 0 .. MaxFd :
             clients' = Put(address.host, [Record(address) EXCEPT !.fd = f])
      BY <2>1 DEF Accept
    <3>4. f \in -1 .. MaxFd
      BY BoundsAssumption
    <3> HIDE DEF address
    <3> QED BY <3>2, <3>3, <3>4
  <2>2. CASE AcceptFails
    <3>1. PICK address \in [host : Hosts, port : {0}] :
             clients' = Put(address.host, [Record(address) EXCEPT !.fd = NoFd])
      BY <2>2 DEF AcceptFails
    <3>2. address \in Addresses /\ NoFd \in -1 .. MaxFd
      BY BoundsAssumption DEF Addresses, NoFd
    <3> QED BY <3>1, <3>2
  <2> QED BY <2>1, <2>2
<1>3. [Record(address) EXCEPT !.fd = f].address.host = address.host
  BY <1>1, RecordProperties, RecordAtHome, NewFd
<1> QED BY <1>2, <1>3, PutAtHome

\* Each step keeps the addresses, and what it answers goes home.
LEMMA NextAnswersInv == IInv /\ AnswersInv /\ [Next]_vars => AnswersInv'
<1> SUFFICES ASSUME IInv, AnswersInv, [Next]_vars PROVE AnswersInv'
  OBVIOUS
<1>1. /\ TypeOK /\ OwnFd /\ ReadyStays /\ HomeAddress /\ AnswersGoHome
      /\ ClientsTypeOK /\ RestTypeOK
  BY TypeParts DEF IInv, AnswersInv
<1>2. UNCHANGED clients => HomeAddress'
  BY <1>1 DEF HomeAddress, Known
<1>3. UNCHANGED reply \/ reply' = NoReply => AnswersGoHome'
  BY <1>1 DEF AnswersGoHome
<1>4. CASE UNCHANGED vars \/ Environment \/ Select \/ Stop
  <2>1. UNCHANGED clients /\ (UNCHANGED reply \/ reply' = NoReply)
    BY <1>4 DEF vars, server, history, Environment, Connect, PeerSend, PeerEnd, UdpArrive,
                SigInt, Select, Stop
  <2> QED BY <1>2, <1>3, <2>1 DEF AnswersInv
<1>5. ASSUME NEW h \in Hosts, NEW n \in 1 .. 2, NEW kind \in Kinds, RecvData(h, n, kind)
      PROVE  AnswersInv'
  <2> DEFINE c == ConnOf(h)
             asker == [host |-> conn[c].host, port |-> c]
  <2>1. h \in Known
    BY <1>1, <1>5 DEF RecvData, AtRecv, RestTypeOK
  <2>2. FdOf(h) # NoFd
    BY <1>5 DEF RecvData, Connected
  <2>3. conn[c].host = h
    BY <1>1, <2>1, <2>2 DEF OwnFd
  <2>4. PICK b : clients' = [clients EXCEPT ![h].buf = b]
    BY <1>5 DEF RecvData
  <2>5. Known' = Known /\ \A k \in Known : clients'[k].address = clients[k].address
    <3>1. Known' = Known
      BY <2>4 DEF Known
    <3>2. \A k \in Known : clients[k] \in Clients
      BY <1>1 DEF ClientsTypeOK
    <3> QED BY <2>4, <3>1, <3>2 DEF Known, Clients
  <2>6. HomeAddress'
    BY <1>1, <2>5 DEF HomeAddress
  <2>7. UNCHANGED reply \/ Answer(kind, asker, clients[h].address)
    BY <1>5 DEF RecvData
  <2>8. clients[h].address.host = asker.host
    BY <1>1, <2>1, <2>3 DEF HomeAddress
  <2> HIDE DEF asker
  <2>9. AnswersGoHome'
    BY <1>1, <1>3, <2>7, <2>8, AnswerGoesHome
  <2> QED BY <2>6, <2>9 DEF AnswersInv
<1>6. ASSUME NEW h \in Hosts, RecvEof(h) \/ RecvError(h) PROVE AnswersInv'
  <2>1. Remove(h) /\ UNCHANGED reply
    BY <1>6 DEF RecvEof, RecvError, history
  <2>2. Known' = Known \ {h} /\ \A k \in Known' : clients'[k] = clients[k]
    BY <2>1 DEF Remove, Known
  <2> QED BY <1>1, <1>3, <2>1, <2>2 DEF HomeAddress, AnswersInv
<1>7. CASE Accept \/ AcceptFails
  <2>1. UNCHANGED reply
    BY <1>7 DEF Accept, AcceptFails, history
  <2>2. Accept => backlog # << >>
    BY <1>1 DEF Accept, AtMaster, ReadyStays
  <2> QED BY <1>1, <1>3, <1>7, <2>1, <2>2, AcceptAtHome DEF AnswersInv
<1>8. ASSUME NEW d \in udpQueue, HandleDatagram(d) PROVE AnswersInv'
  <2>1. d.address \in Addresses
    BY <1>1, PortAssumption DEF RestTypeOK, Datagrams, Addresses
  <2>2. Record(d.address).address.host = d.address.host
    BY <1>1, <2>1, RecordAtHome
  <2>3. HomeAddress'
    BY <1>1, <1>2, <1>8, <2>2, PutAtHome DEF HandleDatagram
  <2>4. UNCHANGED reply \/ Answer(d.message, d.address, Record(d.address).address)
    BY <1>8 DEF HandleDatagram
  <2>5. AnswersGoHome'
    BY <1>1, <1>3, <2>2, <2>4, AnswerGoesHome
  <2> QED BY <2>3, <2>5 DEF AnswersInv
<1>9. CASE Destroy
  <2>1. Known' = {} /\ UNCHANGED reply
    BY <1>9 DEF Destroy, Known, history
  <2> QED BY <1>3, <2>1 DEF HomeAddress, AnswersInv
<1> QED BY <1>4, <1>5, <1>6, <1>7, <1>8, <1>9 DEF Next, Server

\* Whatever minimote_server_handle_packet_from_client() answers goes to the host
\* that asked, over whichever socket; and a pong to the port the ping has named.
THEOREM AnswersReachTheAsker == Spec => []AnswersGoHome
<1>1. Init => AnswersInv
  BY DEF Init, AnswersInv, HomeAddress, AnswersGoHome, Known
<1>2. AnswersInv => AnswersGoHome
  BY DEF AnswersInv
<1> QED BY <1>1, <1>2, NextAnswersInv, ServerInvariant, PTL DEF Spec

-----------------------------------------------------------------------------
(* How a connection may come to lose its record: by its own end, by a new     *)
(* connection of its host, by a failed accept() or by the end of the server.  *)
(* The only connections that stay open without a record are those that a new  *)
(* one of the same host has replaced.                                         *)

\* The connections that were taken off the backlog: the oldest ones.
OldConns == Len(conn) - Len(backlog)

\* The backlog holds the newest connections, oldest first.
BacklogIsTail ==
    /\ Len(backlog) <= Len(conn)
    /\ \A i \in 1 .. Len(backlog) : backlog[i] = OldConns + i

\* An accepted connection has at most one descriptor, and no other has any.
TableOnce ==
    /\ \A f \in 0 .. MaxFd : table[f] <= OldConns
    /\ \A f, g \in 0 .. MaxFd : table[f] \in Conns /\ table[f] = table[g] => f = g

HistInv == IInv /\ BacklogIsTail /\ TableOnce

\* The lengths are numbers.
LEMMA Lengths ==
  ASSUME TypeOK
  PROVE  Len(conn) \in Nat /\ Len(backlog) \in Nat /\ OldConns \in Int
BY LenProperties DEF TypeOK, OldConns

\* A connection is in the backlog, or was accepted.
LEMMA BacklogMeaning ==
  ASSUME TypeOK, BacklogIsTail, NEW c \in Conns
  PROVE  InBacklog(c) <=> OldConns < c
<1> DEFINE old == OldConns
           m == Len(backlog)
<1>1. /\ c \in Nat /\ old \in Int /\ m \in Nat /\ c <= old + m
      /\ \A i \in 1 .. m : backlog[i] = old + i
  BY Lengths DEF Conns, BacklogIsTail, OldConns
<1> HIDE DEF old, m
<1>2. ASSUME old < c PROVE \E i \in 1 .. m : backlog[i] = c
  <2> DEFINE j == c - old
  <2>1. j \in 1 .. m /\ old + j = c
    BY <1>1, <1>2
  <2> HIDE DEF j
  <2> QED BY <1>1, <2>1
<1>3. ASSUME NEW i \in 1 .. m, backlog[i] = c PROVE old < c
  BY <1>1, <1>3
<1> QED BY <1>2, <1>3 DEF InBacklog, old, m

\* The same, before a step and after it.
LEMMA BacklogMeans ==
  TypeOK /\ BacklogIsTail => \A c \in Conns : InBacklog(c) <=> OldConns < c
BY BacklogMeaning

LEMMA BacklogMeansNext ==
  (TypeOK /\ BacklogIsTail => \A c \in Conns : InBacklog(c) <=> OldConns < c)'
BY BacklogMeans, PTL

\* At the start there is no connection.
LEMMA InitHistInv == Init => HistInv
<1> SUFFICES ASSUME Init PROVE HistInv
  OBVIOUS
<1>1. Len(conn) = 0 /\ Len(backlog) = 0 /\ Conns = {}
  BY EmptySeq DEF Init, Conns
<1>2. BacklogIsTail
  BY <1>1 DEF BacklogIsTail
<1>3. \A f \in 0 .. MaxFd : table[f] <= 0
  BY DEF Init, Stdin, TcpMaster, UdpMaster, Free
<1>4. TableOnce
  BY <1>1, <1>3 DEF TableOnce, OldConns
<1> QED BY <1>2, <1>4, InitIInv DEF HistInv

\* Closing descriptors, while no connection comes or is accepted, keeps the order.
LEMMA ClosingKeepsOrder ==
  ASSUME TypeOK, BacklogIsTail, TableOnce, UNCHANGED backlog, Len(conn') = Len(conn),
         \A f \in 0 .. MaxFd : table'[f] \in {Free, table[f]}
  PROVE  BacklogIsTail' /\ TableOnce'
<1>1. OldConns' = OldConns /\ Conns' = Conns
  BY DEF OldConns, Conns
<1>2. Free \notin Conns
  BY Lengths DEF Conns, Free
<1>3. BacklogIsTail'
  BY <1>1 DEF BacklogIsTail
<1>4. Free <= OldConns
  BY Lengths DEF BacklogIsTail, OldConns, Free
<1>5. TableOnce'
  BY <1>1, <1>2, <1>4 DEF TableOnce
<1> QED BY <1>3, <1>5

\* A new connection goes to the end of the backlog.
LEMMA ConnectKeepsOrder ==
  ASSUME TypeOK, BacklogIsTail, TableOnce, NEW h \in Hosts, Connect(h)
  PROVE  BacklogIsTail' /\ TableOnce' /\ OldConns' = OldConns
<1> DEFINE r == [host |-> h, peer |-> "open", sent |-> 0, read |-> 0]
           n == Len(conn)
           m == Len(backlog)
<1>1. n \in Nat /\ m \in Nat /\ m <= n /\ \A i \in 1 .. m : backlog[i] = (n - m) + i
  BY Lengths DEF BacklogIsTail, OldConns
<1>2. conn' = Append(conn, r) /\ backlog' = Append(backlog, n + 1) /\ r \in Connections
      /\ n < MaxConns /\ UNCHANGED table
  BY BoundsAssumption DEF Connect, server, Connections
<1>3. Len(conn') = n + 1 /\ Conns' = Conns \cup {n + 1}
  <2> HIDE DEF r
  <2>1. Len(Append(conn, r)) = n + 1
    BY <1>2, AppendProperties DEF TypeOK
  <2> QED BY <1>1, <1>2, <2>1 DEF Conns
<1>4. /\ Len(backlog') = m + 1 /\ backlog'[m + 1] = n + 1
      /\ \A i \in 1 .. m : backlog'[i] = backlog[i]
  <2>1. backlog \in Seq(Int) /\ n + 1 \in Int
    BY <1>1, SeqMonotonic DEF TypeOK, Conns
  <2> HIDE DEF n
  <2> QED BY <1>2, <2>1, AppendProperties
<1>5. OldConns' = OldConns /\ OldConns = n - m
  <2>1. (n + 1) - (m + 1) = n - m
    BY <1>1
  <2> QED BY <1>3, <1>4, <2>1 DEF OldConns
<1>6. BacklogIsTail'
  <2>1. ASSUME NEW i \in 1 .. m + 1 PROVE backlog'[i] = (n - m) + i
    <3>1. CASE i = m + 1
      <4>1. (n - m) + (m + 1) = n + 1
        BY <1>1
      <4> QED BY <1>4, <3>1, <4>1
    <3>2. CASE i # m + 1
      BY <1>1, <1>4, <3>2
    <3> QED BY <3>1, <3>2
  <2>2. m + 1 <= n + 1
    BY <1>1
  <2> QED BY <1>3, <1>4, <1>5, <2>1, <2>2 DEF BacklogIsTail
<1>7. TableOnce'
  <2>1. ASSUME NEW f \in 0 .. MaxFd, table[f] \in Conns' PROVE table[f] \in Conns
    <3>1. table[f] # n + 1
      <4>1. table[f] <= n - m
        BY <1>5 DEF TableOnce
      <4> HIDE DEF n, m
      <4> QED BY <1>1, <4>1
    <3> QED BY <1>3, <2>1, <3>1
  <2> QED BY <1>2, <1>5, <2>1 DEF TableOnce
<1> QED BY <1>5, <1>6, <1>7

\* Accept() takes the oldest connection of the backlog.
LEMMA AcceptKeepsOrder ==
  ASSUME TypeOK, BacklogIsTail, TableOnce, backlog # << >>, Accept
  PROVE  /\ BacklogIsTail' /\ TableOnce' /\ OldConns' = OldConns + 1
         /\ Head(backlog) = OldConns + 1
<1> DEFINE n == Len(conn)
           m == Len(backlog)
<1>1. n \in Nat /\ m \in Nat /\ m <= n /\ \A i \in 1 .. m : backlog[i] = (n - m) + i
  BY Lengths DEF BacklogIsTail, OldConns
<1>2. PICK f \in 0 .. MaxFd, c \in Conns : table' = [table EXCEPT ![f] = c] /\ Head(backlog) = c
  BY AcceptEffect
<1>3. UNCHANGED conn /\ backlog' = Tail(backlog)
  BY DEF Accept
<1>4. m # 0 /\ Len(backlog') = m - 1 /\ \A i \in 1 .. m - 1 : backlog'[i] = backlog[i + 1]
  <2>1. m # 0
    BY EmptySeq DEF TypeOK
  <2>2. /\ Len(Tail(backlog)) = m - 1
        /\ \A i \in 1 .. Len(Tail(backlog)) : Tail(backlog)[i] = backlog[i + 1]
    BY HeadTailProperties DEF TypeOK
  <2> HIDE DEF m
  <2> QED BY <1>3, <2>1, <2>2
<1>5. c = (n - m) + 1
  <2>1. Head(backlog) = backlog[1]
    BY DEF TypeOK
  <2>2. 1 \in 1 .. m
    BY <1>1, <1>4
  <2> QED BY <1>1, <1>2, <2>1, <2>2
<1>6. OldConns = n - m /\ OldConns' = (n - m) + 1
  <2>1. OldConns' = n - (m - 1)
    BY <1>3, <1>4 DEF OldConns
  <2>2. n - (m - 1) = (n - m) + 1
    BY <1>1
  <2> HIDE DEF n, m
  <2> QED BY <2>1, <2>2 DEF OldConns, n, m
<1> DEFINE old == n - m
<1>7. old \in Nat
  BY <1>1
<1>8. BacklogIsTail'
  <2>1. ASSUME NEW i \in 1 .. m - 1 PROVE backlog'[i] = (old + 1) + i
    <3> HIDE DEF n, m
    <3>1. i + 1 \in 1 .. m /\ (n - m) + (i + 1) = ((n - m) + 1) + i
      BY <1>1, <1>4
    <3> QED BY <1>1, <1>4, <3>1
  <2>2. m - 1 <= n
    BY <1>1
  <2>3. Len(backlog') = m - 1 /\ Len(conn') = n /\ OldConns' = old + 1
    BY <1>3, <1>4, <1>6
  <2> HIDE DEF n, m, old
  <2> QED BY <2>1, <2>2, <2>3 DEF BacklogIsTail
<1>9. TableOnce'
  <2>1. \A g \in 0 .. MaxFd : table'[g] = IF g = f THEN c ELSE table[g]
    BY <1>2 DEF TypeOK
  <2>2. \A g \in 0 .. MaxFd : table[g] \in Int /\ table[g] <= old
    BY <1>6, BoundsAssumption DEF TypeOK, TableOnce
  <2>3. c = old + 1 /\ OldConns' = old + 1 /\ Conns' = Conns
    BY <1>3, <1>5, <1>6 DEF Conns
  <2>4. \A g \in 0 .. MaxFd : table'[g] <= OldConns'
    <3> HIDE DEF old
    <3> QED BY <1>7, <2>1, <2>2, <2>3
  <2>5. \A g \in 0 .. MaxFd : table[g] # c
    <3> HIDE DEF old
    <3> QED BY <1>7, <2>2, <2>3
  <2> QED BY <2>1, <2>3, <2>4, <2>5 DEF TableOnce
<1> QED BY <1>2, <1>5, <1>6, <1>8, <1>9

\* A change of one connection adds none.
LEMMA SameLength ==
  ASSUME TypeOK, TypeOK', DOMAIN conn' = DOMAIN conn
  PROVE  Len(conn') = Len(conn)
<1> DEFINE n == Len(conn)
           m == Len(conn')
<1>1. n \in Nat /\ m \in Nat /\ 1 .. m = 1 .. n
  BY LenProperties DEF TypeOK
<1> HIDE DEF n, m
<1>2. ~(n < m)
  <2> SUFFICES ASSUME n < m PROVE FALSE
    OBVIOUS
  <2>1. m \in 1 .. m /\ m \notin 1 .. n
    BY <1>1
  <2> QED BY <1>1, <2>1
<1>3. ~(m < n)
  <2> SUFFICES ASSUME m < n PROVE FALSE
    OBVIOUS
  <2>1. n \in 1 .. n /\ n \notin 1 .. m
    BY <1>1
  <2> QED BY <1>1, <2>1
<1> QED BY <1>1, <1>2, <1>3 DEF n, m

\* What every step but that of accept() and a new connection has in common.
QuietStep ==
    /\ UNCHANGED backlog /\ DOMAIN conn' = DOMAIN conn
    /\ \A f \in 0 .. MaxFd : table'[f] \in {Free, table[f]}

\* Each step is one of those, or a new connection, or accept().
LEMMA KindsOfSteps ==
  ASSUME [Next]_vars
  PROVE  Accept \/ QuietStep \/ \E h \in Hosts : Connect(h)
<1>1. CASE UNCHANGED vars
  BY <1>1 DEF vars, env, server, QuietStep
<1>2. CASE Environment
  BY <1>2 DEF Environment, PeerSend, PeerEnd, UdpArrive, SigInt, server, QuietStep
<1>3. CASE Select \/ Stop \/ AcceptFails
  BY <1>3 DEF Select, Stop, AcceptFails, env, QuietStep
<1>4. CASE \E h \in Hosts, n \in 1 .. 2, kind \in Kinds : RecvData(h, n, kind)
  BY <1>4 DEF RecvData, QuietStep
<1>5. CASE \E h \in Hosts : RecvEof(h) \/ RecvError(h)
  BY <1>5 DEF RecvEof, RecvError, Remove, Closing, env, QuietStep
<1>6. CASE \E d \in udpQueue : HandleDatagram(d)
  BY <1>6 DEF HandleDatagram, QuietStep
<1>7. CASE Destroy
  BY <1>7 DEF Destroy, Closing, env, QuietStep
<1> QED BY <1>1, <1>2, <1>3, <1>4, <1>5, <1>6, <1>7 DEF Next, Server

\* Every step keeps the order of the connections.
LEMMA NextHistInv == HistInv /\ [Next]_vars => HistInv'
<1> SUFFICES ASSUME HistInv, [Next]_vars PROVE HistInv'
  OBVIOUS
<1>1. IInv /\ TypeOK /\ BacklogIsTail /\ TableOnce
  BY DEF HistInv, IInv
<1>2. IInv' /\ TypeOK'
  BY <1>1, ServerIInv, EnvironmentIInv, StutterIInv DEF Next, IInv
<1>3. CASE Accept
  <2>1. backlog # << >>
    BY <1>1, <1>3 DEF Accept, AtMaster, IInv, ReadyStays
  <2> QED BY <1>1, <1>2, <1>3, <2>1, AcceptKeepsOrder DEF HistInv
<1>4. CASE QuietStep
  <2>1. Len(conn') = Len(conn)
    BY <1>1, <1>2, <1>4, SameLength DEF QuietStep
  <2> QED BY <1>1, <1>2, <1>4, <2>1, ClosingKeepsOrder DEF HistInv, QuietStep
<1>5. CASE \E h \in Hosts : Connect(h)
  BY <1>1, <1>2, <1>5, ConnectKeepsOrder DEF HistInv
<1> QED BY <1>3, <1>4, <1>5, KindsOfSteps

\* The invariant, with the order of the connections.
THEOREM OrderInvariant == Spec => []HistInv
BY InitHistInv, NextHistInv, PTL DEF Spec

-----------------------------------------------------------------------------
(* Who loses its record. *)

\* The records that have a descriptor keep it.
OwnersKept ==
    /\ \A h \in Known : FdOf(h) # NoFd => h \in Known' /\ clients'[h].fd = clients[h].fd
    /\ UNCHANGED table

\* Then the connections that have a record keep it, and no descriptor is opened.
LEMMA OwnedKept ==
  ASSUME OwnersKept, NEW c
  PROVE  (Owned(c) => Owned(c)') /\ (InTable(c)' <=> InTable(c))
BY DEF OwnersKept, Owned, InTable, FdOf

\* Removing a record is that of its own connection.
LEMMA RemoveOwned ==
  ASSUME TypeOK, OwnFd, NEW h \in Known, Remove(h), NEW c, Owned(c), ~Owned(c)'
  PROVE  FdOf(h) # NoFd /\ c = table[FdOf(h)]
<1>1. ClientsTypeOK /\ TableTypeOK /\ h \in Hosts
  BY TypeParts DEF ClientsTypeOK
<1>2. /\ Known' = Known \ {h} /\ \A k \in Known' : clients'[k] = clients[k]
      /\ \A f \in 0 .. MaxFd : table'[f] = IF f = FdOf(h) THEN Free ELSE table[f]
  BY <1>1, RemoveProperties
<1>3. PICK k \in Known : FdOf(k) # NoFd /\ table[FdOf(k)] = c
  BY DEF Owned
<1>4. CASE k = h
  BY <1>3, <1>4
<1>5. CASE k # h
  <2>1. FdOf(k) \in 0 .. MaxFd /\ FdOf(k) # FdOf(h)
    BY <1>3, <1>5, OwnedFd, DistinctFds
  <2>2. k \in Known' /\ FdOf(k)' = FdOf(k) /\ table'[FdOf(k)] = c
    BY <1>2, <1>3, <1>5, <2>1 DEF FdOf
  <2> QED BY <1>3, <2>2 DEF Owned
<1> QED BY <1>4, <1>5

\* Accept() takes the record of no other host.
LEMMA AcceptOwned ==
  ASSUME TypeOK, OwnFd, BacklogIsTail, TableOnce, backlog # << >>, Accept,
         NEW c \in Conns, Owned(c), ~Owned(c)'
  PROVE  Head(backlog) \in Conns /\ conn[Head(backlog)].host = conn[c].host
<1>1. PICK f \in 0 .. MaxFd, b \in Conns :
        /\ table[f] = Free /\ table' = [table EXCEPT ![f] = b]
        /\ Head(backlog) = b
        /\ Known' = Known \cup {conn[b].host}
        /\ \A k \in Known' : clients'[k].fd = IF k = conn[b].host THEN f ELSE clients[k].fd
  BY AcceptEffect
<1>2. PICK k \in Known : FdOf(k) # NoFd /\ table[FdOf(k)] = c
  BY DEF Owned
<1>3. /\ FdOf(k) \in 0 .. MaxFd /\ table[FdOf(k)] # Free
      /\ conn[table[FdOf(k)]].host = k
  BY <1>2, OwnedFd
<1>4. k = conn[b].host
  <2> SUFFICES ASSUME k # conn[b].host PROVE FALSE
    OBVIOUS
  <2>1. k \in Known' /\ FdOf(k)' = FdOf(k) /\ table'[FdOf(k)] = table[FdOf(k)]
    BY <1>1, <1>3 DEF FdOf, TypeOK
  <2> QED BY <1>2, <2>1 DEF Owned
<1> QED BY <1>1, <1>2, <1>3, <1>4

-----------------------------------------------------------------------------
\* The reasons for which NoEviction lets c lose its record.
LostWithReason(c) ==
    \/ conn[c].peer = "closed" /\ conn[c].read = conn[c].sent
    \/ conn[c].peer = "reset"
    \/ \E b \in Conns : InBacklog(b) /\ ~InBacklog(b)' /\ conn[b].host = conn[c].host
    \/ acceptFailed'
    \/ pc = "stopped"

\* The steps that take no descriptor from a record, or leave one of the reasons.
LEMMA KeepingSteps ==
  ASSUME TypeOK, [Next]_vars
  PROVE  \/ OwnersKept
         \/ \E h \in Hosts : RecvEof(h) \/ RecvError(h)
         \/ Accept
         \/ acceptFailed'
         \/ pc = "stopped" /\ Destroy
<1>1. CASE UNCHANGED vars
  BY <1>1 DEF vars, server, OwnersKept, Known
<1>2. CASE Environment
  BY <1>2 DEF Environment, Connect, PeerSend, PeerEnd, UdpArrive, SigInt, server, OwnersKept,
              Known
<1>3. CASE Select \/ Stop
  BY <1>3 DEF Select, Stop, OwnersKept, Known
<1>4. CASE \E h \in Hosts, n \in 1 .. 2, kind \in Kinds : RecvData(h, n, kind)
  BY <1>4, RecvDataTypeOK DEF FdsKept, OwnersKept
<1>5. CASE AcceptFails
  BY <1>5 DEF AcceptFails
<1>6. CASE \E d \in udpQueue : HandleDatagram(d)
  <2>1. PICK d \in udpQueue : HandleDatagram(d)
    BY <1>6
  <2>2. UNCHANGED table
    BY <2>1 DEF HandleDatagram
  <2> QED BY <2>1, <2>2, HandleDatagramTypeOK DEF OwnersKept
<1>7. CASE Destroy
  BY <1>7 DEF Destroy
<1> QED BY <1>1, <1>2, <1>3, <1>4, <1>5, <1>6, <1>7 DEF Next, Server

\* Each step takes the record of a connection for one of the reasons only.
LEMMA NextNoEviction ==
  ASSUME HistInv, [Next]_vars, NEW c \in Conns, Owned(c), ~Owned(c)'
  PROVE  LostWithReason(c)
<1>1. TypeOK /\ OwnFd /\ BacklogIsTail /\ TableOnce
  BY DEF HistInv, IInv
<1>2. CASE OwnersKept
  BY <1>2, OwnedKept
<1>3. CASE \E h \in Hosts : RecvEof(h) \/ RecvError(h)
  <2>1. PICK h \in Hosts : RecvEof(h) \/ RecvError(h)
    BY <1>3
  <2>2. h \in Known /\ Remove(h)
    BY <1>1, <2>1, TypeParts DEF RecvEof, RecvError, AtRecv, RestTypeOK
  <2>3. FdOf(h) # NoFd /\ c = table[FdOf(h)]
    BY <1>1, <2>2, RemoveOwned
  <2>4. Connected(h) /\ ConnOf(h) = c
    BY <2>3 DEF Connected, ConnOf
  <2> QED BY <2>1, <2>4 DEF RecvEof, RecvError, LostWithReason
<1>4. CASE Accept
  <2>1. backlog # << >>
    BY <1>4 DEF Accept, AtMaster, HistInv, IInv, ReadyStays
  <2>2. PICK b \in Conns : b = Head(backlog) /\ conn[b].host = conn[c].host
    BY <1>1, <1>4, <2>1, AcceptOwned
  <2>3. /\ BacklogIsTail' /\ OldConns' = OldConns + 1 /\ b = OldConns + 1
        /\ TypeOK' /\ Conns' = Conns /\ OldConns \in Int
    <3>1. UNCHANGED conn
      BY <1>4 DEF Accept
    <3> QED BY <1>1, <1>4, <2>1, <2>2, <3>1, AcceptKeepsOrder, AcceptTypeOK, Lengths DEF Conns
  <2>4. OldConns < b /\ ~(OldConns' < b)
    BY <2>3
  <2>5. InBacklog(b)
    BY <1>1, <2>2, <2>4, BacklogMeans
  <2>6. ~InBacklog(b)'
    BY <2>2, <2>3, <2>4, BacklogMeansNext
  <2> QED BY <2>2, <2>5, <2>6 DEF LostWithReason
<1>5. CASE acceptFailed' \/ pc = "stopped"
  BY <1>5 DEF LostWithReason
<1> QED BY <1>1, <1>2, <1>3, <1>4, <1>5, KeepingSteps

\* A connection loses its record only when it has ended and was read to its end,
\* when it was reset, when its host connects again, when accept() fails, or when
\* the server stops: hash_delete() and the new descriptor in
\* minimote_server_handle_tcp_ready() never hit the record of another host.
THEOREM NoUnjustEviction == Spec => NoEviction
<1>1. HistInv /\ [Next]_vars =>
        [\A c \in Conns : Owned(c) /\ ~Owned(c)' =>
          \/ conn[c].peer = "closed" /\ conn[c].read = conn[c].sent
          \/ conn[c].peer = "reset"
          \/ \E b \in Conns : InBacklog(b) /\ ~InBacklog(b)' /\ conn[b].host = conn[c].host
          \/ acceptFailed'
          \/ pc = "stopped"]_vars
  BY NextNoEviction DEF LostWithReason
<1> QED BY <1>1, OrderInvariant, PTL DEF Spec, NoEviction

-----------------------------------------------------------------------------
(* What stays open without a record. *)

LeakInv == HistInv /\ LeakOnlyByReconnect

\* No connection changes its host, and a failure of accept() is not forgotten.
LEMMA Lasting ==
  ASSUME TypeOK, [Next]_vars
  PROVE  ConnsKept /\ (acceptFailed => acceptFailed')
<1>1. UNCHANGED conn => ConnsKept
  BY Lengths DEF ConnsKept
<1>2. CASE UNCHANGED vars
  BY <1>1, <1>2 DEF vars, env, history
<1>3. CASE Environment
  <2>1. UNCHANGED acceptFailed
    BY <1>3 DEF Environment, Connect, PeerSend, PeerEnd, UdpArrive, SigInt, history
  <2> QED BY <1>3, <2>1, EnvironmentTypeOK
<1>4. CASE Select \/ Stop \/ AcceptFails \/ Accept \/ Destroy
  BY <1>1, <1>4 DEF Select, Stop, AcceptFails, Accept, Destroy, env, history
<1>5. CASE \E h \in Hosts, n \in 1 .. 2, kind \in Kinds : RecvData(h, n, kind)
  <2>1. UNCHANGED acceptFailed
    BY <1>5 DEF RecvData
  <2> QED BY <1>5, <2>1, RecvDataTypeOK
<1>6. CASE \E h \in Hosts : RecvEof(h) \/ RecvError(h)
  BY <1>1, <1>6 DEF RecvEof, RecvError, env, history
<1>7. CASE \E d \in udpQueue : HandleDatagram(d)
  BY <1>1, <1>7 DEF HandleDatagram
<1> QED BY <1>2, <1>3, <1>4, <1>5, <1>6, <1>7 DEF Next, Server

\* Only accept() takes a connection off the backlog.
LEMMA OldConnsGrow ==
  ASSUME HistInv, [Next]_vars
  PROVE  /\ Accept => OldConns' = OldConns + 1
         /\ ~Accept => OldConns' = OldConns
<1>1. IInv /\ TypeOK /\ BacklogIsTail /\ TableOnce /\ TypeOK'
  BY NextHistInv DEF HistInv, IInv
<1>2. CASE Accept
  <2>1. backlog # << >>
    BY <1>1, <1>2 DEF Accept, AtMaster, IInv, ReadyStays
  <2> QED BY <1>1, <1>2, <2>1, AcceptKeepsOrder
<1>3. CASE ~Accept /\ QuietStep
  BY <1>1, <1>3, SameLength DEF QuietStep, OldConns
<1>4. CASE ~Accept /\ \E h \in Hosts : Connect(h)
  BY <1>1, <1>4, ConnectKeepsOrder
<1> QED BY <1>2, <1>3, <1>4, KindsOfSteps

\* A connection that was replaced stays so.
LEMMA ReplacedStays ==
  ASSUME HistInv, [Next]_vars, NEW c \in Conns, Replaced(c)
  PROVE  Replaced(c)'
<1>1. TypeOK /\ BacklogIsTail /\ TypeOK' /\ BacklogIsTail' /\ ConnsKept
  BY NextHistInv, Lasting DEF HistInv, IInv
<1>2. PICK b \in c + 1 .. Len(conn) : Accepted(b) /\ conn[b].host = conn[c].host
  BY DEF Replaced
<1>3. b \in Conns /\ ~(OldConns < b)
  BY <1>1, <1>2, BacklogMeans DEF Accepted
<1>4. Len(conn) \in Nat /\ OldConns \in Int /\ Len(conn') \in Nat /\ c \in Nat
  BY <1>1, Lengths, LenProperties DEF TypeOK, Conns
<1>5. b \in c + 1 .. Len(conn') /\ b \in Conns'
  BY <1>1, <1>2, <1>3, <1>4 DEF ConnsKept, Conns
<1>6. ~(OldConns' < b)
  <2>1. OldConns' = OldConns \/ OldConns' = OldConns + 1
    BY OldConnsGrow
  <2>2. b \in Nat
    BY <1>3 DEF Conns
  <2> QED BY <1>3, <1>4, <2>1, <2>2
<1>7. Accepted(b)'
  BY <1>1, <1>5, <1>6, BacklogMeansNext DEF Accepted
<1>8. conn'[b].host = conn'[c].host
  BY <1>1, <1>2, <1>3 DEF ConnsKept
<1> QED BY <1>5, <1>7, <1>8 DEF Replaced

\* Closing the only descriptor of a connection takes it out of the table.
LEMMA ClosedIsOut ==
  ASSUME TypeOK, TableOnce, NEW f \in 0 .. MaxFd, NEW c \in Conns, table[f] = c,
         \A g \in 0 .. MaxFd : table'[g] \in {Free, table[g]}, table'[f] = Free
  PROVE  ~InTable(c)'
<1>1. c # Free
  BY Lengths DEF Conns, Free
<1> QED BY <1>1 DEF TableOnce, InTable

\* A record that is removed, or all of them at the end, leave no descriptor open.
LEMMA RemovedIsClosed ==
  ASSUME HistInv, NEW c \in Conns, Owned(c), ~Owned(c)',
         Destroy \/ \E h \in Hosts : RecvEof(h) \/ RecvError(h)
  PROVE  ~InTable(c)'
<1>1. TypeOK /\ OwnFd /\ TableOnce
  BY DEF HistInv, IInv
<1>2. CASE Destroy
  <2>1. PICK h \in Known : FdOf(h) # NoFd /\ table[FdOf(h)] = c
    BY DEF Owned
  <2>2. FdOf(h) \in 0 .. MaxFd
    BY <1>1, <2>1, OwnedFd
  <2>3. /\ \A g \in 0 .. MaxFd : table'[g] \in {Free, table[g]}
        /\ table'[FdOf(h)] = Free
    BY <1>2, <2>2 DEF Destroy, Closing
  <2> QED BY <1>1, <2>1, <2>2, <2>3, ClosedIsOut
<1>3. CASE \E h \in Hosts : RecvEof(h) \/ RecvError(h)
  <2>1. PICK h \in Hosts : RecvEof(h) \/ RecvError(h)
    BY <1>3
  <2>2. h \in Known /\ Remove(h)
    BY <1>1, <2>1, TypeParts DEF RecvEof, RecvError, AtRecv, RestTypeOK
  <2>3. FdOf(h) # NoFd /\ c = table[FdOf(h)]
    BY <1>1, <2>2, RemoveOwned
  <2>4. FdOf(h) \in 0 .. MaxFd
    BY <1>1, <2>2, <2>3, OwnedFd
  <2>5. /\ \A g \in 0 .. MaxFd : table'[g] \in {Free, table[g]}
        /\ table'[FdOf(h)] = Free
    BY <2>2, <2>4 DEF Remove, Closing
  <2> QED BY <1>1, <2>3, <2>4, <2>5, ClosedIsOut
<1> QED BY <1>2, <1>3

\* What Accept() leaves without a record was replaced.
LEMMA AcceptReplaces ==
  ASSUME HistInv, [Next]_vars, Accept, NEW c \in Conns, InTable(c)', ~Owned(c)'
  PROVE  InTable(c) /\ (Owned(c) => Replaced(c)')
<1>1. TypeOK /\ OwnFd /\ BacklogIsTail /\ TableOnce /\ BacklogIsTail' /\ TypeOK'
  BY NextHistInv DEF HistInv, IInv
<1>2. backlog # << >>
  BY DEF Accept, AtMaster, HistInv, IInv, ReadyStays
<1>3. PICK f \in 0 .. MaxFd, b \in Conns :
        /\ table' = [table EXCEPT ![f] = b] /\ Head(backlog) = b
        /\ Known' = Known \cup {conn[b].host}
        /\ \A k \in Known' : clients'[k].fd = IF k = conn[b].host THEN f ELSE clients[k].fd
  BY <1>1, <1>2, AcceptEffect
<1>4. table'[f] = b /\ f # NoFd /\ \A g \in 0 .. MaxFd : g # f => table'[g] = table[g]
  BY <1>1, <1>3, BoundsAssumption DEF TypeOK, NoFd
<1>5. Owned(b)'
  <2>1. conn[b].host \in Known' /\ clients'[conn[b].host].fd = f
    BY <1>3
  <2> QED BY <1>4, <2>1 DEF Owned, FdOf
<1>6. PICK g \in 0 .. MaxFd : table[g] = c
  BY <1>4, <1>5 DEF InTable
<1>7. InTable(c)
  BY <1>6 DEF InTable
<1>8. ASSUME Owned(c) PROVE Replaced(c)'
  <2>1. conn[b].host = conn[c].host
    BY <1>1, <1>2, <1>3, <1>8, AcceptOwned
  <2>2. b = OldConns + 1 /\ OldConns' = OldConns + 1 /\ c <= OldConns /\ OldConns \in Int
    BY <1>1, <1>2, <1>3, <1>6, AcceptKeepsOrder, Lengths DEF TableOnce
  <2>3. UNCHANGED conn /\ Conns' = Conns
    BY DEF Accept, Conns
  <2>4. ~(OldConns' < b) /\ c + 1 <= b /\ b \in Nat /\ c \in Nat
    BY <2>2 DEF Conns
  <2>5. Accepted(b)'
    BY <1>1, <2>3, <2>4, BacklogMeansNext DEF Accepted
  <2>6. b \in c + 1 .. Len(conn')
    BY <1>1, <2>3, <2>4, Lengths DEF Conns
  <2> QED BY <2>1, <2>3, <2>5, <2>6 DEF Replaced
<1> QED BY <1>7, <1>8

\* Nothing has been accepted at the start.
LEMMA InitLeakInv == Init => LeakInv
<1> SUFFICES ASSUME Init PROVE LeakInv
  OBVIOUS
<1>1. Conns = {}
  BY EmptySeq DEF Init, Conns
<1> QED BY <1>1, InitHistInv DEF LeakInv, LeakOnlyByReconnect

\* A step that leaves a connection open without a record is an accept() that
\* replaces it, or one that fails.
LEMMA NextLeakInv == LeakInv /\ [Next]_vars => LeakInv'
<1> SUFFICES ASSUME LeakInv, [Next]_vars PROVE LeakInv'
  OBVIOUS
<1>1. HistInv /\ TypeOK /\ HistInv' /\ TypeOK' /\ TableOnce /\ TableOnce'
  BY NextHistInv DEF LeakInv, HistInv, IInv
<1>2. ASSUME NEW c \in Conns', InTable(c)', ~Owned(c)', ~acceptFailed' PROVE Replaced(c)'
  <2>1. ~acceptFailed
    BY <1>1, <1>2, Lasting
  <2>2. c \in Conns
    <3>1. c <= OldConns' /\ c \in Nat /\ 1 <= c
      BY <1>1, <1>2 DEF InTable, TableOnce, Conns
    <3>2. CASE Accept
      BY <1>2, <3>2 DEF Accept, Conns
    <3>3. CASE ~Accept
      <4>1. OldConns' = OldConns
        BY <1>1, <3>3, OldConnsGrow
      <4>2. c <= Len(conn) - Len(backlog) /\ Len(conn) \in Nat /\ Len(backlog) \in Nat
        BY <1>1, <3>1, <4>1, Lengths DEF OldConns
      <4>3. c <= Len(conn)
        BY <3>1, <4>2
      <4> QED BY <3>1, <4>2, <4>3 DEF Conns
    <3> QED BY <3>2, <3>3
  <2>3. CASE InTable(c) /\ ~Owned(c)
    <3>1. Replaced(c)
      BY <2>1, <2>2, <2>3 DEF LeakInv, LeakOnlyByReconnect
    <3> QED BY <1>1, <2>2, <3>1, ReplacedStays
  <2>4. CASE Accept
    BY <1>1, <1>2, <2>2, <2>3, <2>4, AcceptReplaces
  <2>5. CASE OwnersKept
    BY <1>2, <2>3, <2>5, OwnedKept
  <2>6. CASE Destroy \/ \E h \in Hosts : RecvEof(h) \/ RecvError(h)
    <3>1. InTable(c)
      <4>1. c # Free
        BY <1>1, <2>2, Lengths DEF Conns, Free
      <4>2. \A f \in 0 .. MaxFd : table'[f] \in {Free, table[f]}
        BY <2>6 DEF Destroy, RecvEof, RecvError, Remove, Closing
      <4> QED BY <1>2, <4>1, <4>2 DEF InTable
    <3>2. ~Owned(c)
      BY <1>1, <1>2, <2>2, <2>6, RemovedIsClosed
    <3> QED BY <2>3, <3>1, <3>2
  <2> QED BY <1>1, <1>2, <2>4, <2>5, <2>6, KeepingSteps
<1>3. LeakOnlyByReconnect'
  BY <1>2 DEF LeakOnlyByReconnect
<1> QED BY <1>1, <1>3 DEF LeakInv

\* A connection of the server that is open and belongs to no record was replaced by
\* a newer one of its host, unless accept() has failed: every other way out of the
\* hash, in clients_iterator_check_client_socket() and minimote_server_destroy(),
\* closes the socket.
THEOREM LeaksOnlyByReconnect == Spec => []LeakOnlyByReconnect
<1>1. LeakInv => LeakOnlyByReconnect
  BY DEF LeakInv
<1> QED BY <1>1, InitLeakInv, NextLeakInv, PTL DEF Spec

-----------------------------------------------------------------------------
(* What a record hands on as a packet. *)

\* A connection that has lost its record in the middle of a packet, and is still open.
GivenUp(b) == InTable(b) /\ ~Owned(b) /\ conn[b].read % 2 = 1

\* A connection of h, older than c, was given up so.
CutBefore(h, c) == \E b \in Conns : b < c /\ conn[b].host = h /\ GivenUp(b)

\* The connection of h, or the next one it may get.
Newest(h) == IF FdOf(h) = NoFd THEN OldConns + 1 ELSE ConnOf(h)

\* What the connection of h leaves in a buffer that has all of its tokens and no other.
Unread(h) ==
    IF FdOf(h) = NoFd \/ conn[ConnOf(h)].read % 2 = 0 THEN << >>
    ELSE << <<ConnOf(h), conn[ConnOf(h)].read>> >>

\* The buffer of h has tokens of h only, and those its connection was read up to,
\* unless an older connection has left half a packet in it.
OwnTokens(h) ==
    \A i \in 1 .. Len(clients[h].buf) :
        clients[h].buf[i][1] \in Conns /\ conn[clients[h].buf[i][1]].host = h
HostBuffer(h) ==
    OwnTokens(h) /\ (clients[h].buf = Unread(h) \/ CutBefore(h, Newest(h)))

BufferFollows == \A h \in Known : HostBuffer(h)

\* Nothing is read before it is accepted.
Fresh == \A c \in Conns : OldConns < c => conn[c].read = 0

PacketKnown ==
    packet # NoPacket => packet.tokens[1][1] \in Conns /\ packet.tokens[2][1] \in Conns

WholeInv == HistInv /\ BufferFollows /\ Fresh /\ PacketKnown /\ PacketsAreWhole

\* Only accept() opens descriptors and gives them to records; what is closed is the
\* descriptor of a record.
LEMMA NoGain ==
  ASSUME HistInv, [Next]_vars, ~Accept
  PROVE  /\ \A h \in Known' :
               clients'[h].fd = NoFd \/ (h \in Known /\ clients'[h].fd = clients[h].fd)
         /\ \A f \in 0 .. MaxFd :
               table'[f] = table[f] \/ (table'[f] = Free /\ \E h \in Known : f = FdOf(h))
<1>1. TypeOK /\ RestTypeOK /\ ClientsTypeOK /\ TableTypeOK
  BY TypeParts DEF HistInv, IInv
<1>2. CASE UNCHANGED vars
  BY <1>2 DEF vars, server, Known
<1>3. CASE Environment
  BY <1>3 DEF Environment, Connect, PeerSend, PeerEnd, UdpArrive, SigInt, server, Known
<1>4. CASE Select \/ Stop
  BY <1>4 DEF Select, Stop, Known
<1>5. CASE \E h \in Hosts, n \in 1 .. 2, kind \in Kinds : RecvData(h, n, kind)
  BY <1>1, <1>5, RecvDataTypeOK DEF FdsKept
<1>6. CASE \E h \in Hosts : RecvEof(h) \/ RecvError(h)
  <2>1. PICK h \in Hosts : RecvEof(h) \/ RecvError(h)
    BY <1>6
  <2>2. h \in Known /\ Remove(h)
    BY <1>1, <2>1 DEF RecvEof, RecvError, AtRecv, RestTypeOK
  <2>3. /\ Known' = Known \ {h} /\ \A k \in Known' : clients'[k] = clients[k]
        /\ \A f \in 0 .. MaxFd : table'[f] = IF f = FdOf(h) THEN Free ELSE table[f]
    BY <1>1, <2>2, RemoveProperties
  <2> QED BY <2>2, <2>3
<1>7. CASE AcceptFails
  BY <1>1, <1>7, AcceptFailsTypeOK DEF FdsKeptOrNone
<1>8. CASE \E d \in udpQueue : HandleDatagram(d)
  BY <1>1, <1>8, HandleDatagramTypeOK DEF FdsKeptOrNone
<1>9. CASE Destroy
  <2>1. Known' = {}
    BY <1>9 DEF Destroy, Known
  <2>2. \A f \in 0 .. MaxFd : table'[f] = IF f \in {FdOf(h) : h \in Known} THEN Free ELSE table[f]
    BY <1>9 DEF Destroy, Closing
  <2> QED BY <2>1, <2>2
<1> QED BY <1>2, <1>3, <1>4, <1>5, <1>6, <1>7, <1>8, <1>9 DEF Next, Server

\* A descriptor without a record stays open, and gets none.
LEMMA LeakStays ==
  ASSUME HistInv, [Next]_vars, NEW c \in Conns, InTable(c), ~Owned(c)
  PROVE  InTable(c)' /\ ~Owned(c)'
<1>1. TypeOK /\ OwnFd /\ BacklogIsTail /\ TableOnce /\ TypeOK' /\ OwnFd'
  BY NextHistInv DEF HistInv, IInv
<1>2. PICK f \in 0 .. MaxFd : table[f] = c
  BY DEF InTable
<1>3. c # Free /\ c <= OldConns /\ OldConns \in Int /\ f # NoFd
  BY <1>1, <1>2, Lengths, BoundsAssumption DEF TableOnce, Conns, Free, NoFd
<1>4. CASE ~Accept
  <2>1. /\ \A h \in Known' :
              clients'[h].fd = NoFd \/ (h \in Known /\ clients'[h].fd = clients[h].fd)
        /\ \A g \in 0 .. MaxFd :
              table'[g] = table[g] \/ (table'[g] = Free /\ \E h \in Known : g = FdOf(h))
    BY <1>4, NoGain
  <2>2. table'[f] = c
    BY <1>2, <1>3, <2>1 DEF Owned
  <2>3. ASSUME NEW h \in Known', FdOf(h)' # NoFd, table'[FdOf(h)'] = c PROVE FALSE
    <3>1. h \in Known /\ FdOf(h)' = FdOf(h) /\ FdOf(h) # NoFd
      BY <2>1, <2>3 DEF FdOf
    <3>2. FdOf(h) \in 0 .. MaxFd
      BY <1>1, <3>1, OwnedFd
    <3>3. table[FdOf(h)] = c
      BY <1>3, <2>1, <2>3, <3>1, <3>2
    <3> QED BY <3>1, <3>3 DEF Owned
  <2> QED BY <2>2, <2>3 DEF InTable, Owned
<1>5. CASE Accept
  <2>1. backlog # << >>
    BY <1>5 DEF Accept, AtMaster, HistInv, IInv, ReadyStays
  <2>2. PICK g \in 0 .. MaxFd, b \in Conns :
          /\ table[g] = Free /\ table' = [table EXCEPT ![g] = b] /\ Head(backlog) = b
          /\ Known' = Known \cup {conn[b].host}
          /\ \A k \in Known' : clients'[k].fd = IF k = conn[b].host THEN g ELSE clients[k].fd
    BY <1>1, <1>5, <2>1, AcceptEffect
  <2>3. b # c
    BY <1>1, <1>3, <1>5, <2>1, <2>2, AcceptKeepsOrder
  <2>4. \A e \in 0 .. MaxFd : table'[e] = IF e = g THEN b ELSE table[e]
    BY <1>1, <2>2 DEF TypeOK
  <2>5. table'[f] = c
    BY <1>2, <1>3, <2>2, <2>4
  <2>6. ASSUME NEW h \in Known', FdOf(h)' # NoFd, table'[FdOf(h)'] = c PROVE FALSE
    <3>1. CASE h = conn[b].host
      <4>1. FdOf(h)' = g
        BY <2>2, <3>1 DEF FdOf
      <4> QED BY <2>3, <2>4, <2>6, <4>1
    <3>2. CASE h # conn[b].host
      <4>1. h \in Known /\ FdOf(h)' = FdOf(h) /\ FdOf(h) # NoFd
        BY <2>2, <2>6, <3>2 DEF FdOf
      <4>2. FdOf(h) \in 0 .. MaxFd /\ table[FdOf(h)] # Free
        BY <1>1, <4>1, OwnedFd
      <4>3. table[FdOf(h)] = c
        BY <2>2, <2>4, <2>6, <4>1, <4>2
      <4> QED BY <4>1, <4>3 DEF Owned
    <3> QED BY <3>1, <3>2
  <2> QED BY <2>5, <2>6 DEF InTable, Owned
<1> QED BY <1>4, <1>5

\* Only the server reads, and only from the connection of a record.
LEMMA ReadsKept ==
  ASSUME TypeOK, [Next]_vars, NEW c \in Conns
  PROVE  \/ conn'[c].read = conn[c].read
         \/ \E h \in Hosts, n \in 1 .. 2, kind \in Kinds :
               RecvData(h, n, kind) /\ c = ConnOf(h)
<1>1. ConnTypeOK
  BY TypeParts
<1>2. conn \in [Conns -> Connections] /\ conn[c] \in Connections
  BY <1>1, ConnRecord, LenProperties DEF ConnTypeOK, Conns
<1>3. UNCHANGED conn => conn'[c].read = conn[c].read
  OBVIOUS
<1>4. CASE Environment
  <2>1. ASSUME NEW h \in Hosts, Connect(h) PROVE conn'[c] = conn[c]
    <3> DEFINE r == [host |-> h, peer |-> "open", sent |-> 0, read |-> 0]
    <3>1. r \in Connections /\ conn' = Append(conn, r) /\ Len(conn) < MaxConns
      BY <2>1, BoundsAssumption DEF Connect, Connections
    <3> HIDE DEF r
    <3> QED BY <1>1, <3>1, ConnAppend
  <2>2. ASSUME NEW d \in Conns, PeerSend(d) \/ \E end \in {"closed", "reset"} : PeerEnd(d, end)
        PROVE  conn'[c].read = conn[c].read
    <3>1. CASE PeerSend(d)
      <4>1. conn' = [conn EXCEPT ![d].sent = @ + 1]
        BY <3>1 DEF PeerSend
      <4> QED BY <1>2, <4>1 DEF Connections
    <3>2. CASE \E end \in {"closed", "reset"} : PeerEnd(d, end)
      <4>1. PICK end : conn' = [conn EXCEPT ![d].peer = end]
        BY <3>2 DEF PeerEnd
      <4> QED BY <1>2, <4>1 DEF Connections
    <3> QED BY <2>2, <3>1, <3>2
  <2>3. CASE (\E d \in Datagrams : UdpArrive(d)) \/ SigInt
    BY <1>3, <2>3 DEF UdpArrive, SigInt
  <2> QED BY <1>4, <2>1, <2>2, <2>3 DEF Environment
<1>5. ASSUME NEW h \in Hosts, NEW n \in 1 .. 2, NEW kind \in Kinds, RecvData(h, n, kind),
             c # ConnOf(h)
      PROVE  conn'[c].read = conn[c].read
  <2>1. conn' = [conn EXCEPT ![ConnOf(h)].read = @ + n]
    BY <1>5 DEF RecvData
  <2>2. conn'[c] = conn[c]
    BY <1>2, <1>5, <2>1
  <2> QED BY <2>2
<1>6. CASE UNCHANGED vars \/ Select \/ Stop \/ Accept \/ AcceptFails \/ Destroy
  BY <1>3, <1>6 DEF vars, env, Select, Stop, Accept, AcceptFails, Destroy
<1>7. CASE \E h \in Hosts : RecvEof(h) \/ RecvError(h)
  BY <1>3, <1>7 DEF RecvEof, RecvError, env
<1>8. CASE \E d \in udpQueue : HandleDatagram(d)
  BY <1>3, <1>8 DEF HandleDatagram
<1> QED BY <1>4, <1>5, <1>6, <1>7, <1>8 DEF Next, Server

\* What is given up stays so.
LEMMA GivenUpStays ==
  ASSUME HistInv, [Next]_vars, NEW b \in Conns, GivenUp(b)
  PROVE  b \in Conns' /\ GivenUp(b)' /\ conn'[b].host = conn[b].host /\ b <= OldConns
<1>1. TypeOK /\ TypeOK' /\ TableOnce /\ OwnFd
  BY NextHistInv DEF HistInv, IInv
<1>2. ConnsKept /\ b \in Conns'
  BY <1>1, Lasting, Lengths, LenProperties DEF ConnsKept, Conns, TypeOK
<1>3. InTable(b)' /\ ~Owned(b)'
  BY LeakStays DEF GivenUp
<1>4. conn'[b].read = conn[b].read
  <2>1. ASSUME NEW h \in Hosts, NEW n \in 1 .. 2, NEW kind \in Kinds, RecvData(h, n, kind),
               b = ConnOf(h)
        PROVE  FALSE
    <3>1. h \in Known /\ FdOf(h) # NoFd
      BY <1>1, <2>1 DEF RecvData, AtRecv, Connected, TypeOK
    <3> QED BY <2>1, <3>1 DEF GivenUp, Owned, ConnOf
  <2> QED BY <1>1, <2>1, ReadsKept
<1> QED BY <1>1, <1>2, <1>3, <1>4 DEF GivenUp, ConnsKept, InTable, TableOnce

\* So a host whose packets were cut once has that mark for ever.
LEMMA CutStays ==
  ASSUME HistInv, [Next]_vars, NEW h, NEW c \in Int, NEW d \in Int, CutBefore(h, c), c <= d
  PROVE  CutBefore(h, d)'
<1>1. PICK b \in Conns : b < c /\ conn[b].host = h /\ GivenUp(b)
  BY DEF CutBefore
<1>2. b \in Conns' /\ GivenUp(b)' /\ conn'[b].host = h
  BY <1>1, GivenUpStays
<1>3. b < d
  BY <1>1 DEF Conns
<1> QED BY <1>2, <1>3 DEF CutBefore

\* The connection of a record, or the next one, is not newer than what is accepted next.
LEMMA NewestType ==
  ASSUME TypeOK, OwnFd, BacklogIsTail, TableOnce, NEW h \in Known
  PROVE  Newest(h) \in Int /\ Newest(h) <= OldConns + 1 /\ OldConns \in Int
<1>1. OldConns \in Int
  BY Lengths
<1>2. FdOf(h) # NoFd => ConnOf(h) \in Int /\ ConnOf(h) <= OldConns
  BY OwnedFd DEF ConnOf, TableOnce, Conns
<1> QED BY <1>1, <1>2 DEF Newest

\* A record that has nothing of its connection in its buffer, or was cut.
LEMMA HostBufferParts ==
  ASSUME NEW h, clients'[h].buf = clients[h].buf, OwnTokens(h), ConnsKept, Conns \subseteq Conns'
  PROVE  OwnTokens(h)'
BY DEF OwnTokens, ConnsKept

\* A record that keeps its descriptor and its buffer, while its connection is not read.
LEMMA RecordKept ==
  ASSUME HistInv, [Next]_vars, NEW h \in Known, h \in Known', HostBuffer(h),
         clients'[h].fd = clients[h].fd, clients'[h].buf = clients[h].buf,
         FdOf(h) # NoFd => /\ table'[FdOf(h)] = table[FdOf(h)]
                           /\ conn'[ConnOf(h)].read = conn[ConnOf(h)].read
  PROVE  HostBuffer(h)'
<1>1. /\ HistInv' /\ TypeOK /\ OwnFd /\ BacklogIsTail /\ TableOnce /\ TypeOK'
      /\ ConnsKept
  BY NextHistInv, Lasting DEF HistInv, IInv
<1>2. Conns \subseteq Conns'
  BY <1>1, LenProperties DEF TypeOK, ConnsKept, Conns
<1>3. FdOf(h)' = FdOf(h) /\ (FdOf(h) # NoFd => ConnOf(h)' = ConnOf(h))
  BY DEF FdOf, ConnOf
<1>4. Unread(h)' = Unread(h)
  <2>1. CASE FdOf(h) = NoFd
    BY <1>3, <2>1 DEF Unread
  <2>2. CASE FdOf(h) # NoFd
    BY <1>3, <2>2 DEF Unread
  <2> QED BY <2>1, <2>2
<1>5. Newest(h) \in Int /\ Newest(h)' \in Int /\ Newest(h) <= Newest(h)'
  <2>1. Newest(h) \in Int /\ OldConns \in Int
    BY <1>1, NewestType
  <2>2. OldConns' = OldConns \/ OldConns' = OldConns + 1
    BY OldConnsGrow
  <2>3. Newest(h)' = IF FdOf(h) = NoFd THEN OldConns' + 1 ELSE ConnOf(h)
    BY <1>3 DEF Newest
  <2>4. Newest(h) = IF FdOf(h) = NoFd THEN OldConns + 1 ELSE ConnOf(h)
    BY DEF Newest
  <2> QED BY <2>1, <2>2, <2>3, <2>4
<1>6. ASSUME CutBefore(h, Newest(h)) PROVE CutBefore(h, Newest(h))'
  <2>1. PICK c \in Int, d \in Int : c = Newest(h) /\ d = Newest(h)'
    BY <1>5
  <2>2. CutBefore(h, c) /\ c <= d
    BY <1>5, <1>6, <2>1
  <2>3. CutBefore(h, d)'
    BY <2>2, CutStays
  <2> QED BY <2>1, <2>3 DEF CutBefore
<1>7. OwnTokens(h)'
  BY <1>1, <1>2, HostBufferParts DEF HostBuffer
<1> QED BY <1>4, <1>6, <1>7 DEF HostBuffer

\* A record that loses its connection, but not its buffer, to the next one or to none.
LEMMA RecordMoved ==
  ASSUME HistInv, [Next]_vars, NEW h \in Known, h \in Known', HostBuffer(h),
         clients'[h].buf = clients[h].buf, UNCHANGED conn,
         Unread(h)' = << >>, Newest(h)' = OldConns + 1,
         FdOf(h) # NoFd => \A c : c = ConnOf(h) => InTable(c)' /\ ~Owned(c)'
  PROVE  HostBuffer(h)'
<1>1. /\ TypeOK /\ OwnFd /\ BacklogIsTail /\ TableOnce /\ ConnsKept
  BY Lasting DEF HistInv, IInv
<1>2. Conns' = Conns
  BY DEF Conns
<1>3. OwnTokens(h)'
  BY <1>1, <1>2, HostBufferParts DEF HostBuffer
<1>4. Newest(h) \in Int /\ Newest(h) <= OldConns + 1 /\ OldConns \in Int
  BY <1>1, NewestType
<1>5. PICK d \in Int : d = OldConns + 1 /\ Newest(h) <= d /\ Newest(h)' = d
  BY <1>4
<1>6. CASE CutBefore(h, Newest(h))
  <2>1. PICK c \in Int : c = Newest(h) /\ CutBefore(h, c) /\ c <= d
    BY <1>4, <1>5, <1>6
  <2>2. CutBefore(h, d)'
    BY <2>1, CutStays
  <2> QED BY <1>3, <1>5, <2>2 DEF HostBuffer, CutBefore
<1>7. CASE clients[h].buf = << >>
  BY <1>3, <1>7 DEF HostBuffer
<1>8. CASE clients[h].buf = Unread(h) /\ Unread(h) # << >>
  <2>1. FdOf(h) # NoFd /\ conn[ConnOf(h)].read % 2 # 0
    BY <1>8 DEF Unread
  <2>2. /\ ConnOf(h) \in Conns /\ conn[ConnOf(h)].host = h /\ ConnOf(h) <= OldConns
    BY <1>1, <2>1, OwnedFd DEF ConnOf, TableOnce
  <2>3. PICK b \in Conns : b = ConnOf(h) /\ conn[b].host = h /\ b <= OldConns
    BY <2>2
  <2>4. conn[b] \in Connections /\ b \in Nat
    BY <1>1, TypeParts, ConnRecord
  <2>5. InTable(b)' /\ ~Owned(b)'
    BY <2>1, <2>3
  <2>6. conn[b].read % 2 = 1
    <3> DEFINE n == conn[b].read
    <3>1. n \in Nat /\ n % 2 # 0
      BY <2>1, <2>3, <2>4, BoundsAssumption DEF Connections
    <3> HIDE DEF n
    <3>2. n % 2 = 1
      BY <3>1
    <3> QED BY <3>2 DEF n
  <2>7. GivenUp(b)' /\ b < d
    BY <1>4, <1>5, <2>3, <2>4, <2>5, <2>6 DEF GivenUp
  <2>8. CutBefore(h, d)'
    BY <1>2, <2>3, <2>7 DEF CutBefore
  <2> QED BY <1>3, <1>5, <2>8 DEF HostBuffer, CutBefore
<1> QED BY <1>6, <1>7, <1>8 DEF HostBuffer

\* A new record has nothing to be cut.
LEMMA EmptyRecord ==
  ASSUME NEW h, clients'[h].buf = << >>, Unread(h)' = << >>
  PROVE  HostBuffer(h)'
<1>1. OwnTokens(h)'
  BY EmptySeq DEF OwnTokens
<1> QED BY <1>1 DEF HostBuffer

-----------------------------------------------------------------------------
(* Reading: a buffer of less than a packet gets one or two tokens of connection c, *)
(* which was read up to m.                                                         *)

Block(c, m, n) == [i \in 1 .. n |-> <<c, m + i>>]
Joined(buf, c, m, n) == buf \o Block(c, m, n)
Left(data) == IF Len(data) < 2 THEN data ELSE SubSeq(data, 3, Len(data))

LEMMA BlockType ==
  ASSUME NEW C, NEW c \in C, NEW m \in Nat, NEW n \in 1 .. 2
  PROVE  Block(c, m, n) \in Seq(C \X Nat) /\ Len(Block(c, m, n)) = n
BY DEF Block

LEMMA SingleSeq == ASSUME NEW T, NEW s \in Seq(T), Len(s) = 1 PROVE s = <<s[1]>>
<1>1. s[1] \in T
  BY ElementOfSeq
<1>2. <<s[1]>> \in Seq(T) /\ Len(<<s[1]>>) = 1 /\ <<s[1]>>[1] = s[1]
  BY <1>1
<1> QED BY <1>2, SeqEqual

LEMMA SubPair ==
  ASSUME NEW T, NEW s \in Seq(T), 2 <= Len(s)
  PROVE  SubSeq(s, 1, 2) = <<s[1], s[2]>>
<1>1. Len(s) \in Nat
  BY LenProperties
<1>2. s[1] \in T /\ s[2] \in T
  BY <1>1, ElementOfSeq
<1>3. <<s[1], s[2]>> \in Seq(T) /\ Len(<<s[1], s[2]>>) = 2
  BY <1>2
<1>4. \A i \in 1 .. 2 : s[i] \in T
  BY <1>2
<1>5. /\ SubSeq(s, 1, 2) \in Seq(T) /\ Len(SubSeq(s, 1, 2)) = 2
      /\ \A i \in 1 .. 2 : SubSeq(s, 1, 2)[i] = s[i]
  <2>1. /\ SubSeq(s, 1, 2) \in Seq(T)
        /\ Len(SubSeq(s, 1, 2)) = IF 1 <= 2 THEN 2 - 1 + 1 ELSE 0
        /\ \A i \in 1 .. 2 - 1 + 1 : SubSeq(s, 1, 2)[i] = s[1 + i - 1]
    BY <1>4, SubSeqProperties
  <2> QED BY <2>1
<1>6. \A i \in 1 .. 2 : SubSeq(s, 1, 2)[i] = <<s[1], s[2]>>[i]
  BY <1>5
<1> QED BY <1>3, <1>5, <1>6, SeqEqual

\* What is behind the packet that was cut off, if there was one, is the last token read.
Cuts(data, buf, c, m, n, k) ==
    /\ k \in 0 .. 1 /\ Len(data) = k + n
    /\ (k + n) % 2 = 0 => Left(data) = << >>
    /\ (k + n) % 2 = 1 => Left(data) = << <<c, m + n>> >>
    /\ 2 <= k + n => /\ data[1] = IF k = 0 THEN <<c, m + 1>> ELSE buf[1]
                     /\ data[2] = <<c, m + 2 - k>>
                     /\ SubSeq(data, 1, 2) = <<data[1], data[2]>>

LEMMA ReadTokens ==
  ASSUME NEW T, NEW buf \in Seq(T), Len(buf) < 2, NEW c, NEW m \in Nat, NEW n \in 1 .. 2,
         Block(c, m, n) \in Seq(T), Len(Block(c, m, n)) = n,
         NEW k, k = Len(buf), NEW data, data = Joined(buf, c, m, n)
  PROVE  Cuts(data, buf, c, m, n, k)
<1> DEFINE block == Block(c, m, n)
<1>1. k \in Nat /\ k < 2 /\ n \in 1 .. 2
  BY LenProperties
<1>2. \A i \in 1 .. n : block[i] = <<c, m + i>>
  BY DEF Block
<1> HIDE DEF block
<1>3. data \in Seq(T) /\ Len(data) = k + n
      /\ \A i \in 1 .. k + n : data[i] = IF i <= k THEN buf[i] ELSE block[i - k]
  BY ConcatProperties DEF block, Joined
<1>4. k \in 0 .. 1 /\ k + n \in 1 .. 3
  BY <1>1
<1>5. ASSUME 2 <= k + n
      PROVE  /\ data[1] = IF k = 0 THEN <<c, m + 1>> ELSE buf[1]
             /\ data[2] = <<c, m + 2 - k>>
             /\ SubSeq(data, 1, 2) = <<data[1], data[2]>>
  <2>1. 1 \in 1 .. k + n /\ 2 \in 1 .. k + n
    BY <1>4, <1>5
  <2>2. data[1] = IF k = 0 THEN <<c, m + 1>> ELSE buf[1]
    <3>1. CASE k = 0
      BY <1>2, <1>3, <2>1, <3>1
    <3>2. CASE k = 1
      BY <1>3, <2>1, <3>2
    <3> QED BY <1>4, <3>1, <3>2
  <2>3. data[2] = <<c, m + 2 - k>>
    <3>1. CASE k = 0
      BY <1>2, <1>3, <1>5, <2>1, <3>1
    <3>2. CASE k = 1
      BY <1>2, <1>3, <1>5, <2>1, <3>2
    <3> QED BY <1>4, <3>1, <3>2
  <2>4. SubSeq(data, 1, 2) = <<data[1], data[2]>>
    BY <1>3, <1>5, SubPair
  <2> QED BY <2>2, <2>3, <2>4
<1>6. CASE k + n = 1
  <2>1. k = 0 /\ n = 1 /\ (k + n) % 2 = 1
    BY <1>4, <1>6
  <2>2. data[1] = <<c, m + n>> /\ Len(data) = 1
    BY <1>2, <1>3, <2>1
  <2>3. data = << <<c, m + n>> >>
    BY <1>3, <2>2, SingleSeq
  <2>4. Left(data) = data
    BY <2>2 DEF Left
  <2>5. (k + n) % 2 # 0
    BY <1>6
  <2> QED BY <1>3, <1>4, <1>5, <2>3, <2>4, <2>5 DEF Cuts
<1>7. CASE k + n = 2
  <2>1. Left(data) = SubSeq(data, 3, 2)
    BY <1>3, <1>7 DEF Left
  <2>2. SubSeq(data, 3, 2) = << >>
    BY <1>3
  <2>3. (k + n) % 2 # 1
    BY <1>7
  <2> QED BY <1>3, <1>4, <1>5, <2>1, <2>2, <2>3 DEF Cuts
<1>8. CASE k + n = 3
  <2>1. Left(data) = SubSeq(data, 3, 3) /\ Len(data) = 3
    BY <1>3, <1>8 DEF Left
  <2>2. k = 1 /\ n = 2 /\ data[3] = <<c, m + n>>
    BY <1>4, <1>2, <1>3, <1>8
  <2>3. SubSeq(data, 3, 3) = <<data[3]>>
    <3> DEFINE rest == SubSeq(data, 3, 3)
    <3>1. \A i \in 3 .. 3 : data[i] \in T
      <4>1. 3 \in 1 .. Len(data)
        BY <2>1
      <4>2. data[3] \in T
        BY <1>3, <4>1, ElementOfSeq
      <4> QED BY <4>2
    <3>2. /\ rest \in Seq(T) /\ Len(rest) = IF 3 <= 3 THEN 3 - 3 + 1 ELSE 0
          /\ \A i \in 1 .. 3 - 3 + 1 : rest[i] = data[3 + i - 1]
      BY <3>1, SubSeqProperties
    <3> HIDE DEF rest
    <3>3. Len(rest) = 1 /\ rest[1] = data[3]
      BY <3>2
    <3>4. rest = <<data[3]>>
      BY <3>2, <3>3, SingleSeq
    <3> QED BY <3>4 DEF rest
  <2>4. (k + n) % 2 # 0
    BY <1>8
  <2> QED BY <1>3, <1>4, <1>5, <2>1, <2>2, <2>3, <2>4 DEF Cuts
<1> QED BY <1>4, <1>6, <1>7, <1>8 DEF Cuts

-----------------------------------------------------------------------------
(* The invariant is inductive. *)

\* What PacketsAreWhole asks of a packet.
Whole(p) ==
    LET first == p.tokens[1]
        last == p.tokens[2]
    IN  /\ conn[first[1]].host = p.client /\ conn[last[1]].host = p.client
        /\ \/ first[1] = last[1] /\ first[2] % 2 = 1 /\ last[2] = first[2] + 1
           \/ CutBefore(p.client, last[1])

LEMMA WholePacket ==
  TypeOK => (PacketKnown => (PacketsAreWhole <=> (packet # NoPacket => Whole(packet))))
<1> SUFFICES ASSUME TypeOK, PacketKnown, packet # NoPacket
             PROVE  PacketsAreWhole <=> Whole(packet)
  BY DEF PacketsAreWhole
<1> DEFINE c == packet.tokens[2][1]
           h == packet.client
<1>1. c \in Conns /\ Len(conn) \in Nat
  BY Lengths DEF PacketKnown
<1>2. CutBefore(h, c) <=> \E b \in 1 .. c - 1 :
         conn[b].host = h /\ conn[b].read % 2 = 1 /\ InTable(b) /\ ~Owned(b)
  <2> HIDE DEF c, h
  <2>1. \A b : b \in Conns /\ b < c <=> b \in 1 .. c - 1
    BY <1>1 DEF Conns
  <2> QED BY <2>1 DEF CutBefore, GivenUp
<1> QED BY <1>2 DEF PacketsAreWhole, Whole

\* The last packet stays what it was.
LEMMA PacketStays ==
  ASSUME WholeInv, [Next]_vars, packet' = packet
  PROVE  PacketKnown' /\ PacketsAreWhole'
<1>1. HistInv /\ TypeOK /\ TypeOK' /\ ConnsKept
  BY NextHistInv, Lasting DEF WholeInv, HistInv, IInv
<1>2. Conns \subseteq Conns'
  BY <1>1, LenProperties DEF TypeOK, ConnsKept, Conns
<1>3. PacketKnown'
  BY <1>2 DEF WholeInv, PacketKnown
<1>4. ASSUME packet # NoPacket PROVE Whole(packet)'
  <2>1. PICK a, c, h : a = packet.tokens[1][1] /\ c = packet.tokens[2][1] /\ h = packet.client
    OBVIOUS
  <2>2. a \in Conns /\ c \in Conns /\ c \in Int
    BY <1>4, <2>1 DEF WholeInv, PacketKnown, Conns
  <2>3. Whole(packet)
    BY <1>1, <1>4, WholePacket DEF WholeInv
  <2>4. conn'[a].host = conn[a].host /\ conn'[c].host = conn[c].host
    BY <1>1, <2>2 DEF ConnsKept
  <2>5. CutBefore(h, c) => CutBefore(h, c)'
    BY <1>1, <2>2, CutStays
  <2> QED BY <2>1, <2>3, <2>4, <2>5 DEF Whole, CutBefore
<1>5. (TypeOK => (PacketKnown => (PacketsAreWhole <=> (packet # NoPacket => Whole(packet)))))'
  BY WholePacket, PTL
<1> QED BY <1>1, <1>3, <1>4, <1>5

\* What recv() and the cutting of the buffer do, in terms of what was read.
LEMMA ReadEffect ==
  ASSUME TypeOK, OwnFd, NEW h \in Hosts, NEW n \in 1 .. 2, NEW kind \in Kinds,
         RecvData(h, n, kind)
  PROVE  \E c \in Conns, m \in Nat, k \in 0 .. 1 :
            /\ h \in Known /\ FdOf(h) # NoFd /\ c = ConnOf(h) /\ conn[c].host = h
            /\ m = conn[c].read /\ conn'[c].read = m + n
            /\ \A d \in Conns : d # c => conn'[d].read = conn[d].read
            /\ k = Len(clients[h].buf)
            /\ (k + n) % 2 = 0 => clients'[h].buf = << >>
            /\ (k + n) % 2 = 1 => clients'[h].buf = << <<c, m + n>> >>
            /\ \/ packet' = packet
               \/ \E t : /\ packet' = [client |-> h, tokens |-> t]
                         /\ t[1] = IF k = 0 THEN <<c, m + 1>> ELSE clients[h].buf[1]
                         /\ t[2] = <<c, m + 2 - k>>
            /\ \A g \in Known : g # h => clients'[g] = clients[g]
<1>1. ConnTypeOK /\ ClientsTypeOK
  BY TypeParts
<1>2. h \in Known /\ FdOf(h) # NoFd /\ ConnOf(h) \in Conns /\ conn[ConnOf(h)].host = h
  BY OwnedFd DEF RecvData, AtRecv, Connected, TypeOK, ConnOf
<1>3. PICK c \in Conns : c = ConnOf(h) /\ conn[c].host = h
  BY <1>2
<1>4. conn[c] \in Connections /\ c \in Nat /\ DOMAIN conn = Conns
  BY <1>1, ConnRecord
<1>5. PICK m \in Nat : m = conn[c].read
  BY <1>4, BoundsAssumption DEF Connections
<1>6. PICK buf \in Seq(Tokens) : buf = clients[h].buf /\ Len(buf) < 2
  BY <1>1, <1>2 DEF ClientsTypeOK, Clients
<1>7. PICK T : T = (1 .. MaxConns) \X Nat
  OBVIOUS
<1>8. buf \in Seq(T) /\ Block(c, m, n) \in Seq(T) /\ Len(Block(c, m, n)) = n
  <2>1. Tokens \subseteq T
    BY <1>7, BoundsAssumption DEF Tokens
  <2>2. buf \in Seq(T)
    BY <1>6, <2>1, SeqMonotonic
  <2>3. c \in 1 .. MaxConns
    BY <1>1, <1>4, BoundsAssumption DEF ConnTypeOK, Conns
  <2> QED BY <1>7, <2>2, <2>3, BlockType
<1> DEFINE data == Joined(buf, c, m, n)
           k == Len(buf)
<1> HIDE DEF data, k
<1>9. /\ k \in 0 .. 1 /\ Len(data) = k + n
      /\ (k + n) % 2 = 0 => Left(data) = << >>
      /\ (k + n) % 2 = 1 => Left(data) = << <<c, m + n>> >>
      /\ 2 <= k + n => /\ data[1] = IF k = 0 THEN <<c, m + 1>> ELSE buf[1]
                       /\ data[2] = <<c, m + 2 - k>>
                       /\ SubSeq(data, 1, 2) = <<data[1], data[2]>>
  <2>1. k = Len(buf) /\ data = Joined(buf, c, m, n)
    BY DEF k, data
  <2>2. Cuts(data, buf, c, m, n, k)
    BY <1>6, <1>8, <2>1, ReadTokens
  <2> QED BY <2>2 DEF Cuts
<1>10. /\ conn' = [conn EXCEPT ![c].read = @ + n]
       /\ clients' = [clients EXCEPT ![h].buf = Left(data)]
       /\ Len(data) < 2 => packet' = packet
       /\ 2 <= Len(data) => packet' = [client |-> h, tokens |-> SubSeq(data, 1, 2)]
  <2> DEFINE d == clients[h].buf \o [i \in 1 .. n |-> <<ConnOf(h), conn[ConnOf(h)].read + i>>]
  <2>1. d = data
    BY <1>3, <1>5, <1>6 DEF Block, Joined, data
  <2>2. Len(data) \in Int
    BY <1>9
  <2>3. /\ conn' = [conn EXCEPT ![c].read = @ + n]
        /\ \/ /\ Len(d) < 2 /\ clients' = [clients EXCEPT ![h].buf = d]
              /\ packet' = packet
           \/ /\ 2 <= Len(d) /\ clients' = [clients EXCEPT ![h].buf = SubSeq(d, 3, Len(d))]
              /\ packet' = [client |-> h, tokens |-> SubSeq(d, 1, 2)]
    BY <1>3 DEF RecvData
  <2> HIDE DEF d
  <2> QED BY <2>1, <2>2, <2>3 DEF Left
<1>11. conn'[c].read = m + n /\ \A d \in Conns : d # c => conn'[d].read = conn[d].read
  BY <1>4, <1>5, <1>10 DEF Connections
<1>12. clients'[h].buf = Left(data) /\ \A g \in Known : g # h => clients'[g] = clients[g]
  <2>1. clients[h] \in Clients
    BY <1>1, <1>2 DEF ClientsTypeOK
  <2> QED BY <1>2, <1>10, <2>1 DEF Known, Clients
<1>13. \/ packet' = packet
       \/ \E t : /\ packet' = [client |-> h, tokens |-> t]
                 /\ t[1] = IF k = 0 THEN <<c, m + 1>> ELSE clients[h].buf[1]
                 /\ t[2] = <<c, m + 2 - k>>
  <2>1. CASE Len(data) < 2
    BY <1>10, <2>1
  <2>2. CASE 2 <= Len(data)
    <3>1. PICK t : t = <<data[1], data[2]>>
      OBVIOUS
    <3>2. packet' = [client |-> h, tokens |-> t]
      BY <1>9, <1>10, <2>2, <3>1
    <3>3. t[1] = IF k = 0 THEN <<c, m + 1>> ELSE clients[h].buf[1]
      BY <1>6, <1>9, <2>2, <3>1
    <3>4. t[2] = <<c, m + 2 - k>>
      BY <1>9, <2>2, <3>1
    <3> QED BY <3>2, <3>3, <3>4
  <2> QED BY <1>9, <2>1, <2>2
<1>14. k = Len(clients[h].buf)
  BY <1>6 DEF k
<1> QED BY <1>2, <1>3, <1>5, <1>9, <1>11, <1>12, <1>13, <1>14

\* What a read leaves in the buffer of its record follows the connection, and the
\* packet it cuts off is whole; or the host was cut before, and still is.
LEMMA ReadWhole ==
  ASSUME WholeInv, [Next]_vars, NEW h \in Hosts, NEW n \in 1 .. 2, NEW kind \in Kinds,
         RecvData(h, n, kind)
  PROVE  BufferFollows' /\ PacketKnown' /\ PacketsAreWhole'
<1>1. /\ HistInv /\ TypeOK /\ OwnFd /\ BufferFollows /\ TypeOK' /\ ConnsKept /\ FdsKept
      /\ Conns' = Conns
  BY RecvDataTypeOK DEF WholeInv, HistInv, IInv
<1>2. PICK c \in Conns, m \in Nat, k \in 0 .. 1 :
         /\ h \in Known /\ FdOf(h) # NoFd /\ c = ConnOf(h) /\ conn[c].host = h
         /\ m = conn[c].read /\ conn'[c].read = m + n
         /\ \A d \in Conns : d # c => conn'[d].read = conn[d].read
         /\ k = Len(clients[h].buf)
         /\ (k + n) % 2 = 0 => clients'[h].buf = << >>
         /\ (k + n) % 2 = 1 => clients'[h].buf = << <<c, m + n>> >>
         /\ \/ packet' = packet
            \/ \E t : /\ packet' = [client |-> h, tokens |-> t]
                      /\ t[1] = IF k = 0 THEN <<c, m + 1>> ELSE clients[h].buf[1]
                      /\ t[2] = <<c, m + 2 - k>>
         /\ \A g \in Known : g # h => clients'[g] = clients[g]
  BY <1>1, ReadEffect
<1>3. FdOf(h)' = FdOf(h) /\ ConnOf(h)' = c /\ Newest(h) = c /\ Newest(h)' = c
  BY <1>1, <1>2 DEF FdsKept, FdOf, ConnOf, Newest
<1>4. conn'[c].host = h /\ c \in Int
  BY <1>1, <1>2 DEF ConnsKept, Conns
<1>5. CutBefore(h, c) => CutBefore(h, c)'
  BY <1>1, <1>4, CutStays
<1>6. OwnTokens(h) /\ (clients[h].buf = Unread(h) \/ CutBefore(h, c))
  BY <1>1, <1>2, <1>3 DEF BufferFollows, HostBuffer
<1>7. clients[h].buf = Unread(h) =>
         k = m % 2 /\ (k = 1 => clients[h].buf[1] = <<c, m>>)
  <2>1. Unread(h) = IF m % 2 = 0 THEN << >> ELSE << <<c, m>> >>
    BY <1>2 DEF Unread
  <2>2. m % 2 = 0 \/ m % 2 = 1
    OBVIOUS
  <2> QED BY <1>2, <2>1, <2>2
<1>8. OwnTokens(h)'
  <2>1. (k + n) % 2 = 0 \/ (k + n) % 2 = 1
    OBVIOUS
  <2>2. CASE clients'[h].buf = << >>
    BY <2>2, EmptySeq DEF OwnTokens
  <2>3. CASE clients'[h].buf = << <<c, m + n>> >>
    <3>1. Len(clients'[h].buf) = 1 /\ clients'[h].buf[1][1] = c
      BY <2>3
    <3> QED BY <1>1, <1>4, <3>1 DEF OwnTokens
  <2> QED BY <1>2, <2>1, <2>2, <2>3
<1>9. ASSUME clients[h].buf = Unread(h) PROVE clients'[h].buf = Unread(h)'
  <2>1. (k + n) % 2 = (m + n) % 2
    BY <1>7, <1>9
  <2>2. (m + n) % 2 = 0 \/ (m + n) % 2 = 1
    OBVIOUS
  <2>3. Unread(h)' = IF (m + n) % 2 = 0 THEN << >> ELSE << <<c, m + n>> >>
    BY <1>2, <1>3 DEF Unread
  <2> QED BY <1>2, <2>1, <2>2, <2>3
<1>10. HostBuffer(h)'
  BY <1>3, <1>5, <1>6, <1>8, <1>9 DEF HostBuffer, CutBefore
<1>11. ASSUME NEW g \in Known, g # h PROVE HostBuffer(g)'
  <2>1. g \in Known' /\ clients'[g].fd = clients[g].fd /\ clients'[g].buf = clients[g].buf
    BY <1>1, <1>2, <1>11 DEF FdsKept
  <2>2. FdOf(g) # NoFd => ConnOf(g) \in Conns /\ ConnOf(g) # c
    BY <1>1, <1>2, <1>11, OwnedFd DEF ConnOf
  <2>3. HostBuffer(g) /\ UNCHANGED table
    BY <1>1 DEF BufferFollows, FdsKept
  <2> QED BY <1>1, <1>2, <2>1, <2>2, <2>3, RecordKept
<1>12. BufferFollows'
  BY <1>1, <1>10, <1>11 DEF BufferFollows, FdsKept
<1>13. CASE packet' = packet
  BY <1>12, <1>13, PacketStays
<1>14. ASSUME NEW t, packet' = [client |-> h, tokens |-> t],
              t[1] = IF k = 0 THEN <<c, m + 1>> ELSE clients[h].buf[1],
              t[2] = <<c, m + 2 - k>>
       PROVE  PacketKnown' /\ PacketsAreWhole'
  <2>1. packet'.tokens = t /\ packet'.client = h
    BY <1>14
  <2>2. t[1][1] \in Conns /\ conn[t[1][1]].host = h
    <3>1. CASE k = 0
      BY <1>2, <1>14, <3>1
    <3>2. CASE k = 1
      <4>1. 1 \in 1 .. Len(clients[h].buf)
        BY <1>2, <3>2
      <4> QED BY <1>6, <1>14, <3>2, <4>1 DEF OwnTokens
    <3> QED BY <3>1, <3>2
  <2>3. conn'[t[1][1]].host = h /\ t[2][1] = c
    BY <1>1, <1>14, <2>2 DEF ConnsKept
  <2>4. PacketKnown'
    BY <1>1, <2>1, <2>2, <2>3 DEF PacketKnown
  <2>5. ASSUME clients[h].buf = Unread(h)
        PROVE  t[1][1] = c /\ t[1][2] % 2 = 1 /\ t[2][2] = t[1][2] + 1
    <3>1. CASE k = 0
      <4>1. (m + 1) % 2 = 1 /\ m + 2 - k = (m + 1) + 1
        BY <1>7, <2>5, <3>1
      <4> QED BY <1>14, <3>1, <4>1
    <3>2. CASE k = 1
      <4>1. m % 2 = 1 /\ m + 2 - k = m + 1
        BY <1>7, <2>5, <3>2
      <4> QED BY <1>7, <1>14, <2>5, <3>2, <4>1
    <3> QED BY <3>1, <3>2
  <2>6. Whole(packet)'
    <3>1. (t[1][1] = c /\ t[1][2] % 2 = 1 /\ t[2][2] = t[1][2] + 1) \/ CutBefore(h, c)'
      BY <1>5, <1>6, <2>5
    <3> QED BY <1>4, <2>1, <2>3, <3>1 DEF Whole, CutBefore
  <2>7. (TypeOK => (PacketKnown => (PacketsAreWhole <=> (packet # NoPacket => Whole(packet)))))'
    BY WholePacket, PTL
  <2> QED BY <1>1, <2>4, <2>6, <2>7
<1> QED BY <1>2, <1>12, <1>13, <1>14

\* Nothing reads what was not accepted yet.
LEMMA FreshStays ==
  ASSUME WholeInv, [Next]_vars
  PROVE  Fresh'
<1>1. /\ HistInv /\ TypeOK /\ OwnFd /\ TableOnce /\ TypeOK' /\ OldConns \in Int
      /\ Len(conn) \in Nat
  BY NextHistInv, Lengths DEF WholeInv, HistInv, IInv
<1>2. ASSUME NEW c \in Conns', OldConns' < c PROVE conn'[c].read = 0
  <2>1. OldConns < c
    <3>1. OldConns' = OldConns \/ OldConns' = OldConns + 1
      BY <1>1, OldConnsGrow
    <3> QED BY <1>1, <1>2, <3>1 DEF Conns
  <2>2. CASE c \in Conns
    <3>1. conn[c].read = 0
      BY <2>1, <2>2 DEF WholeInv, Fresh
    <3>2. ASSUME NEW h \in Hosts, NEW n \in 1 .. 2, NEW kind \in Kinds, RecvData(h, n, kind),
                 c = ConnOf(h)
          PROVE  FALSE
      <4>1. h \in Known /\ FdOf(h) # NoFd
        BY <1>1, <3>2 DEF RecvData, AtRecv, Connected, TypeOK
      <4>2. c <= OldConns
        BY <1>1, <3>2, <4>1, OwnedFd DEF ConnOf, TableOnce
      <4> QED BY <1>1, <2>1, <4>2 DEF Conns
    <3> QED BY <1>1, <2>2, <3>1, <3>2, ReadsKept
  <2>3. CASE c \notin Conns
    <3>1. ~QuietStep /\ ~Accept
      <4>1. QuietStep \/ Accept => Len(conn') = Len(conn)
        BY <1>1, SameLength DEF QuietStep, Accept
      <4> QED BY <1>2, <2>3, <4>1 DEF Conns
    <3>2. PICK h \in Hosts : Connect(h)
      BY <3>1, KindsOfSteps
    <3> DEFINE r == [host |-> h, peer |-> "open", sent |-> 0, read |-> 0]
    <3>3. r \in Connections /\ r.read = 0 /\ conn' = Append(conn, r) /\ Len(conn) < MaxConns
      BY <3>2, BoundsAssumption DEF Connect, Connections
    <3> HIDE DEF r
    <3>4. Conns' = Conns \cup {Len(conn) + 1} /\ conn'[Len(conn) + 1] = r
      BY <1>1, <3>3, TypeParts, ConnAppend
    <3> QED BY <1>2, <2>3, <3>3, <3>4
  <2> QED BY <2>2, <2>3
<1> QED BY <1>2 DEF Fresh

\* A record that is put with another descriptor keeps its buffer; a new one has none.
LEMMA PutBuffers ==
  ASSUME ClientsTypeOK, NEW address \in Addresses, NEW f \in -1 .. MaxFd,
         clients' = Put(address.host, [Record(address) EXCEPT !.fd = f])
  PROVE  /\ Known' = Known \cup {address.host}
         /\ \A g \in Known' : g # address.host => clients'[g] = clients[g]
         /\ clients'[address.host].fd = f
         /\ clients'[address.host].buf =
               IF address.host \in Known THEN clients[address.host].buf ELSE << >>
<1> DEFINE h == address.host
           r == [Record(address) EXCEPT !.fd = f]
<1>1. Record(address) \in Clients /\ Len(Record(address).buf) < 2 /\ h \in Hosts
      /\ (h \in Known => Record(address) = clients[h])
  BY RecordProperties
<1>2. Record(address).buf = IF h \in Known THEN clients[h].buf ELSE << >>
  BY <1>1 DEF Record, NewClient
<1>3. r \in Clients /\ r.fd = f /\ r.buf = Record(address).buf
  BY <1>1 DEF Clients
<1>4. clients' = Put(h, r)
  OBVIOUS
<1> HIDE DEF h, r
<1>5. Known' = Known \cup {h} /\ \A k \in Known' : clients'[k] = IF k = h THEN r ELSE clients[k]
  <2>1. Len(r.buf) < 2
    BY <1>1, <1>3
  <2> QED BY <1>1, <1>3, <1>4, <2>1, PutProperties
<1> QED BY <1>2, <1>3, <1>5 DEF h

\* A connection that its record gives up for another stays open, and nobody has it.
LEMMA ConnectionLeft ==
  ASSUME HistInv, NEW h \in Known, FdOf(h) # NoFd, NEW c, c = ConnOf(h),
         \A k \in Known' : k # h => (k \in Known => clients'[k].fd = clients[k].fd),
         \A k \in Known' : k # h => (k \notin Known => clients'[k].fd = NoFd),
         \A g \in 0 .. MaxFd : table[g] # Free => table'[g] = table[g],
         h \in Known' /\ clients'[h].fd # NoFd => table'[clients'[h].fd] # c
  PROVE  InTable(c)' /\ ~Owned(c)'
<1>1. TypeOK /\ OwnFd
  BY DEF HistInv, IInv
<1>2. FdOf(h) \in 0 .. MaxFd /\ table[FdOf(h)] = c /\ c # Free /\ conn[c].host = h
  BY <1>1, OwnedFd DEF ConnOf
<1>3. InTable(c)'
  BY <1>2 DEF InTable
<1>4. ASSUME NEW k \in Known', FdOf(k)' # NoFd, table'[FdOf(k)'] = c PROVE FALSE
  <2>1. k # h
    BY <1>4 DEF FdOf
  <2>2. k \in Known /\ FdOf(k)' = FdOf(k) /\ FdOf(k) # NoFd
    BY <1>4, <2>1 DEF FdOf
  <2>3. FdOf(k) \in 0 .. MaxFd /\ table[FdOf(k)] # Free /\ conn[table[FdOf(k)]].host = k
    BY <1>1, <2>2, OwnedFd
  <2>4. table[FdOf(k)] = c
    BY <1>4, <2>2, <2>3
  <2> QED BY <1>2, <2>1, <2>3, <2>4
<1> QED BY <1>3, <1>4 DEF Owned

\* A failed accept() takes the connection of a record away, or makes one without.
LEMMA AcceptFailsFollows ==
  ASSUME WholeInv, [Next]_vars, AcceptFails
  PROVE  BufferFollows'
<1>1. HistInv /\ TypeOK /\ ClientsTypeOK /\ BufferFollows /\ UNCHANGED <<conn, backlog, table>>
  BY TypeParts DEF WholeInv, HistInv, IInv, AcceptFails, env
<1>2. PICK address \in [host : Hosts, port : {0}] :
         clients' = Put(address.host, [Record(address) EXCEPT !.fd = NoFd])
  BY DEF AcceptFails
<1>3. address \in Addresses
  BY DEF Addresses
<1>h. PICK h : h = address.host
  OBVIOUS
<1>4. NoFd \in -1 .. MaxFd
  BY BoundsAssumption DEF NoFd
<1>5. /\ Known' = Known \cup {h} /\ \A g \in Known' : g # h => clients'[g] = clients[g]
      /\ clients'[h].fd = NoFd
      /\ clients'[h].buf = IF h \in Known THEN clients[h].buf ELSE << >>
  BY <1>1, <1>2, <1>3, <1>4, <1>h, PutBuffers
<1>6. Unread(h)' = << >> /\ Newest(h)' = OldConns + 1
  BY <1>1, <1>5 DEF Unread, Newest, FdOf, OldConns
<1>7. ASSUME NEW g \in Known', g # h PROVE HostBuffer(g)'
  <2>1. g \in Known /\ HostBuffer(g)
    BY <1>1, <1>5, <1>7 DEF BufferFollows
  <2> QED BY <1>1, <1>5, <1>7, <2>1, RecordKept
<1>8. CASE h \notin Known
  <2>1. HostBuffer(h)'
    BY <1>5, <1>6, <1>8, EmptyRecord
  <2> QED BY <1>7, <2>1 DEF BufferFollows
<1>9. CASE h \in Known
  <2>1. FdOf(h) # NoFd => \A c : c = ConnOf(h) => InTable(c)' /\ ~Owned(c)'
    BY <1>1, <1>5, <1>9, ConnectionLeft
  <2>2. HostBuffer(h)
    BY <1>1, <1>9 DEF BufferFollows
  <2>3. HostBuffer(h)'
    BY <1>1, <1>5, <1>6, <1>9, <2>1, <2>2, RecordMoved
  <2> QED BY <1>7, <2>3 DEF BufferFollows
<1> QED BY <1>8, <1>9


\* What accept() does to the records: the oldest connection that waits goes to the
\* record of its host, with a descriptor that was free.
LEMMA AcceptBuffers ==
  ASSUME TypeOK, backlog # << >>, Accept
  PROVE  \E f \in 0 .. MaxFd, c \in Conns :
            /\ table[f] = Free /\ c = Head(backlog)
            /\ \A g \in 0 .. MaxFd : table'[g] = IF g = f THEN c ELSE table[g]
            /\ Known' = Known \cup {conn[c].host}
            /\ \A k \in Known' : k # conn[c].host => clients'[k] = clients[k]
            /\ clients'[conn[c].host].fd = f
            /\ clients'[conn[c].host].buf =
                  IF conn[c].host \in Known THEN clients[conn[c].host].buf ELSE << >>
<1>1. ClientsTypeOK /\ TableTypeOK /\ ConnTypeOK
  BY TypeParts
<1>2. PICK c \in Conns : c = Head(backlog)
  BY HeadTailProperties DEF TypeOK
<1>3. conn[c] \in Connections /\ c \in Nat
  BY <1>1, ConnRecord
<1> DEFINE address == [host |-> conn[c].host, port |-> c]
<1>4. PICK f \in 0 .. MaxFd :
         /\ LowestFree(f) /\ table' = [table EXCEPT ![f] = c]
         /\ clients' = Put(address.host, [Record(address) EXCEPT !.fd = f])
  BY <1>2 DEF Accept
<1>5. address \in Addresses /\ address.host = conn[c].host
  BY <1>3 DEF Addresses, Connections
<1>6. f \in -1 .. MaxFd
  BY BoundsAssumption
<1> HIDE DEF address
<1>7. /\ Known' = Known \cup {address.host}
      /\ \A g \in Known' : g # address.host => clients'[g] = clients[g]
      /\ clients'[address.host].fd = f
      /\ clients'[address.host].buf =
            IF address.host \in Known THEN clients[address.host].buf ELSE << >>
  BY <1>1, <1>4, <1>5, <1>6, PutBuffers
<1>8. table[f] = Free /\ \A g \in 0 .. MaxFd : table'[g] = IF g = f THEN c ELSE table[g]
  BY <1>1, <1>4 DEF LowestFree, FreeFds, TableTypeOK
<1> QED BY <1>2, <1>5, <1>7, <1>8

\* The record that gets a connection from accept() has nothing of it in its buffer;
\* if it has something of an earlier one, that one is given up in mid-packet.
LEMMA AcceptFollows ==
  ASSUME WholeInv, [Next]_vars, Accept
  PROVE  BufferFollows'
<1>1. /\ HistInv /\ TypeOK /\ OwnFd /\ BacklogIsTail /\ TableOnce /\ BufferFollows /\ Fresh
      /\ UNCHANGED conn /\ backlog # << >> /\ OldConns \in Int
  BY Lengths DEF WholeInv, HistInv, IInv, Accept, AtMaster, ReadyStays
<1>2. PICK f \in 0 .. MaxFd, c \in Conns :
         /\ table[f] = Free /\ c = Head(backlog)
         /\ \A g \in 0 .. MaxFd : table'[g] = IF g = f THEN c ELSE table[g]
         /\ Known' = Known \cup {conn[c].host}
         /\ \A k \in Known' : k # conn[c].host => clients'[k] = clients[k]
         /\ clients'[conn[c].host].fd = f
         /\ clients'[conn[c].host].buf =
               IF conn[c].host \in Known THEN clients[conn[c].host].buf ELSE << >>
  BY <1>1, AcceptBuffers
<1>h. PICK h : h = conn[c].host
  OBVIOUS
<1>3. /\ Known' = Known \cup {h} /\ \A k \in Known' : k # h => clients'[k] = clients[k]
      /\ clients'[h].fd = f
      /\ clients'[h].buf = IF h \in Known THEN clients[h].buf ELSE << >>
  BY <1>2, <1>h
<1>4. c = OldConns + 1 /\ conn[c].read = 0
  <2>1. c = OldConns + 1
    BY <1>1, <1>2, AcceptKeepsOrder
  <2>2. OldConns < c
    BY <1>1, <2>1
  <2> QED BY <1>1, <2>1, <2>2 DEF Fresh
<1>5. f # NoFd /\ table'[f] = c
  BY <1>2, BoundsAssumption DEF NoFd
<1>6. Unread(h)' = << >> /\ Newest(h)' = OldConns + 1
  <2>1. FdOf(h)' = f /\ ConnOf(h)' = c
    BY <1>3, <1>5 DEF FdOf, ConnOf
  <2>2. conn'[c].read = 0 /\ 0 % 2 = 0
    BY <1>1, <1>4
  <2> QED BY <1>4, <1>5, <2>1, <2>2 DEF Unread, Newest
<1>7. ASSUME NEW g \in Known', g # h PROVE HostBuffer(g)'
  <2>1. g \in Known /\ HostBuffer(g) /\ clients'[g] = clients[g]
    BY <1>1, <1>3, <1>7 DEF BufferFollows
  <2>2. FdOf(g) # NoFd => FdOf(g) \in 0 .. MaxFd /\ FdOf(g) # f
    BY <1>1, <1>2, <2>1, OwnedFd
  <2>3. FdOf(g) # NoFd => table'[FdOf(g)] = table[FdOf(g)]
    BY <1>2, <2>2
  <2> QED BY <1>1, <1>7, <2>1, <2>3, RecordKept
<1>8. CASE h \notin Known
  <2>1. HostBuffer(h)'
    BY <1>3, <1>6, <1>8, EmptyRecord
  <2> QED BY <1>7, <2>1 DEF BufferFollows
<1>9. CASE h \in Known
  <2>1. \A g \in 0 .. MaxFd : table[g] # Free => table'[g] = table[g]
    BY <1>2
  <2>2. ASSUME FdOf(h) # NoFd, NEW d, d = ConnOf(h) PROVE InTable(d)' /\ ~Owned(d)'
    <3>1. d \in Conns /\ d <= OldConns
      BY <1>1, <1>9, <2>2, OwnedFd DEF ConnOf, TableOnce
    <3>2. d # c
      BY <1>1, <1>4, <3>1
    <3> QED BY <1>1, <1>3, <1>5, <1>9, <2>1, <2>2, <3>2, ConnectionLeft
  <2>3. HostBuffer(h)
    BY <1>1, <1>9 DEF BufferFollows
  <2>4. HostBuffer(h)'
    BY <1>1, <1>3, <1>6, <1>9, <2>2, <2>3, RecordMoved
  <2> QED BY <1>7, <2>4 DEF BufferFollows
<1> QED BY <1>8, <1>9

\* A record that is removed takes its buffer along.
LEMMA RemoveFollows ==
  ASSUME WholeInv, [Next]_vars, NEW h \in Hosts, RecvEof(h) \/ RecvError(h)
  PROVE  BufferFollows'
<1>1. /\ HistInv /\ TypeOK /\ OwnFd /\ BufferFollows /\ ClientsTypeOK /\ TableTypeOK
      /\ UNCHANGED conn /\ h \in Known /\ Remove(h)
  BY TypeParts DEF WholeInv, HistInv, IInv, RecvEof, RecvError, env, AtRecv, RestTypeOK
<1>2. /\ Known' = Known \ {h} /\ \A k \in Known' : clients'[k] = clients[k]
      /\ \A f \in 0 .. MaxFd : table'[f] = IF f = FdOf(h) THEN Free ELSE table[f]
  BY <1>1, RemoveProperties
<1>3. ASSUME NEW g \in Known' PROVE HostBuffer(g)'
  <2>1. g \in Known /\ g # h /\ HostBuffer(g) /\ clients'[g] = clients[g]
    BY <1>1, <1>2, <1>3 DEF BufferFollows
  <2>2. FdOf(g) # NoFd => FdOf(g) \in 0 .. MaxFd /\ FdOf(g) # FdOf(h)
    BY <1>1, <2>1, OwnedFd, DistinctFds
  <2>3. FdOf(g) # NoFd => table'[FdOf(g)] = table[FdOf(g)]
    BY <1>2, <2>2
  <2> QED BY <1>1, <1>3, <2>1, <2>3, RecordKept
<1> QED BY <1>3 DEF BufferFollows

\* A datagram makes a record without a connection, or none.
LEMMA DatagramFollows ==
  ASSUME WholeInv, [Next]_vars, NEW d \in udpQueue, HandleDatagram(d)
  PROVE  BufferFollows'
<1>1. HistInv /\ TypeOK /\ BufferFollows /\ UNCHANGED <<conn, table>>
  BY DEF WholeInv, HistInv, IInv, HandleDatagram
<1>2. ASSUME NEW g \in Known, g \in Known', clients'[g] = clients[g] PROVE HostBuffer(g)'
  <2>1. HostBuffer(g)
    BY <1>1 DEF BufferFollows
  <2> QED BY <1>1, <1>2, <2>1, RecordKept
<1> DEFINE h == d.address.host
           r == Record(d.address)
<1>3. UNCHANGED clients \/ clients' = Put(h, r)
  BY DEF HandleDatagram
<1>4. CASE UNCHANGED clients
  BY <1>2, <1>4 DEF BufferFollows, Known
<1>5. CASE clients' = Put(h, r)
  <2>1. h \in Known => r = clients[h]
    BY DEF Record
  <2>2. h \notin Known => r.fd = NoFd /\ r.buf = << >>
    BY DEF Record, NewClient
  <2> HIDE DEF h, r
  <2>3. Known' = Known \cup {h} /\ \A k \in Known' : clients'[k] = IF k = h THEN r ELSE clients[k]
    BY <1>5 DEF Known, Put
  <2>4. ASSUME NEW g \in Known' PROVE HostBuffer(g)'
    <3>1. CASE g \in Known
      BY <1>2, <2>1, <2>3, <2>4, <3>1
    <3>2. CASE g \notin Known
      <4>1. clients'[g].fd = NoFd /\ clients'[g].buf = << >>
        BY <2>2, <2>3, <2>4, <3>2
      <4>2. Unread(g)' = << >>
        BY <4>1 DEF Unread, FdOf
      <4> QED BY <4>1, <4>2, EmptyRecord
    <3> QED BY <3>1, <3>2
  <2> QED BY <2>4 DEF BufferFollows
<1> QED BY <1>3, <1>4, <1>5

\* What leaves the records and the descriptors alone leaves the buffers in order.
LEMMA QuietFollows ==
  ASSUME WholeInv, [Next]_vars, UNCHANGED <<clients, table>>,
         ~\E h \in Hosts, n \in 1 .. 2, kind \in Kinds : RecvData(h, n, kind)
  PROVE  BufferFollows'
<1>1. HistInv /\ TypeOK /\ OwnFd /\ BufferFollows /\ Known' = Known
  BY DEF WholeInv, HistInv, IInv, Known
<1>2. ASSUME NEW g \in Known PROVE HostBuffer(g)'
  <2>1. HostBuffer(g)
    BY <1>1 DEF BufferFollows
  <2>2. FdOf(g) # NoFd => ConnOf(g) \in Conns
    BY <1>1, OwnedFd DEF ConnOf
  <2>3. FdOf(g) # NoFd => conn'[ConnOf(g)].read = conn[ConnOf(g)].read
    BY <1>1, <2>2, ReadsKept
  <2> QED BY <1>1, <2>1, <2>3, RecordKept
<1> QED BY <1>1, <1>2 DEF BufferFollows

\* At the start there is no record, no connection and no packet.
LEMMA InitWholeInv == Init => WholeInv
<1> SUFFICES ASSUME Init PROVE WholeInv
  OBVIOUS
<1>1. Conns = {} /\ Known = {}
  BY EmptySeq DEF Init, Conns, Known
<1>2. packet = NoPacket
  BY DEF Init
<1> QED BY <1>1, <1>2, InitHistInv
        DEF WholeInv, BufferFollows, Fresh, PacketKnown, PacketsAreWhole

\* Every step keeps the buffers in order, and the packet whole that it hands on.
LEMMA NextWholeInv == WholeInv /\ [Next]_vars => WholeInv'
<1> SUFFICES ASSUME WholeInv, [Next]_vars PROVE WholeInv'
  OBVIOUS
<1>1. HistInv' /\ Fresh'
  BY NextHistInv, FreshStays DEF WholeInv
<1>2. ASSUME BufferFollows', packet' = packet PROVE WholeInv'
  BY <1>1, <1>2, PacketStays DEF WholeInv
<1>3. CASE \E h \in Hosts, n \in 1 .. 2, kind \in Kinds : RecvData(h, n, kind)
  BY <1>1, <1>3, ReadWhole DEF WholeInv
<1> DEFINE Reads == \E h \in Hosts, n \in 1 .. 2, kind \in Kinds : RecvData(h, n, kind)
<1>4. CASE Select
  <2>1. UNCHANGED <<clients, table>> /\ packet' = NoPacket
    BY <1>4 DEF Select
  <2>2. CASE ~Reads
    BY <1>1, <2>1, <2>2, QuietFollows DEF WholeInv, PacketKnown, PacketsAreWhole
  <2> QED BY <1>3, <2>2
<1>5. CASE UNCHANGED vars \/ Environment \/ Stop
  <2>1. UNCHANGED <<clients, table, packet>>
    BY <1>5 DEF vars, server, history, Environment, Connect, PeerSend, PeerEnd, UdpArrive, SigInt,
                Stop
  <2>2. CASE ~Reads
    BY <1>2, <2>1, <2>2, QuietFollows
  <2> QED BY <1>3, <2>2
<1>6. CASE \E h \in Hosts : RecvEof(h) \/ RecvError(h)
  BY <1>2, <1>6, RemoveFollows DEF RecvEof, RecvError, history
<1>7. CASE Accept
  BY <1>2, <1>7, AcceptFollows DEF Accept, history
<1>8. CASE AcceptFails
  BY <1>2, <1>8, AcceptFailsFollows DEF AcceptFails
<1>9. CASE \E d \in udpQueue : HandleDatagram(d)
  BY <1>2, <1>9, DatagramFollows DEF HandleDatagram
<1>10. CASE Destroy
  <2>1. Known' = {} /\ packet' = packet
    BY <1>10 DEF Destroy, Known, history
  <2> QED BY <1>2, <2>1 DEF BufferFollows
<1> QED BY <1>3, <1>4, <1>5, <1>6, <1>7, <1>8, <1>9, <1>10 DEF Next, Server

\* What minimote_server_try_handle_client_buffer() takes from the buffer of a record as a
\* packet came from the host of the record, and is one packet as the peer sent it;
\* unless an older connection of that host was given up in the middle of a packet:
\* the buffer is that of the record, and a new connection does not empty it.
THEOREM PacketsComeWhole == Spec => []PacketsAreWhole
<1>1. WholeInv => PacketsAreWhole
  BY DEF WholeInv
<1> QED BY <1>1, InitWholeInv, NextWholeInv, PTL DEF Spec
=============================================================================
