---------------------------- MODULE MinimoteServer ----------------------------
(***************************************************************************)
(* The loop of the server (src/src/server/minimote_server.c): one thread   *)
(* that waits in select() for the TCP master socket, the UDP socket and    *)
(* the connection of every client record, and then handles what is ready:  *)
(* the clients, then a new connection, then a datagram.                    *)
(*                                                                         *)
(* Around it: hosts that connect, send, close, reset and reconnect, the    *)
(* datagrams of an unreliable network, the table of file descriptors of    *)
(* the process, and SIGINT.                                                *)
(*                                                                         *)
(* A packet is two tokens here, <<c, k>> with k odd and <<c, k + 1>>, so   *)
(* that a read may cut it; TcpStream has the bytes, and packets that are   *)
(* malformed.                                                              *)
(***************************************************************************)
EXTENDS Integers, Sequences, FiniteSets

CONSTANTS
    Hosts,      \* the IP addresses; a client record is found by its address alone
    UdpPorts,   \* the ports datagrams come from
    Kinds,      \* the kinds of packets: "input", "ping", "discover"
    Messages,   \* the kinds of datagrams: those, "unparsable" and "empty"
    PongPort,   \* the port a PING asks the answer to be sent to
    MaxConns,   \* bound: how many connections are ever made
    MaxFd,      \* the largest file descriptor of the process
    MaxTokens,  \* bound: how many tokens a peer sends over one connection
    MaxQueue,   \* bound: how many datagrams wait at the UDP socket
    AcceptErrors    \* bound: may accept() fail with a descriptor left?

ASSUME BoundsAssumption ==
    /\ MaxConns \in Nat /\ MaxTokens \in Nat /\ MaxQueue \in Nat
    /\ MaxFd \in Nat /\ 2 <= MaxFd
    /\ AcceptErrors \in BOOLEAN

ASSUME PortAssumption == UdpPorts \subseteq Nat /\ PongPort \in Nat

ASSUME KindAssumption ==
    /\ Kinds \subseteq {"input", "ping", "discover"}
    /\ Messages \subseteq Kinds \cup {"unparsable", "empty"}

\* What a file descriptor may refer to, besides a connection.
Free == 0
Stdin == -1
TcpMaster == -2
UdpMaster == -3

TcpFd == 1      \* server->tcp_socket
UdpFd == 2      \* server->udp_socket
NoFd == -1      \* no connection

Connections ==
    [host : Hosts, peer : {"open", "closed", "reset"}, sent : 0 .. MaxTokens, read : 0 .. MaxTokens]
Addresses == [host : Hosts, port : Nat]
Tokens == (1 .. MaxConns) \X (1 .. MaxTokens)
Clients == [address : Addresses, fd : -1 .. MaxFd, buf : Seq(Tokens)]

Datagrams == [address : [host : Hosts, port : UdpPorts], message : Messages]

NoReply == << >>
NoPacket == << >>

VARIABLES
    conn,           \* the connections ever made, oldest first, as their peers see them
    backlog,        \* the connections that wait for accept(), oldest first
    udpQueue,       \* the datagrams that wait at the UDP socket
    table,          \* the file descriptors of the process
    clients,        \* server->clients: host -> client record
    running,        \* minimote_server_is_running
    pc,             \* "loop", "stopped", "destroyed"
    todo,           \* the ready clients that hash_foreach() has yet to reach
    ready,          \* the ready master sockets that have yet to be handled
    reply,          \* history: the last answer sent in this pass of the loop
    packet,         \* history: the last packet handled in it that came over TCP
    acceptFailed    \* history: accept() has failed

env == <<conn, backlog, udpQueue, running>>
history == <<reply, packet, acceptFailed>>
server == <<table, clients, pc, todo, ready>>
vars == <<env, server, history>>

Init ==
    /\ conn = << >>
    /\ backlog = << >>
    /\ udpQueue = {}
    /\ table = [f \in 0 .. MaxFd |->
                  IF f = 0 THEN Stdin
                  ELSE IF f = TcpFd THEN TcpMaster
                  ELSE IF f = UdpFd THEN UdpMaster
                  ELSE Free]
    /\ clients = << >>
    /\ running = TRUE
    /\ pc = "loop"
    /\ todo = {} /\ ready = {}
    /\ reply = NoReply /\ packet = NoPacket /\ acceptFailed = FALSE

Conns == 1 .. Len(conn)

Known == DOMAIN clients

\* The connection that the record of h has open, if it has one.
FdOf(h) == clients[h].fd
Connected(h) == FdOf(h) # NoFd /\ table[FdOf(h)] \in Conns
ConnOf(h) == table[FdOf(h)]

InTable(c) == \E f \in 0 .. MaxFd : table[f] = c
InBacklog(c) == \E i \in 1 .. Len(backlog) : backlog[i] = c
Accepted(c) == c \in Conns /\ ~InBacklog(c)
Owned(c) == \E h \in Known : FdOf(h) # NoFd /\ table[FdOf(h)] = c
Ended(c) == c \in Conns /\ conn[c].peer \in {"closed", "reset"}

\* The host of c has connected again, and the server has accepted it.
Replaced(c) == \E b \in c + 1 .. Len(conn) : Accepted(b) /\ conn[b].host = conn[c].host

-----------------------------------------------------------------------------
(* The peers and the network. *)

Connect(h) ==
    /\ Len(conn) < MaxConns
    /\ conn' = Append(conn, [host |-> h, peer |-> "open", sent |-> 0, read |-> 0])
    /\ backlog' = Append(backlog, Len(conn) + 1)
    /\ UNCHANGED <<udpQueue, running, server, history>>

\* What is sent over a connection that the server has closed arrives nowhere.
PeerSend(c) ==
    /\ conn[c].peer = "open" /\ conn[c].sent < MaxTokens
    /\ InBacklog(c) \/ InTable(c)
    /\ conn' = [conn EXCEPT ![c].sent = @ + 1]
    /\ UNCHANGED <<backlog, udpQueue, running, server, history>>

PeerEnd(c, end) ==
    /\ conn[c].peer = "open"
    /\ conn' = [conn EXCEPT ![c].peer = end]
    /\ UNCHANGED <<backlog, udpQueue, running, server, history>>

\* Datagrams are lost, duplicated and reordered before they get here: any may
\* arrive, at any moment, any number of times.
UdpArrive(d) ==
    /\ Cardinality(udpQueue) < MaxQueue
    /\ udpQueue' = udpQueue \cup {d}
    /\ UNCHANGED <<conn, backlog, running, server, history>>

SigInt ==
    /\ running
    /\ running' = FALSE
    /\ UNCHANGED <<conn, backlog, udpQueue, server, history>>

\* What happens after the loop has ended makes no difference any more.
Environment ==
    /\ pc = "loop"
    /\ \/ \E h \in Hosts : Connect(h)
       \/ \E c \in Conns :
             \/ PeerSend(c)
             \/ \E end \in {"closed", "reset"} : PeerEnd(c, end)
       \/ \E d \in Datagrams : UdpArrive(d)
       \/ SigInt

-----------------------------------------------------------------------------
(* The client records. *)

NewClient(address) == [address |-> address, fd |-> NoFd, buf |-> << >>]

\* minimote_server_get_or_put_client(): a known host keeps the record, and the
\* address, of its first message.
Record(address) ==
    IF address.host \in Known THEN clients[address.host] ELSE NewClient(address)

Put(h, record) == [k \in Known \cup {h} |-> IF k = h THEN record ELSE clients[k]]

\* Mutant of Closing: the socket of a removed client stays open.
LeavingOpen(fds) == table

\* close(); closing NoFd does nothing.
Closing(fds) == [f \in 0 .. MaxFd |-> IF f \in fds THEN Free ELSE table[f]]

\* Mutant of Remove: the socket is closed, the record stays in the hash.
CloseOnly(h) ==
    /\ table' = Closing({FdOf(h)})
    /\ todo' = todo \ {h}
    /\ UNCHANGED clients

\* Mutant of Remove: the pass comes to the removed client again.
RemoveAndRevisit(h) ==
    /\ table' = Closing({FdOf(h)})
    /\ clients' = [k \in Known \ {h} |-> clients[k]]
    /\ UNCHANGED todo

\* hash_delete() from within hash_foreach(), which then follows the link of the
\* freed node: free() leaves it as it was (glibc writes the first two words of a
\* chunk, the link is the third).
Remove(h) ==
    /\ table' = Closing({FdOf(h)})
    /\ clients' = [k \in Known \ {h} |-> clients[k]]
    /\ todo' = todo \ {h}

\* Mutant of Destination: a ping is answered like a discover request.
DestinationOfFirst(kind, address) == address

\* Where an answer goes: to the address in the record, or for a ping to the port
\* that the ping names.
Destination(kind, address) ==
    IF kind = "discover" THEN address ELSE [host |-> address.host, port |-> PongPort]

\* minimote_server_handle_packet_from_client(), as far as it is seen here: asker is
\* where the packet came from, address what the record of the client says.
Answer(kind, asker, address) ==
    reply' = IF kind = "input" THEN reply
             ELSE [kind |-> kind, asker |-> asker, to |-> Destination(kind, address)]

-----------------------------------------------------------------------------
(* select(). *)

\* Mutant of Watched: the sockets of the clients are forgotten.
WatchedMasters == {TcpFd, UdpFd}

\* Mutant of Watched: the TCP master socket is forgotten.
WatchedButTcp == {UdpFd} \cup ({FdOf(h) : h \in Known} \ {NoFd})

\* minimote_server_setup_select_fds()
Watched == {TcpFd, UdpFd} \cup ({FdOf(h) : h \in Known} \ {NoFd})

Readable(f) ==
    \/ table[f] = TcpMaster /\ backlog # << >>
    \/ table[f] = UdpMaster /\ udpQueue # {}
    \/ /\ table[f] \in Conns
       /\ \/ conn[table[f]].read < conn[table[f]].sent
          \/ conn[table[f]].peer \in {"closed", "reset"}

\* Mutant of ReadyClients: every connected client is taken to be ready.
ConnectedClients(fds) == {h \in Known : FdOf(h) # NoFd}

ReadyClients(fds) == {h \in Known : FdOf(h) \in fds}

\* The server is at the head of its loop.
AtSelect == pc = "loop" /\ todo = {} /\ ready = {}

\* Mutant of Select: the loop does not look at minimote_server_is_running.
SelectForever ==
    /\ AtSelect
    /\ \A f \in Watched : table[f] # Free
    /\ LET readable == {f \in Watched : Readable(f)}
       IN  /\ readable # {}
           /\ todo' = ReadyClients(readable)
           /\ ready' = readable \cap {TcpFd, UdpFd}
    /\ reply' = NoReply /\ packet' = NoPacket
    /\ UNCHANGED <<env, table, clients, pc, acceptFailed>>

\* select() returns when a socket is readable; a closed descriptor among those
\* watched would make it fail every time.  Whether FD_ISSET(-1), for the clients
\* without a connection, is true is undefined.
Select ==
    /\ AtSelect
    /\ running
    /\ \A f \in Watched : table[f] # Free
    /\ LET readable == {f \in Watched : Readable(f)}
       IN  /\ readable # {}
           /\ \E unconnected \in {{}, {h \in Known : FdOf(h) = NoFd}} :
                 todo' = ReadyClients(readable) \cup unconnected
           /\ ready' = readable \cap {TcpFd, UdpFd}
    /\ reply' = NoReply /\ packet' = NoPacket
    /\ UNCHANGED <<env, table, clients, pc, acceptFailed>>

Stop ==
    /\ AtSelect
    /\ ~running
    /\ pc' = "stopped"
    /\ UNCHANGED <<env, table, clients, todo, ready, history>>

-----------------------------------------------------------------------------
(* The clients: clients_iterator_check_client_socket(). *)

\* The server calls recv() on the connection of h.
AtRecv(h) == h \in todo

\* recv() gives what has arrived, also when the connection has been reset since:
\* then it may also fail at once, as RecvError has it.
RecvData(h, n, kind) ==
    /\ AtRecv(h) /\ Connected(h)
    /\ LET c == ConnOf(h)
           data == clients[h].buf \o [i \in 1 .. n |-> <<c, conn[c].read + i>>]
       IN  /\ conn[c].read + n <= conn[c].sent
           /\ conn' = [conn EXCEPT ![c].read = @ + n]
           /\ \/ /\ Len(data) < 2
                 /\ clients' = [clients EXCEPT ![h].buf = data]
                 /\ UNCHANGED <<reply, packet>>
              \/ /\ 2 <= Len(data)
                 /\ clients' = [clients EXCEPT ![h].buf = SubSeq(data, 3, Len(data))]
                 /\ packet' = [client |-> h, tokens |-> SubSeq(data, 1, 2)]
                 /\ Answer(kind, [host |-> conn[c].host, port |-> c], clients[h].address)
    /\ todo' = todo \ {h}
    /\ UNCHANGED <<backlog, udpQueue, running, table, pc, ready, acceptFailed>>

\* Mutant of RecvEof: the connection is closed with data still to be read.
EofEarly(h) ==
    /\ AtRecv(h) /\ Connected(h)
    /\ conn[ConnOf(h)].peer = "closed"
    /\ Remove(h)
    /\ UNCHANGED <<env, pc, ready, history>>

RecvEof(h) ==
    /\ AtRecv(h) /\ Connected(h)
    /\ LET c == ConnOf(h)
       IN  conn[c].peer = "closed" /\ conn[c].read = conn[c].sent
    /\ Remove(h)
    /\ UNCHANGED <<env, pc, ready, history>>

\* The connection was reset, or the descriptor is not that of a connection.
RecvError(h) ==
    /\ AtRecv(h)
    /\ Connected(h) => conn[ConnOf(h)].peer = "reset"
    /\ Remove(h)
    /\ UNCHANGED <<env, pc, ready, history>>

-----------------------------------------------------------------------------
(* The TCP master: minimote_server_handle_tcp_ready(). *)

AtMaster == todo = {} /\ TcpFd \in ready

FreeFds == {f \in 0 .. MaxFd : table[f] = Free}
LowestFree(f) == f \in FreeFds /\ \A g \in FreeFds : f <= g

\* A host that is known gets its record's connection replaced: the descriptor of
\* the old one is forgotten, the bytes it has left in the buffer are not.
Accept ==
    /\ AtMaster
    /\ LET c == Head(backlog)
           address == [host |-> conn[c].host, port |-> c]
       IN  \E f \in 0 .. MaxFd :
              /\ LowestFree(f)
              /\ table' = [table EXCEPT ![f] = c]
              /\ clients' = Put(address.host, [Record(address) EXCEPT !.fd = f])
    /\ backlog' = Tail(backlog)
    /\ ready' = ready \ {TcpFd}
    /\ UNCHANGED <<conn, udpQueue, running, pc, todo, history>>

\* accept() may fail, for want of a descriptor, of memory or for the network, and the
\* connection waits on.  Nobody checks: the record of whatever address was on the
\* stack gets -1 for its connection.
AcceptFails ==
    /\ AtMaster
    /\ FreeFds = {} \/ AcceptErrors
    /\ \E address \in [host : Hosts, port : {0}] :
          clients' = Put(address.host, [Record(address) EXCEPT !.fd = NoFd])
    /\ acceptFailed' = TRUE
    /\ ready' = ready \ {TcpFd}
    /\ UNCHANGED <<env, table, pc, todo, reply, packet>>

-----------------------------------------------------------------------------
(* The UDP socket: minimote_server_handle_udp_ready(). *)

AtUdp == todo = {} /\ ready = {UdpFd}

\* The record is made before the datagram is parsed.
HandleDatagram(d) ==
    /\ AtUdp
    /\ d \in udpQueue
    /\ udpQueue' = udpQueue \ {d}
    /\ \/ /\ d.message = "empty"
          /\ UNCHANGED <<clients, reply>>
       \/ /\ d.message = "unparsable"
          /\ clients' = Put(d.address.host, Record(d.address))
          /\ UNCHANGED reply
       \/ /\ d.message \in Kinds
          /\ clients' = Put(d.address.host, Record(d.address))
          /\ Answer(d.message, d.address, Record(d.address).address)
    /\ ready' = {}
    /\ UNCHANGED <<conn, backlog, running, table, pc, todo, packet, acceptFailed>>

\* minimote_server_destroy() closes what the records hold, and nothing else.
Destroy ==
    /\ pc = "stopped"
    /\ table' = Closing({FdOf(h) : h \in Known})
    /\ clients' = << >>
    /\ pc' = "destroyed"
    /\ UNCHANGED <<env, todo, ready, history>>

-----------------------------------------------------------------------------
Server ==
    \/ Select \/ Stop
    \/ \E h \in Hosts :
          \/ \E n \in 1 .. 2, kind \in Kinds : RecvData(h, n, kind)
          \/ RecvEof(h) \/ RecvError(h)
    \/ Accept \/ AcceptFails
    \/ \E d \in udpQueue : HandleDatagram(d)
    \/ Destroy

Next == Environment \/ Server

Spec == Init /\ [][Next]_vars

\* The process is scheduled, and select() returns when something is readable.
\* Nothing obliges the peers, the network or the user.
FairSpec == Spec /\ WF_vars(Server)

-----------------------------------------------------------------------------
TypeOK ==
    /\ conn \in Seq(Connections) /\ Len(conn) <= MaxConns
    /\ backlog \in Seq(Conns)
    /\ udpQueue \subseteq Datagrams
    /\ table \in [0 .. MaxFd -> -3 .. MaxConns]
    /\ Known \subseteq Hosts
    /\ \A h \in Known : clients[h] \in Clients /\ Len(clients[h].buf) < 2
    /\ running \in BOOLEAN /\ acceptFailed \in BOOLEAN
    /\ pc \in {"loop", "stopped", "destroyed"}
    /\ todo \subseteq Known
    /\ ready \subseteq {TcpFd, UdpFd}

\* A record owns its descriptor: it is open, a connection of the record's own host
\* (so no two records share one), and never stdin or a master socket.  Recv() and
\* close() on the descriptor of a record cannot hit anything else.
OwnFd ==
    /\ \A h \in Known : FdOf(h) # NoFd => Connected(h) /\ conn[ConnOf(h)].host = h
    /\ table[0] = Stdin /\ table[TcpFd] = TcpMaster /\ table[UdpFd] = UdpMaster

\* The server reads only sockets that have something to read, or it would block in
\* recv() and serve nobody: what select() said still holds when it is used.
RecvWouldNotBlock ==
    /\ \A h \in Hosts : AtRecv(h) /\ FdOf(h) # NoFd => Readable(FdOf(h))
    /\ AtMaster => backlog # << >>
    /\ AtUdp => udpQueue # {}

\* An accepted connection stays open without a record only if its host has
\* connected again, or accept() has failed.
LeakOnlyByReconnect ==
    \A c \in Conns : InTable(c) /\ ~Owned(c) => acceptFailed \/ Replaced(c)

\* What a record handles as a packet came from its own host, and is one packet as
\* the peer sent it; unless a connection of that host was given up in the middle of
\* a packet, whose rest the record then never sees.
PacketsAreWhole ==
    packet # NoPacket =>
        LET first == packet.tokens[1]
            last == packet.tokens[2]
        IN  /\ conn[first[1]].host = packet.client /\ conn[last[1]].host = packet.client
            /\ \/ first[1] = last[1] /\ first[2] % 2 = 1 /\ last[2] = first[2] + 1
               \/ \E b \in 1 .. last[1] - 1 :
                     /\ conn[b].host = packet.client /\ conn[b].read % 2 = 1
                     /\ InTable(b) /\ ~Owned(b)

\* An answer goes to the host that asked, and a pong to the port the ping named.
AnswersGoHome ==
    reply # NoReply =>
        /\ reply.to.host = reply.asker.host
        /\ reply.kind = "ping" => reply.to.port = PongPort

\* A connection loses its record only for a reason of its own: it was closed and
\* read to the end, it was reset, or its host connected again; or accept() has
\* failed, or the server stops.  No other host can do it.
NoEviction ==
    [][\A c \in Conns : Owned(c) /\ ~Owned(c)' =>
          \/ conn[c].peer = "closed" /\ conn[c].read = conn[c].sent
          \/ conn[c].peer = "reset"
          \/ \E b \in Conns : InBacklog(b) /\ ~InBacklog(b)' /\ conn[b].host = conn[c].host
          \/ acceptFailed'
          \/ pc = "stopped"]_vars

-----------------------------------------------------------------------------
\* Every byte that reaches the connection of a record is read, whatever the other
\* clients, new connections and datagrams keep the server busy with.
Served ==
    \A c \in 1 .. MaxConns :
        Owned(c) /\ conn[c].read < conn[c].sent
            ~> ~running \/ ~Owned(c) \/ conn[c].read = conn[c].sent

\* When the peer of a record's connection hangs up, its descriptor is closed, unless
\* the record has let go of it before: for another connection of the host, or for the
\* result of a failed accept().
HangupReleases ==
    \A c \in 1 .. MaxConns :
        Owned(c) /\ Ended(c) ~>
            \/ ~running
            \/ ~InTable(c)
            \/ ~Owned(c) /\ (acceptFailed \/ Replaced(c))

\* A connection waiting in the backlog is accepted, unless accept() fails.
PendingIsAccepted ==
    \A c \in 1 .. MaxConns : InBacklog(c) ~> ~running \/ Accepted(c) \/ acceptFailed

\* After SIGINT the server stops, however much there is to read.
StopsEventually == ~running ~> pc = "destroyed"

-----------------------------------------------------------------------------
\* The README: "The protocol supports a discover mechanism that allows the client
\* to find active servers on the same network automatically".  For that the answer
\* must come back to the socket the request was sent from.
DiscoverAnswersAsker ==
    reply # NoReply /\ reply.kind = "discover" => reply.to = reply.asker

\* clients_iterator_check_client_socket(), on a client that has disconnected:
\* "Remove the client, close the socket and release resources".
HangupCloses ==
    \A c \in 1 .. MaxConns :
        Accepted(c) /\ Ended(c) ~> ~running \/ ~InTable(c) \/ acceptFailed
=============================================================================
