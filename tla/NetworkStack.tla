---------------------------- MODULE NetworkStack ----------------------------
(***************************************************************************)
(* The network stack above the packet reader: address resolution           *)
(* (ArpModule), the echo replies of IcmpModule and the UDP sockets of      *)
(* UdpModule and DatagramSocket.                                           *)
(*                                                                         *)
(* One reader thread handles the packets of a device one after another, by *)
(* calls through all layers.  Applications bind, send, receive and close;  *)
(* each thread uses one socket, which it may share with other threads.     *)
(* ARP requests and replies can be lost or late.  Everything that is sent  *)
(* goes through sendPacket() of the device, which can wait for ever.       *)
(* Threads are not killed within these calls, where they would leave their *)
(* locks taken.                                                            *)
(***************************************************************************)
EXTENDS Integers, Sequences

CONSTANTS
  Apps, SocketOf,   \* application threads and the socket of each
  Senders,          \* bound: the applications that send
  Reader, Nobody,
  Hosts,            \* hosts of the network
  Ports,            \* ports from 1024 on
  MaxRequestRetries,
  OutCapacity,      \* MAX_BUFFERED_PACKETS of the outgoing queue
  Descriptors,      \* TRANSMIT_DESCRIPTOR_COUNT
  MaxDatagrams      \* bound: datagrams that arrive

Sockets == {SocketOf[a] : a \in Apps}

ASSUME StackAssumption ==
  /\ Senders \subseteq Apps /\ Reader \notin Apps /\ Nobody \notin Apps \cup {Reader}
  /\ Hosts # {} /\ Ports \subseteq Nat \ {0} /\ Ports # {}
  /\ MaxRequestRetries \in Nat \ {0}
  /\ OutCapacity \in Nat \ {0} /\ Descriptors \in Nat \ {0}
  /\ MaxDatagrams \in Nat

VARIABLES
  arrived,    \* the number of datagrams that the reader has read
  arpCache,   \* hosts with an entry; each host has one hardware address
  backlog,    \* the buffers in outgoingPacketQueue
  card,       \* those of them that the card has to transmit
  address,    \* the bind address of each socket, or Unbound
  registered, \* socketList of UdpModule
  deleted,    \* sockets whose memory is free
  socketLock, \* the holder of socketLock of UdpModule
  queue,      \* incomingDatagramQueue of each socket
  lock,       \* the holder of each socket's lock
  reader,     \* [pc, packet, todo, tries, next]
  app,        \* each application thread: [pc, host, tries, timed, next]
  last        \* the last datagram that was received from each socket

device == <<backlog, card>>
net == <<arrived, arpCache, backlog, card>>
sockets == <<address, registered, deleted, socketLock, queue, lock, last>>
vars == <<arrived, arpCache, backlog, card, address, registered, deleted, socketLock, queue, lock, reader, app, last>>

\* An Ip4PortAddress of this machine: any address or its own
Unbound == [any |-> FALSE, port |-> 0]
Addresses == [any : BOOLEAN, port : Ports]
NoPacket == [kind |-> "none"]
Idle == [pc |-> "read", packet |-> NoPacket, todo |-> {}, tries |-> 0, next |-> "read"]
Outside == [pc |-> "idle", host |-> CHOOSE h \in Hosts : TRUE, tries |-> 0, timed |-> FALSE, next |-> "idle"]
Modes == {"blocking", "timed", "nonblocking"}

Init ==
  /\ arrived = 0 /\ arpCache = {}
  /\ backlog = 0 /\ card = 0
  /\ address = [s \in Sockets |-> Unbound] /\ registered = {} /\ deleted = {}
  /\ socketLock = Nobody
  /\ queue = [s \in Sockets |-> <<>>] /\ lock = [s \in Sockets |-> Nobody] /\ last = [s \in Sockets |-> 0]
  /\ reader = Idle
  /\ app = [a \in Apps |-> Outside]

\* A failed call of the reader, which belongs to the kernel process, halts
\* the system.
Running == reader.pc # "panic"

-----------------------------------------------------------------------------
(***************************************************************************)
(* NetworkDevice::sendPacket() and the card                                *)
(***************************************************************************)
\* The caller waits for room in the queue and for a descriptor.  It does so
\* with outgoingPacketLock, which is taken for nothing else: the callers who
\* wait for the lock wait for the same, and one of them is served.
SendPacket ==
  /\ backlog < OutCapacity /\ card < Descriptors
  /\ backlog' = backlog + 1 /\ card' = card + 1

\* The card has sent a packet, and the handler frees n buffers: none when
\* the interrupt is merged with another one, reports an error or meets a
\* locked heap, and later perhaps one more that was postponed.
Transmitted(n) ==
  /\ Running /\ card > 0
  /\ card' = card - 1 /\ backlog' = backlog - n
  /\ backlog' >= card'
  /\ UNCHANGED <<arrived, arpCache, sockets, reader, app>>

-----------------------------------------------------------------------------
(***************************************************************************)
(* The reader thread                                                       *)
(***************************************************************************)
ReaderAt(l) == reader.pc = l

\* What a step sends at last; then the packet is done with.
Answers == reader' = [Idle EXCEPT !.pc = "send"]

\* PacketReader::run() hands the next packet to EthernetModule and the layers
\* above.  Any packet may be the next one, and an answer to our request may
\* never come: the packets that wait are left out, nobody else sees them.
\* A request or a reply enters its sender into the cache, and a request is
\* answered.
ReadArp(request, h) ==
  /\ ReaderAt("read")
  /\ arpCache' = arpCache \cup {h}
  /\ IF request THEN Answers ELSE UNCHANGED reader
  /\ UNCHANGED <<arrived, device, sockets, app>>

ReadEcho(h) ==
  /\ ReaderAt("read")
  /\ IF h \in arpCache THEN Answers
     ELSE reader' = [reader EXCEPT !.pc = "send", !.packet = [kind |-> "echo", host |-> h], !.next = "resolve"]
  /\ UNCHANGED <<net, sockets, app>>

ReadDatagram(p) ==
  /\ ReaderAt("read") /\ arrived < MaxDatagrams
  /\ arrived' = arrived + 1
  /\ reader' = [reader EXCEPT !.pc = "lockList", !.packet = [kind |-> "udp", port |-> p, id |-> arrived']]
  /\ UNCHANGED <<arpCache, device, sockets, app>>

\* IcmpModule::sendEchoReply() has to resolve the address, too: it has sent a
\* request and sleeps, looks again and sends the reply or the next request.
ReplyResolve ==
  /\ ReaderAt("resolve")
  /\ IF reader.tries + 1 = MaxRequestRetries THEN reader' = [reader EXCEPT !.pc = "panic"]
     ELSE IF reader.packet.host \in arpCache THEN Answers
     ELSE reader' = [reader EXCEPT !.pc = "send", !.tries = @ + 1]
  /\ UNCHANGED <<net, sockets, app>>

ReaderSend ==
  /\ ReaderAt("send") /\ SendPacket
  /\ reader' = IF reader.next = "read" THEN Idle ELSE [reader EXCEPT !.pc = "resolve"]
  /\ UNCHANGED <<arrived, arpCache, sockets, app>>

\* UdpModule::readPacket(): an address matches the port of a datagram for us.
Matching(p) == {s \in registered : address[s].port = p}

\* Fault: the list is copied before the lock is taken.
LockList_Early ==
  /\ ReaderAt("lockList")
  /\ IF reader.todo = {} THEN reader' = [reader EXCEPT !.todo = Matching(reader.packet.port)] /\ UNCHANGED socketLock
     ELSE socketLock = Nobody /\ socketLock' = Reader /\ reader' = [reader EXCEPT !.pc = "deliver"]
  /\ UNCHANGED <<net, address, registered, deleted, queue, lock, last, app>>

LockList ==
  /\ ReaderAt("lockList") /\ socketLock = Nobody
  /\ socketLock' = Reader
  /\ reader' = [reader EXCEPT !.pc = "deliver", !.todo = Matching(reader.packet.port)]
  /\ UNCHANGED <<net, address, registered, deleted, queue, lock, last, app>>

\* handleIncomingDatagram() for the next socket of the list
LockSocket(s) ==
  /\ ReaderAt("deliver") /\ s \in reader.todo
  /\ \A r \in Sockets : lock[r] # Reader
  /\ lock[s] = Nobody
  /\ lock' = [lock EXCEPT ![s] = Reader]
  /\ UNCHANGED <<net, address, registered, deleted, socketLock, queue, last, reader, app>>

\* The queue is a list that grows.
Offer(s) ==
  /\ ReaderAt("deliver") /\ lock[s] = Reader
  /\ queue' = [queue EXCEPT ![s] = Append(@, reader.packet.id)]
  /\ lock' = [lock EXCEPT ![s] = Nobody]
  /\ reader' = [reader EXCEPT !.todo = @ \ {s}]
  /\ UNCHANGED <<net, address, registered, deleted, socketLock, last, app>>

UnlockList ==
  /\ ReaderAt("deliver") /\ reader.todo = {}
  /\ socketLock' = Nobody /\ reader' = Idle
  /\ UNCHANGED <<net, address, registered, deleted, queue, lock, last, app>>

\* What the reader does within a call
ReaderNext == ReplyResolve \/ ReaderSend \/ LockList \/ UnlockList
              \/ \E s \in Sockets : LockSocket(s) \/ Offer(s)

-----------------------------------------------------------------------------
(***************************************************************************)
(* The applications                                                        *)
(***************************************************************************)
At(a, l) == Running /\ app[a].pc = l

Goto(a, l) == app' = [app EXCEPT ![a].pc = l]

\* The call is over and its local variables are gone.
Return(a) == app' = [app EXCEPT ![a] = Outside]

Open(a) == address[SocketOf[a]] # Unbound

\* UdpModule::registerSocket(): a specific address does not conflict with a
\* socket that is bound to any address, since addresses of different length
\* are never equal.
Conflict(old, new) == old.port = new.port /\ (new.any \/ old.any = new.any)

\* Fault: the list of sockets is not searched.
Refused_Never(new) == FALSE

Refused(new) == \E s \in registered : Conflict(address[s], new)

\* generatePort(): the first port that no socket with the same address has
FreePorts(any) == {p \in Ports : \A s \in registered : address[s].port = p => ~(any \/ address[s].any = any)}

Chosen(any, port) ==
  IF port # 0 THEN port ELSE CHOOSE p \in FreePorts(any) : \A q \in FreePorts(any) : p <= q

\* Socket::bind() with the lock held; when the address is in use the process
\* exits, which closes its socket.
Bind(a, any, port) ==
  /\ At(a, "idle") /\ ~Open(a) /\ SocketOf[a] \notin deleted
  /\ socketLock = Nobody
  /\ port = 0 => FreePorts(any) # {}
  /\ LET new == [any |-> any, port |-> Chosen(any, port)]
     IN  /\ address' = [address EXCEPT ![SocketOf[a]] = new]
         /\ IF Refused(new) THEN Goto(a, "close") /\ UNCHANGED registered
            ELSE registered' = registered \cup {SocketOf[a]} /\ UNCHANGED app
  /\ UNCHANGED <<net, deleted, socketLock, queue, lock, last, reader>>

\* UdpSocket::send(): resolveAddress() finds the entry and the datagram is
\* sent, or it sends a request and sleeps, ...
Send(a, h) ==
  /\ a \in Senders /\ At(a, "idle") /\ SocketOf[a] \in registered
  /\ app' = [app EXCEPT ![a] = IF h \in arpCache THEN [Outside EXCEPT !.pc = "send"]
                                ELSE [Outside EXCEPT !.pc = "send", !.host = h, !.next = "resolve"]]
  /\ UNCHANGED <<net, sockets, reader>>

\* Fault: the requests are not counted.
SendResolve_Endless(a) ==
  /\ At(a, "resolve")
  /\ app' = IF app[a].host \in arpCache THEN [app EXCEPT ![a] = [Outside EXCEPT !.pc = "send"]]
            ELSE [app EXCEPT ![a].pc = "send"]
  /\ UNCHANGED <<net, sockets, reader>>

\* ... looks again, and gives up after some requests: the process exits.
SendResolve(a) ==
  /\ At(a, "resolve")
  /\ app' = IF app[a].tries + 1 = MaxRequestRetries THEN [app EXCEPT ![a] = [Outside EXCEPT !.pc = "close"]]
            ELSE IF app[a].host \in arpCache THEN [app EXCEPT ![a] = [Outside EXCEPT !.pc = "send"]]
            ELSE [app EXCEPT ![a].pc = "send", ![a].tries = @ + 1]
  /\ UNCHANGED <<net, sockets, reader>>

AppSend(a) ==
  /\ At(a, "send") /\ SendPacket
  /\ IF app[a].next = "idle" THEN Return(a) ELSE Goto(a, "resolve")
  /\ UNCHANGED <<arrived, arpCache, sockets, reader>>

\* RECEIVE_DATAGRAM: a non-blocking descriptor is looked at first, a blocking
\* one may have a timeout.
Receive(a, mode) ==
  /\ At(a, "idle") /\ SocketOf[a] \in registered
  /\ mode = "nonblocking" => queue[SocketOf[a]] # <<>>
  /\ app' = [app EXCEPT ![a].pc = "receive", ![a].timed = (mode = "timed")]
  /\ UNCHANGED <<net, sockets, reader>>

\* DatagramSocket::receive() waits until there is something ...
ReceiveReady(a) ==
  /\ At(a, "receive") /\ queue[SocketOf[a]] # <<>>
  /\ app' = [app EXCEPT ![a] = [Outside EXCEPT !.pc = "lock"]]
  /\ UNCHANGED <<net, sockets, reader>>

\* ... or the time is over ...
ReceiveTimeout(a) ==
  /\ At(a, "receive") /\ app[a].timed /\ queue[SocketOf[a]] = <<>>
  /\ Return(a)
  /\ UNCHANGED <<net, sockets, reader>>

\* ... takes the lock and polls.
ReceiveLock(a) ==
  /\ At(a, "lock") /\ lock[SocketOf[a]] = Nobody
  /\ lock' = [lock EXCEPT ![SocketOf[a]] = a]
  /\ Goto(a, "poll")
  /\ UNCHANGED <<net, address, registered, deleted, socketLock, queue, last, reader>>

\* Fault: the lock is kept.
ReceivePoll_Locked(a) ==
  /\ At(a, "poll") /\ queue[SocketOf[a]] # <<>>
  /\ last' = [last EXCEPT ![SocketOf[a]] = Head(queue[SocketOf[a]])]
  /\ queue' = [queue EXCEPT ![SocketOf[a]] = Tail(@)]
  /\ Return(a)
  /\ UNCHANGED <<net, address, registered, deleted, socketLock, lock, reader>>

\* Fault: the element is not removed.
ReceivePoll_Peek(a) ==
  /\ At(a, "poll") /\ queue[SocketOf[a]] # <<>>
  /\ last' = [last EXCEPT ![SocketOf[a]] = Head(queue[SocketOf[a]])]
  /\ lock' = [lock EXCEPT ![SocketOf[a]] = Nobody]
  /\ Return(a)
  /\ UNCHANGED <<net, address, registered, deleted, socketLock, queue, reader>>

\* poll() waits with the lock when the queue is empty.
ReceivePoll(a) ==
  /\ At(a, "poll") /\ queue[SocketOf[a]] # <<>>
  /\ last' = [last EXCEPT ![SocketOf[a]] = Head(queue[SocketOf[a]])]
  /\ queue' = [queue EXCEPT ![SocketOf[a]] = Tail(@)]
  /\ lock' = [lock EXCEPT ![SocketOf[a]] = Nobody]
  /\ Return(a)
  /\ UNCHANGED <<net, address, registered, deleted, socketLock, reader>>

\* The socket is closed: ~UdpSocket() deregisters it, then its memory is free.
\* Of the programs it is assumed that no other thread uses the socket then:
\* the code does not wait for one.
Close(a) ==
  /\ At(a, "close") \/ (At(a, "idle") /\ Open(a))
  /\ SocketOf[a] \notin deleted
  /\ \A b \in Apps \ {a} : SocketOf[b] = SocketOf[a] => app[b].pc = "idle"
  /\ socketLock = Nobody
  /\ registered' = registered \ {SocketOf[a]}
  /\ Goto(a, "delete")
  /\ UNCHANGED <<net, address, deleted, socketLock, queue, lock, last, reader>>

Delete(a) ==
  /\ At(a, "delete")
  /\ address' = [address EXCEPT ![SocketOf[a]] = Unbound]
  /\ queue' = [queue EXCEPT ![SocketOf[a]] = <<>>] /\ last' = [last EXCEPT ![SocketOf[a]] = 0]
  /\ deleted' = deleted \cup {SocketOf[a]}
  /\ Return(a)
  /\ UNCHANGED <<net, registered, socketLock, lock, reader>>

\* The next socket may get the memory of the last one.
Create(a) ==
  /\ At(a, "idle") /\ SocketOf[a] \in deleted
  /\ deleted' = deleted \ {SocketOf[a]}
  /\ UNCHANGED <<net, address, registered, socketLock, queue, lock, last, reader, app>>

\* What a thread does within a call
AppNext(a) == SendResolve(a) \/ AppSend(a) \/ ReceiveReady(a) \/ ReceiveTimeout(a) \/ ReceiveLock(a) \/ ReceivePoll(a)
              \/ Delete(a) \/ (At(a, "close") /\ Close(a))

Next ==
  \/ ReaderNext
  \/ \E n \in 0..OutCapacity : Transmitted(n)
  \/ \E h \in Hosts : ReadEcho(h) \/ \E request \in BOOLEAN : ReadArp(request, h)
  \/ \E p \in Ports : ReadDatagram(p)
  \/ \E a \in Apps :
       \/ AppNext(a) \/ Close(a) \/ Create(a)
       \/ \E h \in Hosts : Send(a, h)
       \/ \E mode \in Modes : Receive(a, mode)
       \/ \E any \in BOOLEAN, p \in Ports \cup {0} : Bind(a, any, p)

Spec == Init /\ [][Next]_vars

\* The scheduler runs every thread again, the card sends what it is given, and
\* a thread that tries again and again finds room in the queue at last.
\* Nothing makes packets arrive.
FairSpec ==
  /\ Spec
  /\ WF_vars(\E n \in 0..OutCapacity : Transmitted(n))
  /\ WF_vars(ReaderNext) /\ SF_vars(ReaderSend)
  /\ \A a \in Apps : WF_vars(AppNext(a)) /\ SF_vars(AppSend(a))

-----------------------------------------------------------------------------
(***************************************************************************)
(* Properties                                                              *)
(***************************************************************************)
Packets == {NoPacket} \cup [kind : {"echo"}, host : Hosts] \cup [kind : {"udp"}, port : Ports, id : 1..MaxDatagrams]

Holders == Apps \cup {Reader, Nobody}

\* Types of the variables; the socket of a busy thread is bound, and the
\* reader holds the lock of the list while it delivers a datagram
\* (UdpModule::readPacket()).
TypeOK ==
  /\ arrived \in 0..MaxDatagrams /\ arpCache \subseteq Hosts
  /\ card \in 0..Descriptors /\ backlog \in card..OutCapacity
  /\ address \in [Sockets -> Addresses \cup {Unbound}]
  /\ registered \subseteq Sockets /\ deleted \subseteq Sockets
  /\ socketLock \in {Nobody, Reader} /\ lock \in [Sockets -> Holders]
  /\ queue \in [Sockets -> Seq(1..MaxDatagrams)] /\ last \in [Sockets -> 0..MaxDatagrams]
  /\ reader \in [pc : {"read", "resolve", "send", "lockList", "deliver", "panic"}, packet : Packets,
                 todo : SUBSET Sockets, tries : 0..MaxRequestRetries, next : {"read", "resolve"}]
  /\ app \in [Apps -> [pc : {"idle", "resolve", "send", "receive", "lock", "poll", "close", "delete"},
                       host : Hosts, tries : 0..MaxRequestRetries, timed : BOOLEAN, next : {"idle", "resolve"}]]
  /\ socketLock = Reader <=> reader.pc = "deliver"
  /\ \A a \in Apps : app[a].pc # "idle" => address[SocketOf[a]] # Unbound

\* A socket that is being closed is deregistered under the lock of the list,
\* before its queue is destroyed: the reader never delivers to a socket that
\* is already deleted (UdpSocket::~UdpSocket(), UdpModule::readPacket()).
SocketAlive ==
  /\ TypeOK
  /\ registered \cap deleted = {}
  /\ reader.todo \cap deleted = {}
  /\ \A s \in Sockets : lock[s] = Reader => s \in reader.todo

\* The datagrams of a socket are received in the order of their arrival and
\* none is received twice, whatever the reader delivers meanwhile
\* (DatagramSocket::receive(), handleIncomingDatagram()).
ReceivedInOrder ==
  \A s \in Sockets : LET q == <<last[s]>> \o queue[s]
                     IN  \A i, j \in 1..Len(q) : i < j => q[i] < q[j]

\* No two registered sockets have the same address, not even when one of them
\* got its port from generatePort() (UdpModule::registerSocket()).
AddressUnique == \A s, t \in registered : s # t => address[s] # address[t]

\* The outgoing queue is full of buffers that no interrupt will free any more:
\* sendPacket() waits for ever, with outgoingPacketLock (NetworkDevice.cpp:81-82).
Clogged == backlog = OutCapacity /\ card = 0

\* Every packet is handled at last, though the reader waits for sockets whose
\* lock a receiver has, for the device to take what it sends, and for the answer
\* to its own ARP requests, which it cannot read meanwhile.  Otherwise the
\* address has stayed unknown and the kernel has halted, or the device is
\* clogged (PacketReader::run(), ArpModule::resolveAddress(), sendPacket()).
\* It is claimed for threads that have their own sockets: with a shared one a
\* receiver may wait within poll() and hold the lock of the socket.
ReaderReturns ==
  reader.pc \in {"resolve", "send", "lockList", "deliver"} ~> ReaderAt("read") \/ ~Running \/ Clogged

\* Every call returns, if all threads have their own sockets and the device
\* is not clogged: a send finds an address or gives up, a receive ends when
\* there is a datagram or its time is over (UdpSocket::send(),
\* DatagramSocket::receive(), ~UdpSocket()).
CallsReturn ==
  \A a \in Apps :
    (app[a].pc # "idle" /\ (app[a].pc = "receive" /\ ~app[a].timed => queue[SocketOf[a]] # <<>>))
      ~> (app[a].pc = "idle" \/ ~Running \/ Clogged)
=============================================================================
