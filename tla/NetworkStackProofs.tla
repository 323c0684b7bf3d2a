------------------------- MODULE NetworkStackProofs -------------------------
(***************************************************************************)
(* For any number of threads, sockets, hosts and ports, also when threads  *)
(* share a socket: the reader delivers to sockets that exist, each socket  *)
(* receives its datagrams in order, and registered addresses differ.       *)
(***************************************************************************)
EXTENDS NetworkStack, TLAPS, WellFoundedInduction

\* The reader has sockets to deliver to only while it holds the lock of the
\* list; a socket whose thread is about to delete it is in no list, and the
\* other threads that share it are out of it.
ListInv ==
  /\ reader.pc # "deliver" => reader.todo = {}
  /\ \A s \in registered : address[s] # Unbound
  /\ \A a \in Apps : app[a].pc = "delete" =>
       /\ SocketOf[a] \notin registered /\ SocketOf[a] \notin reader.todo
       /\ \A b \in Apps \ {a} : SocketOf[b] = SocketOf[a] => app[b].pc = "idle"

\* The last request is not sent again.
RetryInv == reader.tries < MaxRequestRetries /\ \A a \in Apps : app[a].tries < MaxRequestRetries

\* All that socket s holds or has handed out arrived before datagram n.
Before(s, n) == last[s] < n /\ \A i \in 1..Len(queue[s]) : queue[s][i] < n

\* The datagram that the reader has in its hands is the last that arrived; the
\* sockets that it has still to serve have got only earlier ones, ...
ReaderInv ==
  reader.pc \in {"lockList", "deliver"} =>
    /\ reader.packet.kind = "udp" /\ reader.packet.id <= arrived
    /\ \A s \in Sockets : reader.pc = "lockList" \/ s \in reader.todo => Before(s, reader.packet.id)

\* ... and what each socket has is in order.
SocketInv ==
  \A s \in Sockets :
    /\ Before(s, arrived + 1)
    /\ \A i \in 1..Len(queue[s]) : last[s] < queue[s][i]
    /\ \A i, j \in 1..Len(queue[s]) : i < j => queue[s][i] < queue[s][j]

IInv == SocketAlive /\ AddressUnique /\ ListInv /\ RetryInv /\ ReaderInv /\ SocketInv

-----------------------------------------------------------------------------
\* generatePort() finds the smallest free port if there is one.
LEMMA SmallestPort ==
  ASSUME NEW S, S \subseteq Nat, S # {}
  PROVE  (CHOOSE p \in S : \A q \in S : p <= q) \in S
<1> DEFINE R == OpToRel(<, Nat)
<1>1. IsWellFoundedOn(R, Nat)
  BY NatLessThanWellFounded
<1>2. R = {ss \in Nat \X Nat : ss[1] < ss[2]}
  BY DEF OpToRel
<1> HIDE DEF R
<1>3. PICK x \in S : \A y \in S : ~(<<y, x>> \in R)
  BY <1>1, WFMin
<1>4. ASSUME NEW y \in S, y < x PROVE FALSE
  <2>1. <<y, x>> \in Nat \X Nat /\ <<y, x>>[1] = y /\ <<y, x>>[2] = x
    OBVIOUS
  <2>2. <<y, x>> \in R
    BY <1>2, <1>4, <2>1
  <2> QED BY <1>3, <2>2
<1>5. \A y \in S : x <= y
  BY <1>4
<1> QED BY <1>5

\* The values of the record variables.
LEMMA Shapes ==
  /\ Unbound \notin Addresses
  /\ Idle \in [pc : {"read"}, packet : Packets, todo : {{}}, tries : {0}, next : {"read"}]
  /\ Idle.pc = "read" /\ Idle.todo = {} /\ Idle.tries = 0
  /\ Outside \in [pc : {"idle"}, host : Hosts, tries : {0}, timed : BOOLEAN, next : {"idle"}]
  /\ Outside.pc = "idle" /\ Outside.tries = 0
  /\ NoPacket.kind = "none" /\ NoPacket \in Packets
<1>1. (CHOOSE h \in Hosts : TRUE) \in Hosts
  BY StackAssumption
<1>2. Unbound \notin Addresses
  BY StackAssumption DEF Unbound, Addresses
<1> QED BY <1>1, <1>2 DEF Idle, Outside, NoPacket, Packets, Modes

\* What is in a packet, by kind.
LEMMA PacketShape ==
  ASSUME NEW p \in Packets
  PROVE  p.kind = "udp" => p.port \in Ports /\ p.id \in 1..MaxDatagrams
BY DEF Packets, NoPacket

\* The parts of the invariant that types give.
LEMMA Typed ==
  ASSUME IInv
  PROVE  /\ TypeOK
         /\ \A s \in Sockets : queue[s] \in Seq(1..MaxDatagrams) /\ last[s] \in Nat
                              /\ \A i \in 1..Len(queue[s]) : queue[s][i] \in Nat
         /\ \A a \in Apps : SocketOf[a] \in Sockets
         /\ arrived \in Nat /\ MaxDatagrams \in Nat
<1>1. TypeOK
  BY DEF IInv, SocketAlive
<1>2. \A s \in Sockets : queue[s] \in Seq(1..MaxDatagrams) /\ last[s] \in Nat
  BY <1>1, StackAssumption DEF TypeOK
<1>3. \A s \in Sockets : \A i \in 1..Len(queue[s]) : queue[s][i] \in Nat
  BY <1>2, StackAssumption
<1>5. \A a \in Apps : SocketOf[a] \in Sockets
  BY DEF Sockets
<1>6. arrived \in Nat /\ MaxDatagrams \in Nat
  BY <1>1, StackAssumption DEF TypeOK
<1> QED BY <1>1, <1>2, <1>3, <1>5, <1>6

-----------------------------------------------------------------------------
\* Nothing is bound, nothing has arrived.
LEMMA InitInv == Init => IInv
<1> SUFFICES ASSUME Init PROVE IInv
  OBVIOUS
<1> USE Shapes, StackAssumption DEF Init
<1>1. TypeOK
  <2>1. reader \in [pc : {"read", "resolve", "send", "lockList", "deliver", "panic"}, packet : Packets,
                    todo : SUBSET Sockets, tries : 0..MaxRequestRetries, next : {"read", "resolve"}]
    OBVIOUS
  <2>2. app \in [Apps -> [pc : {"idle", "resolve", "send", "receive", "lock", "poll", "close", "delete"},
                          host : Hosts, tries : 0..MaxRequestRetries, timed : BOOLEAN, next : {"idle", "resolve"}]]
    OBVIOUS
  <2> QED BY <2>1, <2>2 DEF TypeOK, Holders
<1>2. SocketAlive /\ AddressUnique
  BY <1>1 DEF SocketAlive, AddressUnique
<1>3. ListInv /\ RetryInv
  BY DEF ListInv, RetryInv
<1>4. ReaderInv /\ SocketInv
  BY DEF ReaderInv, SocketInv, Before
<1> QED BY <1>2, <1>3, <1>4 DEF IInv

-----------------------------------------------------------------------------
\* The types of the two record variables.
ReaderRecords == [pc : {"read", "resolve", "send", "lockList", "deliver", "panic"}, packet : Packets,
                  todo : SUBSET Sockets, tries : 0..MaxRequestRetries, next : {"read", "resolve"}]
AppRecords == [pc : {"idle", "resolve", "send", "receive", "lock", "poll", "close", "delete"},
               host : Hosts, tries : 0..MaxRequestRetries, timed : BOOLEAN, next : {"idle", "resolve"}]

\* A step that reads nothing, offers nothing and polls nothing.
LEMMA OrderKept ==
  ASSUME IInv, UNCHANGED <<arrived, reader, queue, last>>
  PROVE  ReaderInv' /\ SocketInv'
<1>1. ReaderInv'
  BY DEF IInv, ReaderInv, Before
<1>2. SocketInv'
  BY DEF IInv, SocketInv, Before
<1> QED BY <1>1, <1>2

\* What the device counts after a packet has been given to it.
DeviceTyped == card \in 0..Descriptors /\ backlog \in card..OutCapacity

LEMMA SendPacketTyped ==
  ASSUME IInv, SendPacket
  PROVE  DeviceTyped'
<1>1. /\ card \in Nat /\ backlog \in Nat /\ card <= backlog /\ backlog < OutCapacity /\ card < Descriptors
      /\ Descriptors \in Nat /\ OutCapacity \in Nat
      /\ card' = card + 1 /\ backlog' = backlog + 1
  BY Typed, StackAssumption DEF SendPacket, TypeOK
<1> QED BY <1>1 DEF DeviceTyped

\* The card and the interrupt handler touch only the device.
LEMMA TransmittedKeeps ==
  ASSUME IInv, NEW n \in 0..OutCapacity, Transmitted(n)
  PROVE  IInv'
<1>0. TypeOK /\ UNCHANGED <<arrived, arpCache, sockets, reader, app>>
  BY Typed DEF Transmitted
<1>1. DeviceTyped'
  <2>1. /\ card \in Nat /\ backlog \in Nat /\ backlog <= OutCapacity /\ card <= Descriptors /\ card > 0
        /\ Descriptors \in Nat /\ OutCapacity \in Nat /\ n \in Nat
        /\ card' = card - 1 /\ backlog' = backlog - n /\ backlog' >= card'
    BY <1>0, StackAssumption DEF Transmitted, TypeOK
  <2> QED BY <2>1 DEF DeviceTyped
<1> USE DEF sockets, IInv
<1>2. TypeOK'
  BY <1>0, <1>1 DEF TypeOK, DeviceTyped
<1>3. SocketAlive' /\ AddressUnique' /\ ListInv' /\ RetryInv'
  BY <1>0, <1>2 DEF SocketAlive, AddressUnique, ListInv, RetryInv
<1> QED BY <1>0, <1>3, OrderKept

\* The reader leaves the sockets alone.
LEMMA ReaderMoves ==
  ASSUME IInv, NEW x \in ReaderRecords, reader' = x, x.pc # "deliver", x.todo = {}, reader.pc # "deliver",
         x.tries < MaxRequestRetries, arpCache' \subseteq Hosts, DeviceTyped',
         x.pc # "lockList", UNCHANGED <<arrived, sockets, app>>
  PROVE  IInv'
<1> USE DEF sockets, IInv
<1>1. TypeOK'
  BY Typed DEF TypeOK, ReaderRecords, DeviceTyped
<1>2. SocketAlive'
  BY <1>1 DEF SocketAlive, ListInv
<1>3. AddressUnique' /\ ListInv' /\ RetryInv'
  BY DEF AddressUnique, ListInv, RetryInv
<1>4. ReaderInv'
  BY DEF ReaderInv
<1>5. SocketInv'
  BY DEF SocketInv, Before
<1> QED BY <1>2, <1>3, <1>4, <1>5

\* What the reader becomes when it has only to send an answer.
LEMMA AnswersShape ==
  ASSUME Answers
  PROVE  reader' \in ReaderRecords /\ reader'.pc = "send" /\ reader'.todo = {} /\ reader'.tries = 0
<1>1. reader' = [Idle EXCEPT !.pc = "send"]
  BY DEF Answers
<1> QED BY <1>1, Shapes, StackAssumption DEF ReaderRecords

\* The reader outside the delivery of a datagram.
LEMMA ReaderShape ==
  ASSUME IInv, reader.pc # "deliver"
  PROVE  /\ TypeOK /\ DeviceTyped /\ reader \in ReaderRecords /\ reader.todo = {}
         /\ reader.tries < MaxRequestRetries /\ reader.tries \in Nat /\ MaxRequestRetries \in Nat \ {0}
BY Typed, StackAssumption DEF IInv, ListInv, RetryInv, TypeOK, ReaderRecords, DeviceTyped

\* ArpModule::readPacket()
LEMMA ReadArpKeeps ==
  ASSUME IInv, NEW request \in BOOLEAN, NEW h \in Hosts, ReadArp(request, h)
  PROVE  IInv'
<1>0. /\ reader.pc = "read" /\ arpCache' = arpCache \cup {h}
      /\ UNCHANGED <<arrived, backlog, card, sockets, app>>
      /\ Answers \/ UNCHANGED reader
  BY DEF ReadArp, ReaderAt, device
<1>1. /\ TypeOK /\ DeviceTyped /\ reader \in ReaderRecords /\ reader.todo = {} /\ reader.tries < MaxRequestRetries
      /\ MaxRequestRetries \in Nat \ {0}
  BY <1>0, ReaderShape
<1>2. arpCache' \subseteq Hosts /\ DeviceTyped'
  BY <1>0, <1>1 DEF TypeOK, DeviceTyped
<1>3. /\ reader' \in ReaderRecords /\ reader'.pc \in {"send", "read"} /\ reader'.todo = {}
      /\ reader'.tries < MaxRequestRetries
  BY <1>0, <1>1, AnswersShape
<1> QED BY <1>0, <1>2, <1>3, ReaderMoves

\* IcmpModule::readPacket()
LEMMA ReadEchoKeeps ==
  ASSUME IInv, NEW h \in Hosts, ReadEcho(h)
  PROVE  IInv'
<1> DEFINE p == [kind |-> "echo", host |-> h]
<1>0. /\ reader.pc = "read" /\ UNCHANGED <<arrived, arpCache, backlog, card, sockets, app>>
      /\ Answers \/ reader' = [reader EXCEPT !.pc = "send", !.packet = p, !.next = "resolve"]
  BY DEF ReadEcho, ReaderAt, net
<1>1. /\ TypeOK /\ DeviceTyped /\ reader \in ReaderRecords /\ reader.todo = {} /\ reader.tries < MaxRequestRetries
      /\ MaxRequestRetries \in Nat \ {0}
  BY <1>0, ReaderShape
<1>2. arpCache' \subseteq Hosts /\ DeviceTyped' /\ p \in Packets
  BY <1>0, <1>1 DEF TypeOK, DeviceTyped, Packets
<1> HIDE DEF p
<1>3. /\ reader' \in ReaderRecords /\ reader'.pc = "send" /\ reader'.todo = {}
      /\ reader'.tries < MaxRequestRetries
  <2>1. CASE Answers
    BY <1>1, <2>1, AnswersShape
  <2>2. CASE reader' = [reader EXCEPT !.pc = "send", !.packet = p, !.next = "resolve"]
    BY <1>1, <1>2, <2>2 DEF ReaderRecords
  <2> QED BY <1>0, <2>1, <2>2
<1> QED BY <1>0, <1>2, <1>3, ReaderMoves

\* UdpModule::readPacket() gets a datagram, which is newer than all others.
LEMMA ReadDatagramKeeps ==
  ASSUME IInv, NEW q \in Ports, ReadDatagram(q)
  PROVE  IInv'
<1> DEFINE p == [kind |-> "udp", port |-> q, id |-> arrived']
<1>0. /\ reader.pc = "read" /\ arrived < MaxDatagrams /\ arrived' = arrived + 1
      /\ reader' = [reader EXCEPT !.pc = "lockList", !.packet = p]
      /\ UNCHANGED <<arpCache, backlog, card, sockets, app>>
  BY DEF ReadDatagram, ReaderAt, device
<1>1. TypeOK /\ reader \in ReaderRecords /\ reader.todo = {} /\ reader.tries < MaxRequestRetries
  BY <1>0, ReaderShape
<1>2. arrived \in Nat /\ MaxDatagrams \in Nat /\ arrived' \in 1..MaxDatagrams /\ arrived' \in Nat
  BY <1>0, Typed
<1>3. p \in Packets /\ p.kind = "udp" /\ p.id = arrived'
  BY <1>2 DEF Packets
<1> HIDE DEF p
<1>4. /\ reader' \in ReaderRecords /\ reader'.pc = "lockList" /\ reader'.todo = {}
      /\ reader'.tries = reader.tries /\ reader'.packet = p
  BY <1>0, <1>1, <1>3 DEF ReaderRecords
<1> USE DEF sockets, IInv
<1>5. TypeOK'
  <2>1. arrived' \in 0..MaxDatagrams
    BY <1>2
  <2> QED BY <1>0, <1>1, <1>4, <2>1 DEF TypeOK, ReaderRecords
<1>6. SocketAlive'
  BY <1>0, <1>1, <1>4, <1>5 DEF SocketAlive
<1>7. AddressUnique' /\ ListInv' /\ RetryInv'
  BY <1>0, <1>1, <1>4 DEF AddressUnique, ListInv, RetryInv
<1>8. \A s \in Sockets : Before(s, arrived') /\ Before(s, arrived' + 1)
  <2> SUFFICES ASSUME NEW s \in Sockets PROVE Before(s, arrived') /\ Before(s, arrived' + 1)
    OBVIOUS
  <2>1. last[s] \in Nat /\ \A i \in 1..Len(queue[s]) : queue[s][i] \in Nat
    BY Typed
  <2>2. Before(s, arrived + 1)
    BY DEF SocketInv
  <2>3. \A n \in Nat : n < arrived + 1 => n < arrived' /\ n < arrived' + 1
    BY <1>0, <1>2
  <2> QED BY <2>1, <2>2, <2>3 DEF Before
<1>9. SocketInv'
  BY <1>0, <1>8 DEF SocketInv, Before
<1>10. ReaderInv'
  <2>1. reader'.packet.kind = "udp" /\ reader'.packet.id = arrived' /\ arrived' <= arrived'
    BY <1>2, <1>3, <1>4
  <2> QED BY <1>0, <1>4, <1>8, <2>1 DEF ReaderInv, Before
<1> QED BY <1>6, <1>7, <1>9, <1>10

\* IcmpModule waits for an address, ...
LEMMA ReplyKeeps ==
  ASSUME IInv, ReplyResolve
  PROVE  IInv'
<1>0. reader.pc = "resolve" /\ UNCHANGED <<arrived, arpCache, backlog, card, sockets, app>>
  BY DEF ReplyResolve, ReaderAt, net
<1>1. /\ TypeOK /\ DeviceTyped /\ reader \in ReaderRecords /\ reader.todo = {} /\ reader.tries < MaxRequestRetries
      /\ reader.tries \in Nat /\ MaxRequestRetries \in Nat \ {0}
  BY <1>0, ReaderShape
<1>2. arpCache' \subseteq Hosts /\ DeviceTyped'
  BY <1>0, <1>1 DEF TypeOK, DeviceTyped
<1>3. \/ reader' = [reader EXCEPT !.pc = "panic"]
      \/ Answers
      \/ reader' = [reader EXCEPT !.pc = "send", !.tries = @ + 1] /\ reader.tries + 1 # MaxRequestRetries
  BY DEF ReplyResolve
<1>4. /\ reader' \in ReaderRecords /\ reader'.todo = {} /\ reader'.tries < MaxRequestRetries
      /\ reader'.pc \in {"panic", "send"}
  <2>1. CASE Answers
    BY <1>1, <2>1, AnswersShape
  <2>2. CASE reader' = [reader EXCEPT !.pc = "panic"]
    BY <1>1, <2>2 DEF ReaderRecords
  <2>3. CASE reader' = [reader EXCEPT !.pc = "send", !.tries = @ + 1] /\ reader.tries + 1 # MaxRequestRetries
    <3>1. reader.tries + 1 \in 0..MaxRequestRetries /\ reader.tries + 1 < MaxRequestRetries
      BY <1>1, <2>3
    <3> QED BY <1>1, <2>3, <3>1 DEF ReaderRecords
  <2> QED BY <1>3, <2>1, <2>2, <2>3
<1> QED BY <1>0, <1>2, <1>4, ReaderMoves

\* ... and sends what it has to send.
LEMMA ReaderSendKeeps ==
  ASSUME IInv, ReaderSend
  PROVE  IInv'
<1>0. /\ reader.pc = "send" /\ SendPacket /\ UNCHANGED <<arrived, arpCache, sockets, app>>
      /\ reader' = Idle \/ reader' = [reader EXCEPT !.pc = "resolve"]
  BY DEF ReaderSend, ReaderAt
<1>1. /\ TypeOK /\ reader \in ReaderRecords /\ reader.todo = {} /\ reader.tries < MaxRequestRetries
      /\ MaxRequestRetries \in Nat \ {0}
  BY <1>0, ReaderShape
<1>2. arpCache' \subseteq Hosts /\ DeviceTyped'
  BY <1>0, <1>1, SendPacketTyped DEF TypeOK
<1>3. Idle \in ReaderRecords /\ Idle.pc = "read" /\ Idle.todo = {} /\ Idle.tries < MaxRequestRetries
  BY <1>1, Shapes DEF ReaderRecords
<1>4. /\ reader' \in ReaderRecords /\ reader'.todo = {} /\ reader'.tries < MaxRequestRetries
      /\ reader'.pc \in {"read", "resolve"}
  <2>1. CASE reader' = [reader EXCEPT !.pc = "resolve"]
    BY <1>1, <2>1 DEF ReaderRecords
  <2> QED BY <1>0, <1>3, <2>1
<1> QED BY <1>0, <1>2, <1>4, ReaderMoves

\* UdpModule::readPacket() takes the lock of the list: none of the sockets in
\* it is deleted, and all have got only earlier datagrams.
LEMMA LockListKeeps ==
  ASSUME IInv, LockList
  PROVE  IInv'
<1> DEFINE M == Matching(reader.packet.port)
<1>0. /\ TypeOK /\ reader \in ReaderRecords /\ reader.pc = "lockList" /\ reader.todo = {}
      /\ socketLock' = Reader
      /\ UNCHANGED <<arrived, arpCache, backlog, card, address, registered, deleted, queue, lock, last, app>>
  BY Typed DEF LockList, ReaderAt, net, IInv, ListInv, TypeOK, ReaderRecords
<1>1. M \subseteq registered /\ M \subseteq Sockets
  BY <1>0 DEF Matching, TypeOK
<1>2. /\ reader' \in ReaderRecords /\ reader'.pc = "deliver" /\ reader'.todo = M
      /\ reader'.packet = reader.packet /\ reader'.tries = reader.tries
  <2>1. reader' = [reader EXCEPT !.pc = "deliver", !.todo = M]
    BY DEF LockList
  <2> HIDE DEF M
  <2> QED BY <1>0, <1>1, <2>1 DEF ReaderRecords
<1> HIDE DEF M
<1> USE DEF IInv
<1>3. TypeOK'
  BY <1>0, <1>2 DEF TypeOK, ReaderRecords
<1>4. SocketAlive'
  BY <1>0, <1>1, <1>2, <1>3 DEF SocketAlive
<1>5. AddressUnique' /\ RetryInv'
  BY <1>0, <1>2 DEF AddressUnique, RetryInv
<1>6. ListInv'
  BY <1>0, <1>1, <1>2 DEF ListInv
<1>7. SocketInv'
  BY <1>0 DEF SocketInv, Before
<1>8. ReaderInv'
  BY <1>0, <1>1, <1>2 DEF ReaderInv, Before
<1> QED BY <1>4, <1>5, <1>6, <1>7, <1>8

\* The reader leaves the list of sockets when it has served them all.
LEMMA UnlockListKeeps ==
  ASSUME IInv, UnlockList
  PROVE  IInv'
<1>0. /\ TypeOK /\ reader.pc = "deliver" /\ reader.todo = {}
      /\ socketLock' = Nobody /\ reader' = Idle
      /\ UNCHANGED <<arrived, arpCache, backlog, card, address, registered, deleted, queue, lock, last, app>>
  BY Typed DEF UnlockList, ReaderAt, net
<1>1. reader' \in ReaderRecords /\ reader'.pc = "read" /\ reader'.todo = {} /\ reader'.tries = 0
  BY <1>0, Shapes, StackAssumption DEF ReaderRecords
<1> USE DEF IInv
<1>2. Nobody # Reader
  BY StackAssumption
<1>3. TypeOK'
  BY <1>0, <1>1, <1>2 DEF TypeOK, ReaderRecords
<1>4. SocketAlive'
  BY <1>0, <1>1, <1>3 DEF SocketAlive
<1>5. AddressUnique' /\ ListInv' /\ RetryInv'
  BY <1>0, <1>1, StackAssumption DEF AddressUnique, RetryInv, ListInv
<1>6. SocketInv'
  BY <1>0 DEF SocketInv, Before
<1>7. ReaderInv'
  BY <1>1 DEF ReaderInv
<1> QED BY <1>4, <1>5, <1>6, <1>7

\* handleIncomingDatagram() takes the lock of a socket ...
LEMMA LockSocketKeeps ==
  ASSUME IInv, NEW s \in Sockets, LockSocket(s)
  PROVE  IInv'
<1>0. /\ TypeOK /\ reader.pc = "deliver" /\ s \in reader.todo
      /\ lock' = [lock EXCEPT ![s] = Reader]
      /\ UNCHANGED <<arrived, arpCache, backlog, card, address, registered, deleted, socketLock, queue, last, reader, app>>
  BY Typed DEF LockSocket, ReaderAt, net
<1> USE DEF IInv
<1>1. TypeOK'
  BY <1>0 DEF TypeOK, Holders
<1>2. SocketAlive'
  BY <1>0, <1>1 DEF SocketAlive, TypeOK
<1>3. AddressUnique' /\ ListInv' /\ RetryInv'
  BY <1>0 DEF AddressUnique, RetryInv, ListInv
<1> QED BY <1>0, <1>2, <1>3, OrderKept

\* ... and appends the datagram, which is newer than what the socket has.
LEMMA OfferKeeps ==
  ASSUME IInv, NEW s \in Sockets, Offer(s)
  PROVE  IInv'
<1> DEFINE id == reader.packet.id
<1>0. /\ TypeOK /\ reader.pc = "deliver" /\ lock[s] = Reader /\ s \in reader.todo /\ reader \in ReaderRecords
      /\ queue' = [queue EXCEPT ![s] = Append(@, id)]
      /\ lock' = [lock EXCEPT ![s] = Nobody]
      /\ reader' = [reader EXCEPT !.todo = @ \ {s}]
      /\ UNCHANGED <<arrived, arpCache, backlog, card, address, registered, deleted, socketLock, last, app>>
  BY Typed DEF Offer, ReaderAt, net, IInv, SocketAlive, TypeOK, ReaderRecords
<1>1. /\ reader' \in ReaderRecords /\ reader'.pc = "deliver" /\ reader'.todo = reader.todo \ {s}
      /\ reader'.packet = reader.packet /\ reader'.tries = reader.tries
  BY <1>0 DEF ReaderRecords
<1>2. id \in 1..MaxDatagrams /\ id \in Nat /\ id <= arrived /\ Before(s, id) /\ arrived \in Nat
  BY <1>0, PacketShape, Typed DEF IInv, ReaderInv, ReaderRecords
<1> HIDE DEF id
<1>3. /\ queue'[s] = Append(queue[s], id) /\ queue[s] \in Seq(1..MaxDatagrams)
      /\ \A r \in Sockets : r # s => queue'[r] = queue[r]
  BY <1>0 DEF TypeOK
<1>4. /\ queue'[s] \in Seq(1..MaxDatagrams) /\ Len(queue[s]) \in Nat /\ Len(queue'[s]) = Len(queue[s]) + 1
      /\ \A i \in 1..Len(queue[s]) : queue'[s][i] = queue[s][i]
      /\ queue'[s][Len(queue[s]) + 1] = id
      /\ \A i \in 1..Len(queue'[s]) : i \in 1..Len(queue[s]) \/ i = Len(queue[s]) + 1
  BY <1>2, <1>3
<1> USE DEF IInv
<1>5. TypeOK'
  <2>1. queue' \in [Sockets -> Seq(1..MaxDatagrams)]
    BY <1>0, <1>3, <1>4 DEF TypeOK
  <2> QED BY <1>0, <1>1, <2>1 DEF TypeOK, Holders, ReaderRecords
<1>6. SocketAlive'
  <2>1. \A r \in Sockets : lock'[r] = IF r = s THEN Nobody ELSE lock[r]
    BY <1>0 DEF TypeOK
  <2> QED BY <1>0, <1>1, <1>5, <2>1, StackAssumption DEF SocketAlive
<1>7. AddressUnique' /\ ListInv' /\ RetryInv'
  BY <1>0, <1>1 DEF AddressUnique, RetryInv, ListInv
<1>9. ASSUME NEW n \in Nat, Before(s, n), id < n PROVE Before(s, n)'
  <2> SUFFICES ASSUME NEW i \in 1..Len(queue'[s]) PROVE queue'[s][i] < n
    BY <1>0, <1>9 DEF Before
  <2> QED BY <1>4, <1>9 DEF Before
<1>10. \A r \in Sockets, n \in Nat : r # s => (Before(r, n)' <=> Before(r, n))
  BY <1>0, <1>3 DEF Before
<1>12. SocketInv'
  <2> SUFFICES ASSUME NEW r \in Sockets
               PROVE  /\ Before(r, arrived + 1)'
                      /\ \A i \in 1..Len(queue'[r]) : last[r] < queue'[r][i]
                      /\ \A i, j \in 1..Len(queue'[r]) : i < j => queue'[r][i] < queue'[r][j]
    BY <1>0 DEF SocketInv
  <2>1. CASE r # s
    <3>1. Before(r, arrived + 1)
      BY DEF SocketInv
    <3> QED BY <1>0, <1>3, <2>1, <3>1 DEF SocketInv, Before
  <2>2. CASE r = s
    <3>1. Before(s, arrived + 1)'
      <4>1. arrived + 1 \in Nat /\ id < arrived + 1 /\ Before(s, arrived + 1)
        BY <1>2 DEF SocketInv
      <4>2. \A n \in Nat : n = arrived + 1 => Before(s, n)'
        BY <1>9, <4>1
      <4> QED BY <1>0, <4>1, <4>2 DEF Before
    <3>3. \A i \in 1..Len(queue'[s]) : last[s] < queue'[s][i]
      BY <1>2, <1>4 DEF SocketInv, Before
    <3>4. ASSUME NEW i \in 1..Len(queue'[s]), NEW j \in 1..Len(queue'[s]), i < j PROVE queue'[s][i] < queue'[s][j]
      <4>1. i \in 1..Len(queue[s])
        BY <1>4, <3>4
      <4>2. CASE j \in 1..Len(queue[s])
        BY <1>4, <3>4, <4>1, <4>2 DEF SocketInv
      <4>3. CASE j = Len(queue[s]) + 1
        BY <1>2, <1>4, <4>1, <4>3 DEF Before
      <4> QED BY <1>4, <4>2, <4>3
    <3> QED BY <2>2, <3>1, <3>3, <3>4
  <2> QED BY <2>1, <2>2
<1>13. ReaderInv'
  <2>1. reader.packet.kind = "udp" /\ reader.packet.id <= arrived
    BY <1>0 DEF ReaderInv
  <2>3. \A r \in Sockets : r \in reader'.todo => last[r] < id /\ \A i \in 1..Len(queue'[r]) : queue'[r][i] < id
    BY <1>0, <1>1, <1>3 DEF ReaderInv, Before, id
  <2> QED BY <1>0, <1>1, <2>1, <2>3 DEF ReaderInv, Before, id
<1> QED BY <1>6, <1>7, <1>12, <1>13

-----------------------------------------------------------------------------
\* A thread goes on within a call, or begins one with a registered socket,
\* which nobody is about to delete.
LEMMA AppMoves ==
  ASSUME IInv, NEW a \in Apps, NEW x \in AppRecords, app' = [app EXCEPT ![a] = x],
         x.pc # "delete", x.tries < MaxRequestRetries,
         x.pc # "idle" => app[a].pc # "idle" \/ SocketOf[a] \in registered,
         DeviceTyped', UNCHANGED <<arrived, arpCache, sockets, reader>>
  PROVE  IInv'
<1> USE DEF sockets, IInv
<1>0. TypeOK /\ \A b \in Apps : app'[b] = IF b = a THEN x ELSE app[b]
  BY Typed DEF TypeOK
<1>1. TypeOK'
  <2>1. app' \in [Apps -> AppRecords]
    BY <1>0 DEF TypeOK, AppRecords
  <2>2. \A b \in Apps : app'[b].pc # "idle" => address[SocketOf[b]] # Unbound
    BY <1>0 DEF TypeOK, ListInv
  <2> QED BY <1>0, <2>1, <2>2 DEF TypeOK, AppRecords, DeviceTyped
<1>2. SocketAlive' /\ AddressUnique' /\ RetryInv'
  BY <1>0, <1>1 DEF SocketAlive, AddressUnique, RetryInv
<1>3. ListInv'
  <2> SUFFICES ASSUME NEW b \in Apps, app'[b].pc = "delete"
               PROVE  /\ SocketOf[b] \notin registered /\ SocketOf[b] \notin reader.todo
                      /\ \A c \in Apps \ {b} : SocketOf[c] = SocketOf[b] => app'[c].pc = "idle"
    BY DEF ListInv
  <2>1. b # a /\ app[b].pc = "delete"
    BY <1>0
  <2>2. SocketOf[a] = SocketOf[b] => x.pc = "idle"
    BY <2>1 DEF ListInv
  <2> QED BY <1>0, <2>1, <2>2 DEF ListInv
<1> QED BY <1>2, <1>3, OrderKept

\* Send(), its retries, and receive() up to the lock of the socket.
LEMMA CallsKeep ==
  ASSUME IInv, NEW a \in Apps,
         \/ SendResolve(a) \/ AppSend(a) \/ ReceiveReady(a) \/ ReceiveTimeout(a)
         \/ \E h \in Hosts : Send(a, h)
         \/ \E mode \in Modes : Receive(a, mode)
  PROVE  IInv'
<1>0. /\ TypeOK /\ app[a] \in AppRecords /\ app \in [Apps -> AppRecords] /\ app[a].tries < MaxRequestRetries
      /\ app[a].tries \in Nat /\ MaxRequestRetries \in Nat \ {0} /\ DeviceTyped
  BY Typed, StackAssumption DEF IInv, RetryInv, TypeOK, AppRecords, DeviceTyped
<1>1. /\ Outside \in AppRecords /\ Outside.pc = "idle" /\ Outside.tries = 0
      /\ \A l \in {"send", "lock", "close"} :
           /\ [Outside EXCEPT !.pc = l] \in AppRecords
           /\ [Outside EXCEPT !.pc = l].pc = l /\ [Outside EXCEPT !.pc = l].tries = 0
  BY Shapes, StackAssumption DEF AppRecords
<1>2. UNCHANGED net => DeviceTyped' /\ UNCHANGED <<arrived, arpCache>>
  BY <1>0 DEF net, DeviceTyped
<1>3. CASE SendResolve(a)
  <2> DEFINE x == IF app[a].tries + 1 = MaxRequestRetries THEN [Outside EXCEPT !.pc = "close"]
                  ELSE IF app[a].host \in arpCache THEN [Outside EXCEPT !.pc = "send"]
                  ELSE [app[a] EXCEPT !.pc = "send", !.tries = @ + 1]
  <2>1. app[a].pc = "resolve" /\ app' = [app EXCEPT ![a] = x] /\ UNCHANGED <<net, sockets, reader>>
    BY <1>0, <1>3 DEF SendResolve, At
  <2>2. app[a].tries + 1 # MaxRequestRetries =>
          /\ [app[a] EXCEPT !.pc = "send", !.tries = @ + 1] \in AppRecords
          /\ [app[a] EXCEPT !.pc = "send", !.tries = @ + 1].pc = "send"
          /\ [app[a] EXCEPT !.pc = "send", !.tries = @ + 1].tries < MaxRequestRetries
    <3> SUFFICES ASSUME app[a].tries + 1 # MaxRequestRetries
                 PROVE  /\ [app[a] EXCEPT !.pc = "send", !.tries = @ + 1] \in AppRecords
                        /\ [app[a] EXCEPT !.pc = "send", !.tries = @ + 1].pc = "send"
                        /\ [app[a] EXCEPT !.pc = "send", !.tries = @ + 1].tries < MaxRequestRetries
      OBVIOUS
    <3> DEFINE k == app[a].tries + 1
               y == [app[a] EXCEPT !.pc = "send", !.tries = k]
    <3>1. k \in 0..MaxRequestRetries /\ k < MaxRequestRetries
      BY <1>0
    <3> HIDE DEF k
    <3>2. y \in AppRecords /\ y.pc = "send" /\ y.tries = k
      BY <1>0, <3>1 DEF AppRecords
    <3>3. [app[a] EXCEPT !.pc = "send", !.tries = @ + 1] = y
      BY <1>0 DEF AppRecords, k
    <3> QED BY <3>1, <3>2, <3>3
  <2>3. x \in AppRecords /\ x.pc \in {"close", "send"} /\ x.tries < MaxRequestRetries
    BY <1>0, <1>1, <2>2
  <2> HIDE DEF x
  <2> QED BY <1>2, <2>1, <2>3, AppMoves
<1>4. CASE ReceiveReady(a)
  <2> DEFINE x == [Outside EXCEPT !.pc = "lock"]
  <2>1. app[a].pc = "receive" /\ app' = [app EXCEPT ![a] = x] /\ UNCHANGED <<net, sockets, reader>>
    BY <1>0, <1>4 DEF ReceiveReady, At
  <2>2. x \in AppRecords /\ x.pc = "lock" /\ x.tries < MaxRequestRetries
    BY <1>0, <1>1
  <2> HIDE DEF x
  <2> QED BY <1>2, <2>1, <2>2, AppMoves
<1>5. CASE ReceiveTimeout(a)
  <2>1. app' = [app EXCEPT ![a] = Outside] /\ UNCHANGED <<net, sockets, reader>>
    BY <1>5 DEF ReceiveTimeout, Return
  <2>2. Outside.pc = "idle" /\ Outside.tries < MaxRequestRetries
    BY Shapes, StackAssumption
  <2> QED BY <1>1, <1>2, <2>1, <2>2, AppMoves
<1>6. ASSUME NEW h \in Hosts, Send(a, h) PROVE IInv'
  <2> DEFINE x == IF h \in arpCache THEN [Outside EXCEPT !.pc = "send"]
                  ELSE [Outside EXCEPT !.pc = "send", !.host = h, !.next = "resolve"]
  <2>1. app' = [app EXCEPT ![a] = x] /\ SocketOf[a] \in registered /\ UNCHANGED <<net, sockets, reader>>
    BY <1>6 DEF Send
  <2> DEFINE y == [Outside EXCEPT !.pc = "send", !.host = h, !.next = "resolve"]
  <2>3. y \in AppRecords /\ y.pc = "send" /\ y.tries = 0
    BY <1>0, <1>1 DEF AppRecords
  <2>2. x \in AppRecords /\ x.pc = "send" /\ x.tries < MaxRequestRetries
    BY <1>0, <1>1, <2>3
  <2> HIDE DEF x
  <2> QED BY <1>2, <2>1, <2>2, AppMoves
<1>7. ASSUME NEW mode \in Modes, Receive(a, mode) PROVE IInv'
  <2> DEFINE x == [app[a] EXCEPT !.pc = "receive", !.timed = (mode = "timed")]
  <2>1. app' = [app EXCEPT ![a] = x] /\ SocketOf[a] \in registered /\ UNCHANGED <<net, sockets, reader>>
    BY <1>0, <1>7 DEF Receive
  <2>2. x \in AppRecords /\ x.pc = "receive" /\ x.tries < MaxRequestRetries
    BY <1>0 DEF AppRecords
  <2> HIDE DEF x
  <2> QED BY <1>2, <2>1, <2>2, AppMoves
<1>8. CASE AppSend(a)
  <2>1. app[a].pc = "send" /\ DeviceTyped' /\ UNCHANGED <<arrived, arpCache, sockets, reader>>
    BY <1>8, SendPacketTyped DEF AppSend, At
  <2> DEFINE x == IF app[a].next = "idle" THEN Outside ELSE [app[a] EXCEPT !.pc = "resolve"]
  <2>2. app' = [app EXCEPT ![a] = x]
    BY <1>0, <1>8 DEF AppSend, Return, Goto
  <2>3. x \in AppRecords /\ x.pc \in {"idle", "resolve"} /\ x.tries < MaxRequestRetries
    BY <1>0, <1>1 DEF AppRecords
  <2> HIDE DEF x
  <2> QED BY <2>1, <2>2, <2>3, AppMoves
<1> QED BY <1>3, <1>4, <1>5, <1>6, <1>7, <1>8

\* What a step that changes the state of one thread does to the others.
LEMMA OneAppChanges ==
  ASSUME IInv, NEW a \in Apps, Goto(a, "poll") \/ Goto(a, "close") \/ Goto(a, "delete") \/ Return(a)
  PROVE  /\ app' \in [Apps -> AppRecords]
         /\ \A b \in Apps : b # a => app'[b] = app[b]
         /\ \A b \in Apps : app'[b].tries < MaxRequestRetries
         /\ Goto(a, "poll") => app'[a].pc = "poll"
         /\ Goto(a, "close") => app'[a].pc = "close"
         /\ Goto(a, "delete") => app'[a].pc = "delete"
         /\ Return(a) => app'[a].pc = "idle"
<1>0. app \in [Apps -> AppRecords] /\ \A b \in Apps : app[b].tries < MaxRequestRetries
  BY Typed DEF TypeOK, AppRecords, IInv, RetryInv
<1>1. Outside \in AppRecords /\ Outside.pc = "idle" /\ Outside.tries = 0
  BY Shapes, StackAssumption DEF AppRecords
<1>2. ASSUME NEW l \in {"poll", "close", "delete"}, Goto(a, l)
      PROVE  /\ app' \in [Apps -> AppRecords] /\ app'[a].pc = l
             /\ \A b \in Apps : b # a => app'[b] = app[b]
             /\ \A b \in Apps : app'[b].tries < MaxRequestRetries
  BY <1>0, <1>2 DEF Goto, AppRecords
<1>3. ASSUME Return(a)
      PROVE  /\ app' \in [Apps -> AppRecords] /\ app'[a].pc = "idle"
             /\ \A b \in Apps : b # a => app'[b] = app[b]
             /\ \A b \in Apps : app'[b].tries < MaxRequestRetries
  BY <1>0, <1>1, <1>3, StackAssumption DEF Return
<1> QED BY <1>2, <1>3

\* An element of a sequence.
LEMMA ElementType ==
  ASSUME NEW S, NEW q \in Seq(S), NEW i \in 1..Len(q)
  PROVE  q[i] \in S
OBVIOUS

\* receive() takes the lock of the socket ...
LEMMA ReceiveLockKeeps ==
  ASSUME IInv, NEW a \in Apps, ReceiveLock(a)
  PROVE  IInv'
<1>0. /\ TypeOK /\ app[a].pc = "lock" /\ Goto(a, "poll")
      /\ lock' = [lock EXCEPT ![SocketOf[a]] = a] /\ SocketOf[a] \in Sockets
      /\ UNCHANGED <<arrived, arpCache, backlog, card, address, registered, deleted, socketLock, queue, last, reader>>
  BY Typed DEF ReceiveLock, At, net
<1>1. /\ app' \in [Apps -> AppRecords] /\ app'[a].pc = "poll"
      /\ \A b \in Apps : b # a => app'[b] = app[b]
      /\ \A b \in Apps : app'[b].tries < MaxRequestRetries
  BY <1>0, OneAppChanges
<1> USE DEF IInv
<1>2. TypeOK'
  <2>1. \A b \in Apps : app'[b].pc # "idle" => address[SocketOf[b]] # Unbound
    BY <1>0, <1>1 DEF TypeOK
  <2> QED BY <1>0, <1>1, <2>1 DEF TypeOK, Holders, AppRecords
<1>3. SocketAlive'
  BY <1>0, <1>2, StackAssumption DEF SocketAlive, TypeOK
<1>4. AddressUnique' /\ RetryInv'
  BY <1>0, <1>1 DEF AddressUnique, RetryInv
<1>5. ListInv'
  BY <1>0, <1>1 DEF ListInv
<1> QED BY <1>0, <1>3, <1>4, <1>5, OrderKept

\* ... and polls the oldest datagram.
LEMMA ReceivePollKeeps ==
  ASSUME IInv, NEW a \in Apps, ReceivePoll(a)
  PROVE  IInv'
<1> DEFINE s == SocketOf[a]
<1>0. /\ TypeOK /\ app[a].pc = "poll" /\ Return(a) /\ s \in Sockets /\ queue[s] # <<>>
      /\ lock' = [lock EXCEPT ![s] = Nobody]
      /\ queue' = [queue EXCEPT ![s] = Tail(@)]
      /\ last' = [last EXCEPT ![s] = Head(queue[s])]
      /\ UNCHANGED <<arrived, arpCache, backlog, card, address, registered, deleted, socketLock, reader>>
  BY Typed DEF ReceivePoll, At, net
<1> HIDE DEF s
<1>1. /\ app' \in [Apps -> AppRecords] /\ app'[a].pc = "idle"
      /\ \A b \in Apps : b # a => app'[b] = app[b]
      /\ \A b \in Apps : app'[b].tries < MaxRequestRetries
  BY <1>0, OneAppChanges
<1>2. /\ queue[s] \in Seq(1..MaxDatagrams) /\ queue'[s] = Tail(queue[s]) /\ last'[s] = Head(queue[s])
      /\ \A r \in Sockets : r # s => queue'[r] = queue[r] /\ last'[r] = last[r]
  BY <1>0 DEF TypeOK
<1>3. /\ queue'[s] \in Seq(1..MaxDatagrams) /\ Len(queue[s]) \in Nat /\ Len(queue'[s]) = Len(queue[s]) - 1
      /\ 1 \in 1..Len(queue[s]) /\ last'[s] = queue[s][1] /\ last'[s] \in 1..MaxDatagrams
      /\ \A i \in 1..Len(queue'[s]) : queue'[s][i] = queue[s][i + 1] /\ i + 1 \in 1..Len(queue[s]) /\ 1 < i + 1
  <2> DEFINE q == queue[s]
             r == queue'[s]
  <2>1. q \in Seq(1..MaxDatagrams) /\ q # <<>> /\ r = Tail(q) /\ last'[s] = Head(q)
    BY <1>0, <1>2
  <2> HIDE DEF q, r
  <2>2. r \in Seq(1..MaxDatagrams) /\ Len(q) \in Nat /\ Len(q) >= 1 /\ Len(r) = Len(q) - 1 /\ last'[s] = q[1]
    BY <2>1
  <2>3. q[1] \in 1..MaxDatagrams /\ 1 \in 1..Len(q)
    <3>1. 1 \in 1..Len(q)
      BY <2>2
    <3>2. \A i \in 1..Len(q) : q[i] \in 1..MaxDatagrams
      BY <2>1, ElementType
    <3> QED BY <3>1, <3>2
  <2>4. \A i \in 1..Len(r) : r[i] = q[i + 1] /\ i + 1 \in 1..Len(q) /\ 1 < i + 1
    BY <2>1, <2>2
  <2> QED BY <2>2, <2>3, <2>4 DEF q, r
<1> USE DEF IInv
<1>4. TypeOK'
  <2>1. \A b \in Apps : app'[b].pc # "idle" => address[SocketOf[b]] # Unbound
    BY <1>0, <1>1 DEF TypeOK
  <2>2. queue' \in [Sockets -> Seq(1..MaxDatagrams)]
    BY <1>0, <1>2, <1>3 DEF TypeOK
  <2>3. last' \in [Sockets -> 0..MaxDatagrams]
    BY <1>0, <1>2, <1>3, StackAssumption DEF TypeOK
  <2>4. lock' \in [Sockets -> Holders]
    BY <1>0 DEF TypeOK, Holders
  <2> QED BY <1>0, <1>1, <2>1, <2>2, <2>3, <2>4 DEF TypeOK, AppRecords
<1>5. SocketAlive'
  <2>1. \A r \in Sockets : lock'[r] = Reader => lock[r] = Reader
    BY <1>0, StackAssumption DEF TypeOK
  <2> QED BY <1>0, <1>4, <2>1 DEF SocketAlive
<1>6. AddressUnique' /\ RetryInv'
  BY <1>0, <1>1 DEF AddressUnique, RetryInv
<1>7. ListInv'
  BY <1>0, <1>1 DEF ListInv
<1>9. ASSUME NEW r \in Sockets, NEW n, Before(r, n)
      PROVE  last'[r] < n /\ \A i \in 1..Len(queue'[r]) : queue'[r][i] < n
  <2>1. CASE r = s
    BY <1>3, <1>9, <2>1 DEF Before
  <2>2. CASE r # s
    BY <1>2, <1>9, <2>2 DEF Before
  <2> QED BY <2>1, <2>2
<1>10. SocketInv'
  <2> SUFFICES ASSUME NEW r \in Sockets
               PROVE  /\ Before(r, arrived + 1)'
                      /\ \A i \in 1..Len(queue'[r]) : last'[r] < queue'[r][i]
                      /\ \A i, j \in 1..Len(queue'[r]) : i < j => queue'[r][i] < queue'[r][j]
    BY <1>0 DEF SocketInv
  <2>1. Before(r, arrived + 1)
    BY DEF SocketInv
  <2>2. Before(r, arrived + 1)'
    BY <1>0, <1>9, <2>1 DEF Before
  <2>3. CASE r = s
    <3>1. \A i \in 1..Len(queue'[s]) : last'[s] < queue'[s][i]
      BY <1>0, <1>3 DEF SocketInv
    <3>2. ASSUME NEW i \in 1..Len(queue'[s]), NEW j \in 1..Len(queue'[s]), i < j PROVE queue'[s][i] < queue'[s][j]
      <4>1. i + 1 < j + 1
        BY <1>3, <3>2
      <4> QED BY <1>0, <1>3, <3>2, <4>1 DEF SocketInv
    <3> QED BY <2>2, <2>3, <3>1, <3>2
  <2>4. CASE r # s
    BY <1>2, <2>2, <2>4 DEF SocketInv
  <2> QED BY <2>3, <2>4
<1>11. ReaderInv'
  <2> SUFFICES ASSUME reader.pc \in {"lockList", "deliver"}
               PROVE  /\ reader.packet.kind = "udp" /\ reader.packet.id <= arrived
                      /\ \A r \in Sockets : reader.pc = "lockList" \/ r \in reader.todo =>
                            last'[r] < reader.packet.id /\ \A i \in 1..Len(queue'[r]) : queue'[r][i] < reader.packet.id
    BY <1>0 DEF ReaderInv, Before
  <2> QED BY <1>9 DEF ReaderInv
<1> QED BY <1>5, <1>6, <1>7, <1>10, <1>11

-----------------------------------------------------------------------------
\* registerSocket() under the lock of the list: the address differs from all
\* in the list, also when the port was chosen by generatePort().
LEMMA BindKeeps ==
  ASSUME IInv, NEW a \in Apps, NEW any \in BOOLEAN, NEW port \in Ports \cup {0}, Bind(a, any, port)
  PROVE  IInv'
<1> DEFINE s == SocketOf[a]
           new == [any |-> any, port |-> Chosen(any, port)]
<1>0. /\ TypeOK /\ app[a].pc = "idle" /\ address[s] = Unbound /\ s \in Sockets /\ s \notin deleted
      /\ address' = [address EXCEPT ![s] = new]
      /\ IF Refused(new) THEN Goto(a, "close") /\ UNCHANGED registered
         ELSE registered' = registered \cup {s} /\ UNCHANGED app
      /\ UNCHANGED <<arrived, arpCache, backlog, card, deleted, socketLock, queue, lock, last, reader>>
  BY Typed DEF Bind, At, Open, net
<1>1. Chosen(any, port) \in Ports
  <2>1. CASE port # 0
    BY <2>1 DEF Chosen
  <2>2. CASE port = 0
    <3>1. FreePorts(any) # {} /\ FreePorts(any) \subseteq Nat /\ FreePorts(any) \subseteq Ports
      BY <2>2, StackAssumption DEF Bind, FreePorts
    <3> QED BY <2>2, <3>1, SmallestPort DEF Chosen
  <2> QED BY <2>1, <2>2
<1>2. new \in Addresses /\ new # Unbound
  BY <1>1, Shapes DEF Addresses
<1>3. ~Refused(new) => \A r \in registered : address[r] # new
  BY DEF Refused, Conflict
<1> HIDE DEF s, new
<1> USE DEF IInv
<1>4. /\ app' \in [Apps -> AppRecords] /\ app'[a].pc \in {"idle", "close"}
      /\ \A b \in Apps : b # a => app'[b] = app[b]
      /\ \A b \in Apps : app'[b].tries < MaxRequestRetries
  <2>1. CASE Refused(new)
    BY <1>0, <2>1, OneAppChanges
  <2>2. CASE ~Refused(new)
    BY <1>0, <2>2 DEF TypeOK, AppRecords, RetryInv
  <2> QED BY <2>1, <2>2
<1>5. /\ \A r \in Sockets : address'[r] = IF r = s THEN new ELSE address[r]
      /\ address' \in [Sockets -> Addresses \cup {Unbound}]
      /\ registered' \subseteq registered \cup {s} /\ registered \subseteq Sockets
  BY <1>0, <1>2 DEF TypeOK
<1>6. s \notin registered /\ \A b \in Apps : app[b].pc = "delete" => SocketOf[b] # s
  BY <1>0 DEF TypeOK, ListInv
<1>7. TypeOK'
  <2>1. \A b \in Apps : app'[b].pc # "idle" => address'[SocketOf[b]] # Unbound
    BY <1>0, <1>2, <1>4, <1>5, Typed DEF TypeOK, s
  <2> QED BY <1>0, <1>4, <1>5, <2>1 DEF TypeOK, AppRecords
<1>8. SocketAlive'
  BY <1>0, <1>5, <1>7 DEF SocketAlive
<1>9. AddressUnique'
  BY <1>0, <1>3, <1>5, <1>6 DEF AddressUnique
<1>10. RetryInv'
  BY <1>0, <1>4 DEF RetryInv
<1>11. ListInv'
  <2>1. \A r \in registered' : address'[r] # Unbound
    BY <1>0, <1>2, <1>5 DEF ListInv
  <2> SUFFICES ASSUME NEW b \in Apps, app'[b].pc = "delete"
               PROVE  /\ SocketOf[b] \notin registered' /\ SocketOf[b] \notin reader.todo
                      /\ \A c \in Apps \ {b} : SocketOf[c] = SocketOf[b] => app'[c].pc = "idle"
    BY <1>0, <2>1 DEF ListInv
  <2>2. b # a /\ app[b].pc = "delete" /\ SocketOf[b] # s
    BY <1>4, <1>6
  <2> QED BY <1>4, <1>5, <2>2 DEF ListInv, s
<1> QED BY <1>0, <1>8, <1>9, <1>10, <1>11, OrderKept

\* ~UdpSocket() deregisters under the lock of the list, when the other threads
\* that share the socket are out of it, ...
LEMMA CloseKeeps ==
  ASSUME IInv, NEW a \in Apps, Close(a)
  PROVE  IInv'
<1> DEFINE s == SocketOf[a]
<1>0. /\ TypeOK /\ Goto(a, "delete") /\ registered' = registered \ {s} /\ socketLock = Nobody
      /\ app[a].pc = "close" \/ address[s] # Unbound
      /\ \A b \in Apps \ {a} : SocketOf[b] = s => app[b].pc = "idle"
      /\ UNCHANGED <<arrived, arpCache, backlog, card, address, deleted, socketLock, queue, lock, last, reader>>
  BY Typed DEF Close, At, Open, net
<1> HIDE DEF s
<1>1. /\ app' \in [Apps -> AppRecords] /\ app'[a].pc = "delete"
      /\ \A b \in Apps : b # a => app'[b] = app[b]
      /\ \A b \in Apps : app'[b].tries < MaxRequestRetries
  BY <1>0, OneAppChanges
<1> USE DEF IInv
<1>2. reader.todo = {}
  BY <1>0, StackAssumption DEF TypeOK, ListInv
<1>3. TypeOK'
  <2>1. \A b \in Apps : app'[b].pc # "idle" => address[SocketOf[b]] # Unbound
    BY <1>0, <1>1 DEF TypeOK, s
  <2> QED BY <1>0, <1>1, <2>1 DEF TypeOK, AppRecords
<1>4. SocketAlive' /\ AddressUnique' /\ RetryInv'
  BY <1>0, <1>1, <1>3 DEF SocketAlive, AddressUnique, RetryInv
<1>5. ListInv'
  <2> SUFFICES ASSUME NEW b \in Apps, app'[b].pc = "delete"
               PROVE  /\ SocketOf[b] \notin registered' /\ SocketOf[b] \notin reader.todo
                      /\ \A c \in Apps \ {b} : SocketOf[c] = SocketOf[b] => app'[c].pc = "idle"
    BY <1>0 DEF ListInv
  <2>1. CASE b = a
    BY <1>0, <1>1, <1>2, <2>1 DEF s
  <2>2. CASE b # a
    <3>1. app[b].pc = "delete"
      BY <1>1, <2>2
    <3>2. SocketOf[b] # s
      BY <1>0, <2>2, <3>1
    <3> QED BY <1>0, <1>1, <1>2, <2>2, <3>1, <3>2 DEF ListInv, s
  <2> QED BY <2>1, <2>2
<1> QED BY <1>0, <1>4, <1>5, OrderKept

\* ... and then its queue and its memory go.
LEMMA DeleteKeeps ==
  ASSUME IInv, NEW a \in Apps, Delete(a)
  PROVE  IInv'
<1> DEFINE s == SocketOf[a]
<1>0. /\ TypeOK /\ Return(a) /\ app[a].pc = "delete" /\ s \in Sockets
      /\ address' = [address EXCEPT ![s] = Unbound]
      /\ queue' = [queue EXCEPT ![s] = <<>>] /\ last' = [last EXCEPT ![s] = 0] /\ deleted' = deleted \cup {s}
      /\ UNCHANGED <<arrived, arpCache, backlog, card, registered, socketLock, lock, reader>>
  BY Typed DEF Delete, At, net
<1>1. /\ s \notin registered /\ s \notin reader.todo
      /\ \A b \in Apps \ {a} : SocketOf[b] = s => app[b].pc = "idle"
  BY <1>0 DEF IInv, ListInv
<1>2. /\ app' \in [Apps -> AppRecords] /\ app'[a].pc = "idle"
      /\ \A b \in Apps : b # a => app'[b] = app[b]
      /\ \A b \in Apps : app'[b].tries < MaxRequestRetries
  BY <1>0, OneAppChanges
<1> HIDE DEF s
<1> USE DEF IInv
<1>3. /\ \A r \in Sockets : address'[r] = IF r = s THEN Unbound ELSE address[r]
      /\ address' \in [Sockets -> Addresses \cup {Unbound}]
      /\ queue'[s] = <<>> /\ \A r \in Sockets : r # s => queue'[r] = queue[r]
      /\ queue' \in [Sockets -> Seq(1..MaxDatagrams)]
      /\ last'[s] = 0 /\ \A r \in Sockets : r # s => last'[r] = last[r]
      /\ last' \in [Sockets -> 0..MaxDatagrams]
  BY <1>0, StackAssumption DEF TypeOK
<1>4. TypeOK'
  <2>1. \A b \in Apps : app'[b].pc # "idle" => address'[SocketOf[b]] # Unbound
    <3> SUFFICES ASSUME NEW b \in Apps, app'[b].pc # "idle" PROVE address'[SocketOf[b]] # Unbound
      OBVIOUS
    <3>1. b # a /\ app[b].pc # "idle" /\ SocketOf[b] # s /\ SocketOf[b] \in Sockets
      BY <1>1, <1>2, Typed
    <3>2. address[SocketOf[b]] # Unbound
      BY <1>0, <3>1 DEF TypeOK
    <3> QED BY <1>3, <3>1, <3>2
  <2> QED BY <1>0, <1>2, <1>3, <2>1 DEF TypeOK, AppRecords
<1>5. SocketAlive'
  BY <1>0, <1>1, <1>4 DEF SocketAlive
<1>6. AddressUnique' /\ RetryInv'
  BY <1>0, <1>1, <1>2, <1>3 DEF AddressUnique, RetryInv, TypeOK
<1>7. ListInv'
  <2>1. \A r \in registered : address'[r] # Unbound
    BY <1>0, <1>1, <1>3 DEF ListInv, TypeOK
  <2> SUFFICES ASSUME NEW b \in Apps, app'[b].pc = "delete"
               PROVE  /\ SocketOf[b] \notin registered /\ SocketOf[b] \notin reader.todo
                      /\ \A c \in Apps \ {b} : SocketOf[c] = SocketOf[b] => app'[c].pc = "idle"
    BY <1>0, <2>1 DEF ListInv
  <2>2. b # a /\ app[b].pc = "delete"
    BY <1>2
  <2> QED BY <1>0, <1>2, <2>2 DEF ListInv
<1>8. \A r \in Sockets : \A i \in 1..Len(queue'[r]) : r # s /\ queue'[r] = queue[r] /\ i \in 1..Len(queue[r])
  <2>1. \A i : i \notin 1..Len(queue'[s])
    BY <1>3
  <2> QED BY <1>3, <2>1
<1>9. ASSUME NEW r \in Sockets, NEW n \in Nat, n > 0, Before(r, n)
      PROVE  last'[r] < n /\ \A i \in 1..Len(queue'[r]) : queue'[r][i] < n
  <2>1. last'[r] = 0 \/ last'[r] = last[r]
    BY <1>3
  <2> QED BY <1>8, <1>9, <2>1 DEF Before
<1>10. SocketInv'
  <2>1. \A r \in Sockets : last'[r] < arrived + 1 /\ \A i \in 1..Len(queue'[r]) : queue'[r][i] < arrived + 1
    <3>1. arrived + 1 \in Nat /\ arrived + 1 > 0 /\ \A r \in Sockets : Before(r, arrived + 1)
      BY Typed DEF SocketInv
    <3> QED BY <1>9, <3>1
  <2>2. \A r \in Sockets : \A i \in 1..Len(queue'[r]) : last'[r] < queue'[r][i]
    BY <1>3, <1>8 DEF SocketInv
  <2>3. \A r \in Sockets : \A i, j \in 1..Len(queue'[r]) : i < j => queue'[r][i] < queue'[r][j]
    BY <1>8 DEF SocketInv
  <2> QED BY <1>0, <2>1, <2>2, <2>3 DEF SocketInv, Before
<1>11. ReaderInv'
  <2> SUFFICES ASSUME reader.pc \in {"lockList", "deliver"}
               PROVE  \A r \in Sockets : reader.pc = "lockList" \/ r \in reader.todo =>
                        last'[r] < reader.packet.id /\ \A i \in 1..Len(queue'[r]) : queue'[r][i] < reader.packet.id
    BY <1>0 DEF ReaderInv, Before
  <2>1. reader.packet.id \in Nat /\ reader.packet.id > 0
    BY <1>0, PacketShape, StackAssumption DEF ReaderInv, TypeOK
  <2> QED BY <1>9, <2>1 DEF ReaderInv
<1> QED BY <1>5, <1>6, <1>7, <1>10, <1>11

\* A new socket gets the memory of a deleted one.
LEMMA CreateKeeps ==
  ASSUME IInv, NEW a \in Apps, Create(a)
  PROVE  IInv'
<1>0. /\ TypeOK /\ deleted' = deleted \ {SocketOf[a]}
      /\ UNCHANGED <<arrived, arpCache, backlog, card, address, registered, socketLock, queue, lock, last, reader, app>>
  BY Typed DEF Create, At, net
<1> USE DEF IInv
<1>1. TypeOK'
  BY <1>0 DEF TypeOK
<1>2. SocketAlive' /\ AddressUnique' /\ RetryInv' /\ ListInv'
  BY <1>0, <1>1 DEF SocketAlive, AddressUnique, RetryInv, ListInv
<1> QED BY <1>0, <1>2, OrderKept

-----------------------------------------------------------------------------
\* Every step keeps the invariant: one fact per actor.
LEMMA StepInv == IInv /\ [Next]_vars => IInv'
<1> SUFFICES ASSUME IInv, [Next]_vars PROVE IInv'
  OBVIOUS
<1>1. CASE ReaderNext
  BY <1>1, ReplyKeeps, ReaderSendKeeps, LockListKeeps, UnlockListKeeps, LockSocketKeeps, OfferKeeps DEF ReaderNext
<1>2. ASSUME NEW h \in Hosts, ReadEcho(h) \/ \E request \in BOOLEAN : ReadArp(request, h) PROVE IInv'
  BY <1>2, ReadEchoKeeps, ReadArpKeeps
<1>3. ASSUME NEW q \in Ports, ReadDatagram(q) PROVE IInv'
  BY <1>3, ReadDatagramKeeps
<1>8. ASSUME NEW n \in 0..OutCapacity, Transmitted(n) PROVE IInv'
  BY <1>8, TransmittedKeeps
<1>4. ASSUME NEW a \in Apps, AppNext(a) \/ Close(a) \/ Create(a) PROVE IInv'
  BY <1>4, CallsKeep, ReceiveLockKeeps, ReceivePollKeeps, DeleteKeeps, CloseKeeps, CreateKeeps DEF AppNext
<1>5. ASSUME NEW a \in Apps, (\E h \in Hosts : Send(a, h)) \/ (\E mode \in Modes : Receive(a, mode)) PROVE IInv'
  BY <1>5, CallsKeep
<1>6. ASSUME NEW a \in Apps, NEW any \in BOOLEAN, NEW q \in Ports \cup {0}, Bind(a, any, q) PROVE IInv'
  BY <1>6, BindKeeps
<1>7. CASE UNCHANGED vars
  <2>1. TypeOK'
    BY <1>7, Typed DEF vars, TypeOK
  <2>2. SocketAlive' /\ AddressUnique' /\ ListInv' /\ RetryInv'
    BY <1>7, <2>1 DEF vars, IInv, SocketAlive, AddressUnique, ListInv, RetryInv
  <2> QED BY <1>7, <2>2, OrderKept DEF vars, IInv
<1> QED BY <1>1, <1>2, <1>3, <1>4, <1>5, <1>6, <1>7, <1>8 DEF Next

\* The inductive invariant of the stack.
THEOREM InvHolds == Spec => []IInv
BY InitInv, StepInv, PTL DEF Spec

\* The reader never delivers to a socket that has been deleted, however the
\* close of a socket and the handling of a packet interleave.
THEOREM SocketsAreAlive == Spec => []SocketAlive
<1>1. IInv => SocketAlive
  BY DEF IInv
<1> QED BY <1>1, InvHolds, PTL

\* Registered sockets have different addresses, with ports that were asked for
\* and with ports from generatePort().
THEOREM AddressesAreUnique == Spec => []AddressUnique
<1>1. IInv => AddressUnique
  BY DEF IInv
<1> QED BY <1>1, InvHolds, PTL

\* Each socket's datagrams are received in the order of their arrival, none of
\* them twice, whatever threads share the socket.
THEOREM DatagramsInOrder == Spec => []ReceivedInOrder
<1>1. IInv => ReceivedInOrder
  <2> SUFFICES ASSUME IInv, NEW s \in Sockets
               PROVE  LET q == <<last[s]>> \o queue[s]
                      IN  \A i, j \in 1..Len(q) : i < j => q[i] < q[j]
    BY DEF ReceivedInOrder
  <2> DEFINE q == <<last[s]>> \o queue[s]
  <2>0. queue[s] \in Seq(Nat) /\ last[s] \in Nat /\ Len(queue[s]) \in Nat
    BY Typed, StackAssumption
  <2>1. Len(q) = Len(queue[s]) + 1 /\ q[1] = last[s] /\ \A i \in 1..Len(q) : i # 1 => q[i] = queue[s][i - 1]
    BY <2>0
  <2> HIDE DEF q
  <2>2. ASSUME NEW i \in 1..Len(q), NEW j \in 1..Len(q), i < j PROVE q[i] < q[j]
    <3>1. j - 1 \in 1..Len(queue[s]) /\ q[j] = queue[s][j - 1]
      BY <2>0, <2>1, <2>2
    <3>2. CASE i = 1
      BY <2>1, <3>1, <3>2 DEF IInv, SocketInv
    <3>3. CASE i # 1
      <4>1. i - 1 \in 1..Len(queue[s]) /\ q[i] = queue[s][i - 1] /\ i - 1 < j - 1
        BY <2>0, <2>1, <2>2, <3>3
      <4> QED BY <3>1, <4>1 DEF IInv, SocketInv
    <3> QED BY <3>2, <3>3
  <2> QED BY <2>2 DEF q
<1> QED BY <1>1, InvHolds, PTL
=============================================================================
