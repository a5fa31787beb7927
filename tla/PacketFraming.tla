----------------------------- MODULE PacketFraming -----------------------------
(***************************************************************************)
(* How a byte stream becomes packet sets (NetLargePacket, NetPacketSet and *)
(* their Lan twins).  A receiver owns one large packet, receives into it   *)
(* behind writePos_, registers the whole packets it finds in a packet set  *)
(* that points into the buffer, and goes on in a new large packet that     *)
(* starts with what is left over.  The logic reads the set later and frees *)
(* its buffer.                                                             *)
(*                                                                         *)
(* The receiver is a session (NetSession, LanSession: RecvPost and         *)
(* CompleteRecvCheck) or a client (NetClient, LanClient: Network), which   *)
(* connects again when its connection fails.  A byte is named by the       *)
(* packet it belongs to and its place in it, so a byte out of place shows. *)
(***************************************************************************)
EXTENDS Integers, Sequences, FiniteSets

CONSTANTS
  Roles,        (* kinds of receivers that are looked at                   *)
  Buffers,      (* large packets of the pool                               *)
  HEADER_SIZE,  (* eNET_HEADER_SIZE: 5 (Lan: 2)                            *)
  MSG_MAX_LEN,  (* eNET_PROTOCOL_MSG_MAX_LEN: 512                          *)
  SET_MAX,      (* eNET_PACKET_SET_MAX_COUNT: 300 (Lan: 512)               *)
  CENTER,       (* eBUFFER_CENTER: 4096, where start_ points               *)
  MASK,         (* eBUFFER_MASK: 8191, where end_ points                   *)
  MaxPackets,   (* bound: packets the peer sends                           *)
  NULL

Clients  == {"NetClient", "LanClient"}
Sessions == {"NetSession", "LanSession"}
Net      == {"NetSession", "NetClient"}   \* packet code and checksum

ASSUME SizesAssumption ==
  /\ Roles \subseteq Clients \union Sessions
  /\ Buffers # {} /\ NULL \notin Buffers
  /\ HEADER_SIZE \in Nat \ {0} /\ MSG_MAX_LEN \in Nat /\ SET_MAX \in Nat
  /\ CENTER \in Nat /\ MASK \in Nat /\ MaxPackets \in Nat
  /\ HEADER_SIZE + MSG_MAX_LEN <= CENTER
  /\ CENTER + HEADER_SIZE + MSG_MAX_LEN < MASK

VARIABLES
  role,        (* what the receiver is                                     *)
  pc,          (* its next step                                            *)
  sizes,       (* payload sizes of the packets the peer sent; a size above *)
               (* MSG_MAX_LEN stands for a packet that is malformed        *)
  wire,        (* bytes sent and not yet received                          *)
  memory,      (* per buffer: data_                                        *)
  recvPacket,  (* recvPacket_, recvBuffer_                                 *)
  readPos, prevReadPos, writePos,        (* its positions                  *)
  set,         (* the packet set under construction: packet_[0 .. ]        *)
  pool,        (* large packets in packetPool_                             *)
  jobQ,        (* packet sets on their way to the logic                    *)
  delivered,   (* payloads the logic has read, in order                    *)
  lost,        (* packets that a broken connection swallowed               *)
  cut,         (* a connection broke inside a packet                       *)
  errors       (* calls of ErrorQuit and Crash that were reached           *)

peer   == <<sizes, wire>>
buffer == <<recvPacket, readPos, prevReadPos, writePos>>
logic  == <<jobQ, delivered>>
link   == <<role, lost, cut>>
vars   == <<role, pc, peer, memory, buffer, set, pool, logic, lost, cut, errors>>

(* What a large packet of the pool holds is nobody's business.              *)
Unused == [i \in 0 .. MASK |-> NULL]

Init ==
  /\ role \in Roles
  /\ pc = "recv"
  /\ sizes = <<>> /\ wire = <<>>
  /\ memory = [b \in Buffers |-> Unused]
  /\ recvPacket = CHOOSE b \in Buffers : TRUE
  /\ readPos = CENTER /\ prevReadPos = CENTER /\ writePos = CENTER
  /\ set = <<>>
  /\ pool = Buffers \ {recvPacket}
  /\ jobQ = <<>> /\ delivered = <<>>
  /\ lost = {} /\ cut = FALSE
  /\ errors = {}

Quit(what) == pc' = "stopped" /\ errors' = errors \union {what}

-------------------------------------------------------------------------------
(* The peer sends a packet: the bytes of the header, then the payload.      *)
Send(size) ==
  /\ Len(sizes) < MaxPackets
  /\ sizes' = Append(sizes, size)
  /\ wire' = wire \o [i \in 1 .. HEADER_SIZE + size |->
                        [packet |-> Len(sizes) + 1, place |-> i]]
  /\ UNCHANGED <<pc, memory, buffer, set, pool, logic, link, errors>>

(* Variant: a session offers the whole rest of its buffer.                  *)
RecvLength_ToTheEnd == MASK - writePos

(* The length given to WSARecv (sessions) or recv (clients).                *)
RecvLength == IF role \in Sessions THEN MASK - writePos - 1 ELSE MASK - writePos

(* n bytes arrive at writePos_, then MoveWritePos and PreserveReadPos.      *)
Receive(n) ==
  /\ pc = "recv"
  /\ n \in 1 .. RecvLength /\ n <= Len(wire)
  /\ memory' = [memory EXCEPT ![recvPacket] =
                  [i \in 0 .. MASK |-> IF i \in writePos .. writePos + n - 1
                                         THEN wire[i - writePos + 1] ELSE @[i]]]
  /\ wire' = SubSeq(wire, n + 1, Len(wire))
  /\ IF writePos + n >= MASK
       THEN Quit("RecvPacketFull") /\ UNCHANGED <<writePos, prevReadPos>>
       ELSE /\ writePos' = writePos + n
            /\ prevReadPos' = readPos
            /\ pc' = "register"
            /\ UNCHANGED errors
  /\ UNCHANGED <<sizes, recvPacket, readPos, set, pool, logic, link>>

-------------------------------------------------------------------------------
(* RegisterPackets, one turn of its loop at a time.                         *)

Used  == writePos - readPos
At(i) == memory[recvPacket][i]

(* The packet whose header stands whole at the read position, if one does.  *)
HeaderIsWhole ==
  \A i \in 1 .. HEADER_SIZE :
    At(readPos + i - 1) = [packet |-> At(readPos).packet, place |-> i]

(* The size in the header.  After a cut the header may be made of the bytes *)
(* of two packets, or of payload, and then say anything.                    *)
PacketSizes == IF HeaderIsWhole THEN {sizes[At(readPos).packet]}
               ELSE 0 .. MSG_MAX_LEN + 1

(* Decode compares a checksum of 8 bits, which bytes of a mixed packet may  *)
(* happen to match; the Lan twin has no checksum.                           *)
IsIntact(size) ==
  /\ HeaderIsWhole
  /\ \A i \in 1 .. HEADER_SIZE + size :
       At(readPos + i - 1) = [packet |-> At(readPos).packet, place |-> i]

(* Variant: a packet is taken as soon as its header is there.               *)
IsComplete_HeaderOnly(size) == TRUE

IsComplete(size) == Used - HEADER_SIZE >= size

RegisterPacket(size) ==
  /\ pc = "register"
  /\ Used >= HEADER_SIZE
  /\ size \in PacketSizes /\ size <= MSG_MAX_LEN
  /\ IsComplete(size)
  /\ readPos' = readPos + HEADER_SIZE + size
  /\ IF Len(set) < SET_MAX
       THEN /\ set' = Append(set, [pos |-> readPos + HEADER_SIZE, size |-> size])
            /\ UNCHANGED <<pc, errors>>
       ELSE Quit("PacketSetFull") /\ UNCHANGED set
  /\ UNCHANGED <<peer, memory, recvPacket, prevReadPos, writePos, pool, logic, link>>

(* NET_PACKET_ERROR: the set is dropped, with the packets already in it.    *)
RegisterError(size) ==
  /\ pc = "register"
  /\ Used >= HEADER_SIZE
  /\ size \in PacketSizes
  /\ \/ size > MSG_MAX_LEN
     \/ role \in Net /\ IsComplete(size) /\ ~IsIntact(size)
  /\ set' = <<>>
  /\ pc' = "error"
  /\ UNCHANGED <<peer, memory, buffer, pool, logic, link, errors>>

(* Variant: one packet is registered per receive.                           *)
MustWait_AfterOne ==
  \/ Used < HEADER_SIZE \/ set # <<>>
  \/ /\ Used >= HEADER_SIZE
     /\ \E size \in 0 .. MSG_MAX_LEN : size \in PacketSizes /\ ~IsComplete(size)

MustWait ==
  \/ Used < HEADER_SIZE
  \/ /\ Used >= HEADER_SIZE
     /\ \E size \in 0 .. MSG_MAX_LEN : size \in PacketSizes /\ ~IsComplete(size)

(* CopyRemainderToNewPacket(0): wait for the rest in the same buffer.       *)
KeepBuffer ==
  /\ pc = "register" /\ MustWait
  /\ set = <<>>
  /\ readPos' = prevReadPos
  /\ pc' = "recv"
  /\ UNCHANGED <<peer, memory, recvPacket, prevReadPos, writePos, set, pool,
                 logic, link, errors>>

(* Variant: the bytes behind the last whole packet are left behind.         *)
Remainder_Dropped == 0

Remainder == Used

(* CopyRemainderToNewPacket: the set keeps the old buffer and goes to the   *)
(* logic; the remainder is copied to just before start_ of a new buffer.    *)
CopyRemainder ==
  /\ pc = "register" /\ MustWait
  /\ set # <<>>
  /\ IF Remainder > CENTER
       THEN Quit("RemainderTooLarge") /\ UNCHANGED <<memory, buffer, set, pool, jobQ>>
       ELSE /\ \E b \in pool :
                 /\ recvPacket' = b
                 /\ pool' = pool \ {b}
                 /\ memory' = [memory EXCEPT ![b] =
                      [i \in 0 .. MASK |-> IF i \in CENTER - Remainder .. CENTER - 1
                                             THEN At(writePos - CENTER + i) ELSE @[i]]]
            /\ jobQ' = Append(jobQ, [buffer |-> recvPacket, packets |-> set])
            /\ set' = <<>>
            /\ readPos' = CENTER - Remainder
            /\ writePos' = CENTER /\ prevReadPos' = CENTER
            /\ pc' = "recv"
            /\ UNCHANGED errors
  /\ UNCHANGED <<peer, delivered, link>>

-------------------------------------------------------------------------------
(* The logic reads the packets of a set and frees it with its buffer.       *)
Payload(b, packet) ==
  [i \in 1 .. packet.size |-> memory[b][packet.pos + i - 1]]

PacketProc ==
  /\ jobQ # <<>>
  /\ delivered' = delivered \o [k \in 1 .. Len(Head(jobQ).packets) |->
                                  Payload(Head(jobQ).buffer, Head(jobQ).packets[k])]
  /\ pool' = pool \union {Head(jobQ).buffer}
  /\ memory' = [memory EXCEPT ![Head(jobQ).buffer] = Unused]
  /\ jobQ' = Tail(jobQ)
  /\ UNCHANGED <<pc, peer, buffer, set, link, errors>>

(* Variant: the session frees its buffer at an error and receives on.       *)
Disconnected_KeepsReceiving ==
  /\ role \in Sessions
  /\ pc = "error" /\ pc' = "recv"
  /\ pool' = pool \union {recvPacket}
  /\ UNCHANGED <<peer, memory, buffer, set, logic, link, errors>>

(* A session ends, after an error or while its recv is posted: Destroy.     *)
Disconnected ==
  /\ role \in Sessions
  /\ pc \in {"recv", "error"}
  /\ pool' = pool \union {recvPacket}
  /\ recvPacket' = NULL
  /\ pc' = "stopped"
  /\ UNCHANGED <<peer, memory, readPos, prevReadPos, writePos, set, logic, link,
                 errors>>

(* A client stops at an error and when the server closes the connection.    *)
ClientStops ==
  /\ role \in Clients
  /\ pc \in {"recv", "error"}
  /\ pc' = "stopped"
  /\ UNCHANGED <<peer, memory, buffer, set, pool, logic, link, errors>>

(* recv fails and the client connects again.  What was on the wire is gone, *)
(* the bytes of a half received packet stay in recvBuffer_.                 *)
Reconnect ==
  /\ role \in Clients
  /\ pc = "recv"
  /\ wire' = <<>>
  /\ lost' = lost \union {wire[i].packet : i \in DOMAIN wire}
  /\ cut' = (cut \/ Used > 0)
  /\ UNCHANGED <<role, pc, sizes, memory, buffer, set, pool, logic, errors>>

Register ==
  \/ KeepBuffer \/ CopyRemainder
  \/ \E size \in 0 .. MSG_MAX_LEN + 1 : RegisterPacket(size) \/ RegisterError(size)

Next ==
  \/ \E size \in 0 .. MSG_MAX_LEN + 1 : Send(size)
  \/ \E n \in 1 .. MASK : Receive(n)
  \/ Register \/ PacketProc
  \/ Disconnected \/ ClientStops \/ Reconnect

Spec == Init /\ [][Next]_vars

(* The network delivers what was sent, the receiver and the logic go on.    *)
FairSpec ==
  /\ Spec
  /\ WF_vars(\E n \in 1 .. MASK : Receive(n))
  /\ WF_vars(Register)
  /\ WF_vars(PacketProc)

-------------------------------------------------------------------------------
Owners == {jobQ[k].buffer : k \in DOMAIN jobQ}

(***************************************************************************)
(* RecvPost and recv never offer a length of zero, which would read as the *)
(* end of the connection, nor a byte outside data_; and what a receive     *)
(* registers lies inside the buffer it was received into.                  *)
(***************************************************************************)
RecvHasRoom ==
  /\ pc = "recv" => RecvLength >= 1 /\ writePos + RecvLength <= MASK
  /\ readPos <= writePos
  /\ \A k \in DOMAIN set : set[k].pos + set[k].size <= writePos

(***************************************************************************)
(* A session never meets "Recv Packet Full" (OnRecvComplete) nor "Not      *)
(* Enough Buffer Space" (CopyRemainderToNewPacket), whatever the peer      *)
(* sends and however the stream is cut into receives.  Two ends of the     *)
(* program remain: a client whose recv fills the buffer to its last byte,  *)
(* and more packets in one receive than a set can hold: whole ones, or     *)
(* what a client takes for packets once its connection broke inside one.   *)
(***************************************************************************)
OnlyKnownQuits ==
  /\ "RecvPacketFull" \in errors => role \in Clients
  /\ "PacketSetFull" \in errors => Len(sizes) > SET_MAX \/ cut
  /\ "RemainderTooLarge" \notin errors

(***************************************************************************)
(* A large packet is in the pool, the receiver's, or one queued set's, and *)
(* a session gives all of them back: the logic never reads a buffer that   *)
(* the receiver fills, and no buffer is freed twice or leaked.             *)
(***************************************************************************)
BufferHasOneOwner ==
  /\ recvPacket \notin pool \union Owners
  /\ pool \intersect Owners = {}
  /\ \A i, k \in DOMAIN jobQ : jobQ[i].buffer = jobQ[k].buffer => i = k
  /\ pool \union Owners \union {recvPacket} = Buffers \union {recvPacket}

(***************************************************************************)
(* What the logic reads is what the peer sent: the same payloads, in the   *)
(* same order, none twice and none left out but those a broken connection  *)
(* swallowed whole.  Only a connection that broke inside a packet takes    *)
(* this away (Reconnect keeps the bytes of the half received packet).      *)
(***************************************************************************)
IsKept(p, k) == p \in (1 .. Len(sizes)) \ lost /\ Cardinality((1 .. p) \ lost) = k

PayloadSent(p) == [i \in 1 .. sizes[p] |-> [packet |-> p, place |-> HEADER_SIZE + i]]

StreamIsKept ==
  ~cut => \A k \in DOMAIN delivered :
            \E p \in 1 .. Len(sizes) : IsKept(p, k) /\ delivered[k] = PayloadSent(p)

(***************************************************************************)
(* Every packet the peer sends is read by the logic in the end, unless the *)
(* receiver stops or its connection broke: no packet that is whole stays   *)
(* in a buffer waiting for the next one.                                   *)
(***************************************************************************)
EveryPacketArrives ==
  \A p \in 1 .. MaxPackets :
    (p <= Len(sizes)) ~> (p <= Len(delivered) \/ pc = "stopped" \/ pc = "error"
                           \/ lost # {} \/ cut)
===============================================================================
