-------------------------- MODULE PacketFramingProofs --------------------------
(***************************************************************************)
(* Theorems about PacketFraming, for buffers, headers, packets and packet  *)
(* sets of every size and whatever bytes arrive.                           *)
(***************************************************************************)
EXTENDS PacketFraming, FiniteSetTheorems, SequenceTheorems, TLAPS

(***************************************************************************)
(* The inductive invariant behind the sizes.  Between two receives the     *)
(* buffer holds less than one packet, and starts at start_ or before it;   *)
(* while packets are registered the read position has not moved since      *)
(* PreserveReadPos unless the set holds something.                         *)
(***************************************************************************)
PositionsOK ==
  /\ role \in Roles
  /\ readPos \in Nat /\ prevReadPos \in Nat /\ writePos \in Nat
  /\ readPos <= writePos
  /\ pc \in {"recv", "register", "error", "stopped"}

BetweenReceives ==
  pc = "recv" =>
    /\ readPos <= CENTER
    /\ writePos - readPos < HEADER_SIZE + MSG_MAX_LEN
    /\ set = <<>>

WhileRegistering ==
  pc = "register" =>
    /\ prevReadPos <= CENTER
    /\ writePos < MASK
    /\ set = <<>> => readPos = prevReadPos

SetInBuffer ==
  /\ set \in Seq([pos : Nat, size : Nat])
  /\ \A k \in DOMAIN set : set[k].pos + set[k].size <= writePos

ErrorsOK ==
  /\ "RecvPacketFull" \in errors => role \in Clients
  /\ "RemainderTooLarge" \notin errors

SizesInv == PositionsOK /\ BetweenReceives /\ WhileRegistering /\ SetInBuffer /\ ErrorsOK

(* Send, PacketProc, Disconnected, ClientStops and Reconnect leave the      *)
(* positions, the set and the errors as they are.                           *)
LEMMA SizesKept ==
  ASSUME SizesInv,
         UNCHANGED <<role, readPos, prevReadPos, writePos, set, errors>>,
         pc' = pc \/ pc' = "stopped"
  PROVE  SizesInv'
BY DEF SizesInv, PositionsOK, BetweenReceives, WhileRegistering, SetInBuffer, ErrorsOK

LEMMA ReceiveKeepsSizes ==
  ASSUME SizesInv, NEW n \in 1 .. MASK, Receive(n)
  PROVE  SizesInv'
<1> USE SizesAssumption
<1>1. /\ readPos \in Nat /\ prevReadPos \in Nat /\ writePos \in Nat
      /\ readPos <= writePos /\ readPos <= CENTER /\ set = <<>>
      /\ writePos - readPos < HEADER_SIZE + MSG_MAX_LEN
      /\ role \in Roles
  BY DEF SizesInv, PositionsOK, BetweenReceives, Receive
<1>2. n \in Int /\ 1 <= n /\ n <= RecvLength
  BY DEF Receive
<1>3. role' = role /\ readPos' = readPos /\ set' = set
  BY DEF Receive, link
<1>4. CASE writePos + n >= MASK
  <2>1. writePos' = writePos /\ prevReadPos' = prevReadPos /\ pc' = "stopped"
        /\ errors' = errors \union {"RecvPacketFull"}
    BY <1>4 DEF Receive, Quit
  <2>2. role \in Clients
    BY <1>1, <1>2, <1>4 DEF RecvLength, Sessions, Clients
  <2> QED
    BY <1>1, <1>3, <2>1, <2>2
    DEF SizesInv, PositionsOK, BetweenReceives, WhileRegistering, SetInBuffer, ErrorsOK
<1>5. CASE ~(writePos + n >= MASK)
  <2>1. writePos' = writePos + n /\ prevReadPos' = readPos /\ pc' = "register"
        /\ errors' = errors
    BY <1>5 DEF Receive
  <2> QED
    BY <1>1, <1>2, <1>3, <1>5, <2>1
    DEF SizesInv, PositionsOK, BetweenReceives, WhileRegistering, SetInBuffer, ErrorsOK
<1> QED
  BY <1>4, <1>5

LEMMA RegisterPacketKeepsSizes ==
  ASSUME SizesInv, NEW size \in 0 .. MSG_MAX_LEN + 1, RegisterPacket(size)
  PROVE  SizesInv'
<1> USE SizesAssumption
<1>1. /\ readPos \in Nat /\ prevReadPos \in Nat /\ writePos \in Nat /\ size \in Nat
      /\ readPos <= writePos /\ prevReadPos <= CENTER /\ writePos < MASK
      /\ role \in Roles /\ ErrorsOK /\ 0 <= size
      /\ set \in Seq([pos : Nat, size : Nat])
      /\ \A k \in DOMAIN set : set[k].pos + set[k].size <= writePos
  BY DEF SizesInv, PositionsOK, WhileRegistering, SetInBuffer, RegisterPacket
<1>2. readPos + HEADER_SIZE + size <= writePos
  BY <1>1 DEF RegisterPacket, IsComplete, Used
<1>3. /\ role' = role /\ readPos' = readPos + HEADER_SIZE + size
      /\ prevReadPos' = prevReadPos /\ writePos' = writePos
  BY DEF RegisterPacket, link
<1>6. /\ readPos' \in Nat /\ prevReadPos' \in Nat /\ writePos' \in Nat
      /\ readPos' <= writePos' /\ writePos' = writePos
  BY <1>1, <1>2, <1>3
<1>4. CASE Len(set) < SET_MAX
  <2> DEFINE packet == [pos |-> readPos + HEADER_SIZE, size |-> size]
  <2>1. set' = Append(set, packet) /\ pc' = "register" /\ errors' = errors
    BY <1>4 DEF RegisterPacket
  <2>2. packet \in [pos : Nat, size : Nat] /\ packet.pos + packet.size <= writePos
    BY <1>1, <1>2
  <2> HIDE DEF packet
  <2>3. set' \in Seq([pos : Nat, size : Nat]) /\ set' # <<>>
    <3>1. set \in Seq([pos : Nat, size : Nat]) /\ packet \in [pos : Nat, size : Nat]
      BY <1>1, <2>2
    <3>. QED  BY <2>1, <3>1, AppendProperties
  <2>4. \A k \in DOMAIN set' : set'[k].pos + set'[k].size <= writePos
    <3>1. \A k \in DOMAIN set' : set'[k] = packet \/ (k \in DOMAIN set /\ set'[k] = set[k])
      BY <1>1, <2>1, <2>2
    <3> QED
      BY <1>1, <2>2, <3>1
  <2> QED
    BY <1>1, <1>3, <1>6, <2>1, <2>3, <2>4
    DEF SizesInv, PositionsOK, BetweenReceives, WhileRegistering, SetInBuffer, ErrorsOK
<1>5. CASE ~(Len(set) < SET_MAX)
  <2>1. set' = set /\ pc' = "stopped" /\ errors' = errors \union {"PacketSetFull"}
    BY <1>5 DEF RegisterPacket, Quit
  <2> QED
    BY <1>1, <1>3, <1>6, <2>1
    DEF SizesInv, PositionsOK, BetweenReceives, WhileRegistering, SetInBuffer, ErrorsOK
<1> QED
  BY <1>4, <1>5

LEMMA RegisterErrorKeepsSizes ==
  ASSUME SizesInv, NEW size \in 0 .. MSG_MAX_LEN + 1, RegisterError(size)
  PROVE  SizesInv'
<1>1. /\ pc' = "error" /\ set' = <<>> /\ errors' = errors /\ role' = role
      /\ readPos' = readPos /\ prevReadPos' = prevReadPos /\ writePos' = writePos
  BY DEF RegisterError, link, buffer
<1>2. PositionsOK' /\ BetweenReceives' /\ WhileRegistering' /\ ErrorsOK'
  BY <1>1 DEF SizesInv, PositionsOK, BetweenReceives, WhileRegistering, ErrorsOK
<1>3. SetInBuffer'
  BY <1>1 DEF SetInBuffer
<1> QED
  BY <1>2, <1>3 DEF SizesInv

(* What has to wait is less than one packet.                                *)
LEMMA WaitingIsShort ==
  ASSUME SizesInv, MustWait
  PROVE  writePos - readPos < HEADER_SIZE + MSG_MAX_LEN
BY SizesAssumption DEF SizesInv, PositionsOK, MustWait, Used, IsComplete

LEMMA KeepBufferKeepsSizes ==
  ASSUME SizesInv, KeepBuffer
  PROVE  SizesInv'
<1>1. writePos - readPos < HEADER_SIZE + MSG_MAX_LEN
  BY WaitingIsShort DEF KeepBuffer
<1>2. /\ pc' = "recv" /\ set' = set /\ errors' = errors /\ role' = role
      /\ readPos' = prevReadPos /\ prevReadPos' = prevReadPos /\ writePos' = writePos
      /\ set = <<>> /\ pc = "register"
  BY DEF KeepBuffer, link
<1> QED
  BY <1>1, <1>2, SizesAssumption
  DEF SizesInv, PositionsOK, BetweenReceives, WhileRegistering, SetInBuffer, ErrorsOK

LEMMA CopyRemainderKeepsSizes ==
  ASSUME SizesInv, CopyRemainder
  PROVE  SizesInv'
<1> USE SizesAssumption
<1>1. writePos - readPos < HEADER_SIZE + MSG_MAX_LEN
  BY WaitingIsShort DEF CopyRemainder
<1>2. readPos \in Nat /\ writePos \in Nat /\ readPos <= writePos /\ role \in Roles
  BY DEF SizesInv, PositionsOK
<1>3. ~(Remainder > CENTER)
  BY <1>1, <1>2 DEF Remainder, Used
<1>4. /\ pc' = "recv" /\ set' = <<>> /\ errors' = errors /\ role' = role
      /\ readPos' = CENTER - (writePos - readPos)
      /\ prevReadPos' = CENTER /\ writePos' = CENTER
  BY <1>3 DEF CopyRemainder, link, Remainder, Used
<1>5. PositionsOK' /\ BetweenReceives' /\ WhileRegistering'
  BY <1>1, <1>2, <1>4 DEF PositionsOK, BetweenReceives, WhileRegistering
<1>6. SetInBuffer'
  BY <1>4 DEF SetInBuffer
<1>7. ErrorsOK'
  BY <1>4 DEF SizesInv, ErrorsOK
<1> QED
  BY <1>5, <1>6, <1>7 DEF SizesInv

THEOREM SizesInvariant == Spec => []SizesInv
<1>1. Init => SizesInv
  <2> SUFFICES ASSUME Init PROVE SizesInv
    OBVIOUS
  <2>1. PositionsOK /\ BetweenReceives /\ WhileRegistering /\ ErrorsOK
    BY SizesAssumption DEF Init, PositionsOK, BetweenReceives, WhileRegistering, ErrorsOK
  <2>2. SetInBuffer
    BY DEF Init, SetInBuffer
  <2> QED
    BY <2>1, <2>2 DEF SizesInv
<1>2. SizesInv /\ [Next]_vars => SizesInv'
  <2> SUFFICES ASSUME SizesInv, [Next]_vars PROVE SizesInv'
    OBVIOUS
  <2>1. ASSUME NEW size \in 0 .. MSG_MAX_LEN + 1, Send(size) PROVE SizesInv'
    BY <2>1, SizesKept DEF Send, buffer, link
  <2>2. ASSUME NEW n \in 1 .. MASK, Receive(n) PROVE SizesInv'
    BY <2>2, ReceiveKeepsSizes
  <2>3. CASE KeepBuffer
    BY <2>3, KeepBufferKeepsSizes
  <2>4. CASE CopyRemainder
    BY <2>4, CopyRemainderKeepsSizes
  <2>5. ASSUME NEW size \in 0 .. MSG_MAX_LEN + 1, RegisterPacket(size) PROVE SizesInv'
    BY <2>5, RegisterPacketKeepsSizes
  <2>6. ASSUME NEW size \in 0 .. MSG_MAX_LEN + 1, RegisterError(size) PROVE SizesInv'
    BY <2>6, RegisterErrorKeepsSizes
  <2>7. CASE PacketProc
    BY <2>7, SizesKept DEF PacketProc, buffer, link
  <2>8. CASE Disconnected
    BY <2>8, SizesKept DEF Disconnected, link
  <2>9. CASE ClientStops
    BY <2>9, SizesKept DEF ClientStops, buffer, link
  <2>10. CASE Reconnect
    BY <2>10, SizesKept DEF Reconnect, buffer
  <2>11. CASE UNCHANGED vars
    BY <2>11, SizesKept DEF vars, buffer
  <2> QED
    BY <2>1, <2>2, <2>3, <2>4, <2>5, <2>6, <2>7, <2>8, <2>9, <2>10, <2>11
    DEF Next, Register
<1> QED
  BY <1>1, <1>2, PTL DEF Spec

(* For buffers of every size that hold a remainder and a packet, no posted  *)
(* receive is empty or leaves the buffer, and no packet of a set does.      *)
THEOREM ReceivesHaveRoom == Spec => []RecvHasRoom
<1>1. SizesInv => RecvHasRoom
  <2> SUFFICES ASSUME SizesInv PROVE RecvHasRoom
    OBVIOUS
  <2>1. pc = "recv" => RecvLength >= 1 /\ writePos + RecvLength <= MASK
    BY SizesAssumption DEF SizesInv, PositionsOK, BetweenReceives, RecvLength
  <2> QED
    BY <2>1 DEF SizesInv, PositionsOK, SetInBuffer, RecvHasRoom
<1> QED
  BY <1>1, SizesInvariant, PTL

-------------------------------------------------------------------------------
(***************************************************************************)
(* Who owns a large packet.  The receiver always has one until it stops.   *)
(***************************************************************************)
Job == [buffer : Buffers, packets : Seq([pos : Nat, size : Nat])]

OwnersInv ==
  /\ jobQ \in Seq(Job)
  /\ pool \subseteq Buffers
  /\ recvPacket \in Buffers \union {NULL}
  /\ pc # "stopped" => recvPacket \in Buffers
  /\ BufferHasOneOwner

LEMMA OwnersKept ==
  ASSUME OwnersInv, UNCHANGED <<jobQ, pool, recvPacket>>, pc # "stopped" \/ pc' = pc
  PROVE  OwnersInv'
<1>1. Owners' = Owners
  BY DEF Owners
<1>2. BufferHasOneOwner'
  BY <1>1 DEF OwnersInv, BufferHasOneOwner
<1> QED
  BY <1>2 DEF OwnersInv

LEMMA CopyRemainderKeepsOwners ==
  ASSUME SizesInv, OwnersInv, CopyRemainder
  PROVE  OwnersInv'
<1>1. CASE Remainder > CENTER
  BY <1>1, OwnersKept DEF CopyRemainder, buffer
<1>2. CASE ~(Remainder > CENTER)
  <2> DEFINE job == [buffer |-> recvPacket, packets |-> set]
  <2>1. PICK b \in pool : recvPacket' = b /\ pool' = pool \ {b}
    BY <1>2 DEF CopyRemainder
  <2>2. jobQ' = Append(jobQ, job) /\ pc' = "recv" /\ recvPacket \in Buffers
    BY <1>2 DEF CopyRemainder, OwnersInv
  <2>3. job \in Job /\ job.buffer = recvPacket
    BY <2>2 DEF Job, SizesInv, SetInBuffer
  <2> HIDE DEF job
  <2>4. /\ jobQ \in Seq(Job) /\ pool \subseteq Buffers
        /\ recvPacket \notin pool \union Owners /\ pool \intersect Owners = {}
        /\ \A i, k \in DOMAIN jobQ : jobQ[i].buffer = jobQ[k].buffer => i = k
        /\ pool \union Owners \union {recvPacket} = Buffers \union {recvPacket}
    BY DEF OwnersInv, BufferHasOneOwner
  <2>5. jobQ' \in Seq(Job) /\ DOMAIN jobQ' = 1 .. Len(jobQ) + 1
        /\ jobQ'[Len(jobQ) + 1] = job /\ DOMAIN jobQ = 1 .. Len(jobQ) /\ Len(jobQ) \in Nat
    BY <2>2, <2>3, <2>4
  <2>6. \A k \in DOMAIN jobQ : jobQ'[k] = jobQ[k]
    BY <2>2, <2>4
  <2>7. Owners' = Owners \union {recvPacket}
    BY <2>3, <2>5, <2>6 DEF Owners
  <2>8. ASSUME NEW i \in DOMAIN jobQ', NEW k \in DOMAIN jobQ',
               jobQ'[i].buffer = jobQ'[k].buffer
        PROVE  i = k
    <3>1. \A j \in DOMAIN jobQ : jobQ[j].buffer # recvPacket
      BY <2>4 DEF Owners
    <3>2. i \in DOMAIN jobQ \/ i = Len(jobQ) + 1
      BY <2>5
    <3>3. k \in DOMAIN jobQ \/ k = Len(jobQ) + 1
      BY <2>5
    <3> QED
      BY <2>3, <2>4, <2>5, <2>6, <2>8, <3>1, <3>2, <3>3
  <2>9. BufferHasOneOwner'
    BY <2>1, <2>2, <2>4, <2>7, <2>8 DEF BufferHasOneOwner
  <2> QED
    BY <2>1, <2>2, <2>4, <2>5, <2>9 DEF OwnersInv
<1> QED
  BY <1>1, <1>2

LEMMA PacketProcKeepsOwners ==
  ASSUME OwnersInv, PacketProc
  PROVE  OwnersInv'
<1> DEFINE freed == Head(jobQ).buffer
<1>1. /\ jobQ # <<>> /\ jobQ' = Tail(jobQ) /\ pool' = pool \union {freed}
      /\ recvPacket' = recvPacket /\ pc' = pc
  BY DEF PacketProc, buffer
<1>2. /\ jobQ \in Seq(Job) /\ pool \subseteq Buffers
      /\ recvPacket \notin pool \union Owners /\ pool \intersect Owners = {}
      /\ \A i, k \in DOMAIN jobQ : jobQ[i].buffer = jobQ[k].buffer => i = k
      /\ pool \union Owners \union {recvPacket} = Buffers \union {recvPacket}
  BY DEF OwnersInv, BufferHasOneOwner
<1>3. freed = jobQ[1].buffer /\ 1 \in DOMAIN jobQ /\ freed \in Buffers
      /\ Len(jobQ) \in Nat /\ DOMAIN jobQ = 1 .. Len(jobQ)
  <2>1. Len(jobQ) \in Nat /\ DOMAIN jobQ = 1 .. Len(jobQ) /\ Len(jobQ) # 0
    BY <1>1, <1>2
  <2>2. 1 \in DOMAIN jobQ /\ Head(jobQ) = jobQ[1]
    BY <1>2, <2>1
  <2>3. jobQ[1] \in Job
    BY <1>2, <2>2
  <2> QED
    BY <2>1, <2>2, <2>3 DEF Job
<1>4. jobQ' \in Seq(Job) /\ DOMAIN jobQ' = 1 .. Len(jobQ) - 1
      /\ \A k \in DOMAIN jobQ' : jobQ'[k] = jobQ[k + 1] /\ k + 1 \in DOMAIN jobQ
  BY <1>1, <1>2
<1> HIDE DEF freed
<1>5. ASSUME NEW i \in DOMAIN jobQ', NEW k \in DOMAIN jobQ',
             jobQ'[i].buffer = jobQ'[k].buffer
      PROVE  i = k
  <2>1. i + 1 = k + 1
    BY <1>2, <1>4, <1>5
  <2> QED
    BY <2>1, <1>3, <1>4
<1>6. Owners' = Owners \ {freed}
  <2>1. ASSUME NEW b \in Owners' PROVE b \in Owners /\ b # freed
    <3>1. PICK k \in DOMAIN jobQ' : b = jobQ'[k].buffer
      BY <2>1 DEF Owners
    <3>2. b = jobQ[k + 1].buffer /\ k + 1 \in DOMAIN jobQ /\ k + 1 # 1
      BY <3>1, <1>3, <1>4
    <3> QED
      BY <3>2, <1>2, <1>3 DEF Owners
  <2>2. ASSUME NEW b \in Owners, b # freed PROVE b \in Owners'
    <3>1. PICK k \in DOMAIN jobQ : b = jobQ[k].buffer
      BY <2>2 DEF Owners
    <3>2. k # 1
      BY <3>1, <2>2, <1>3
    <3>3. k - 1 \in DOMAIN jobQ' /\ (k - 1) + 1 = k
      BY <3>2, <1>3, <1>4
    <3> QED
      BY <3>1, <3>3, <1>4 DEF Owners
  <2> QED
    BY <2>1, <2>2
<1>7. freed \in Owners
  BY <1>3 DEF Owners
<1>8. BufferHasOneOwner'
  BY <1>1, <1>2, <1>5, <1>6, <1>7 DEF BufferHasOneOwner
<1> QED
  BY <1>1, <1>2, <1>3, <1>4, <1>8 DEF OwnersInv

LEMMA DisconnectedKeepsOwners ==
  ASSUME OwnersInv, Disconnected
  PROVE  OwnersInv'
<1>1. /\ pool' = pool \union {recvPacket} /\ recvPacket' = NULL /\ pc' = "stopped"
      /\ jobQ' = jobQ /\ recvPacket \in Buffers
  BY DEF Disconnected, OwnersInv, logic
<1>2. Owners' = Owners /\ Owners \subseteq Buffers
  BY <1>1 DEF Owners, OwnersInv, BufferHasOneOwner
<1>3. BufferHasOneOwner'
  BY <1>1, <1>2, SizesAssumption DEF OwnersInv, BufferHasOneOwner
<1> QED
  BY <1>1, <1>3 DEF OwnersInv

LEMMA OwnersInvariant == Spec => []OwnersInv
<1>1. Init => OwnersInv
  <2> SUFFICES ASSUME Init PROVE OwnersInv
    OBVIOUS
  <2>1. jobQ = <<>> /\ recvPacket \in Buffers /\ pool = Buffers \ {recvPacket}
    BY SizesAssumption DEF Init
  <2>2. Owners = {}
    BY <2>1 DEF Owners
  <2>3. BufferHasOneOwner
    BY <2>1, <2>2 DEF BufferHasOneOwner
  <2> QED
    BY <2>1, <2>3 DEF OwnersInv
<1>2. SizesInv /\ OwnersInv /\ [Next]_vars => OwnersInv'
  <2> SUFFICES ASSUME SizesInv, OwnersInv, [Next]_vars PROVE OwnersInv'
    OBVIOUS
  <2>1. ASSUME NEW size \in 0 .. MSG_MAX_LEN + 1, Send(size) PROVE OwnersInv'
    BY <2>1, OwnersKept DEF Send, buffer, logic
  <2>2. ASSUME NEW n \in 1 .. MASK, Receive(n) PROVE OwnersInv'
    BY <2>2, OwnersKept DEF Receive, logic
  <2>3. CASE KeepBuffer
    BY <2>3, OwnersKept DEF KeepBuffer, logic
  <2>4. CASE CopyRemainder
    BY <2>4, CopyRemainderKeepsOwners
  <2>5. ASSUME NEW size \in 0 .. MSG_MAX_LEN + 1, RegisterPacket(size) PROVE OwnersInv'
    BY <2>5, OwnersKept DEF RegisterPacket, logic
  <2>6. ASSUME NEW size \in 0 .. MSG_MAX_LEN + 1, RegisterError(size) PROVE OwnersInv'
    BY <2>6, OwnersKept DEF RegisterError, buffer, logic
  <2>7. CASE PacketProc
    BY <2>7, PacketProcKeepsOwners
  <2>8. CASE Disconnected
    BY <2>8, DisconnectedKeepsOwners
  <2>9. CASE ClientStops
    BY <2>9, OwnersKept DEF ClientStops, buffer, logic
  <2>10. CASE Reconnect
    BY <2>10, OwnersKept DEF Reconnect, buffer, logic
  <2>11. CASE UNCHANGED vars
    BY <2>11, OwnersKept DEF vars, buffer, logic
  <2> QED
    BY <2>1, <2>2, <2>3, <2>4, <2>5, <2>6, <2>7, <2>8, <2>9, <2>10, <2>11
    DEF Next, Register
<1> QED
  BY <1>1, <1>2, SizesInvariant, PTL DEF Spec

(* Whatever the sizes are and however many large packets there are, each    *)
(* one is in the pool, the receiver's, or exactly one queued set's.         *)
THEOREM BuffersHaveOneOwner == Spec => []BufferHasOneOwner
<1>1. OwnersInv => BufferHasOneOwner
  BY DEF OwnersInv
<1> QED
  BY <1>1, OwnersInvariant, PTL

-------------------------------------------------------------------------------
(***************************************************************************)
(* The stream, as long as no connection broke inside a packet.  The bytes  *)
(* that are not registered, in the buffer and on the wire, are the packets *)
(* from the first one to the last one sent, which begin at the offsets off *)
(* and none of which is lost.  The packets that were registered, numbered  *)
(* in order by num, are read, in the queued sets (of which the k-th begins *)
(* behind number start[k]), or in the set under construction.              *)
(***************************************************************************)
Total   == Used + Len(wire)
Byte(j) == IF j <= Used THEN At(readPos + j - 1) ELSE wire[j - Used]

StreamTypes ==
  /\ sizes \in Seq(Nat)
  /\ wire \in Seq([packet : Nat, place : Nat])
  /\ DOMAIN memory = Buffers
  /\ \E S : delivered \in Seq(S)

Unread(first, off) ==
  /\ first \in 1 .. Len(sizes) + 1
  /\ off[Len(sizes) + 1] = off[first] + Total
  /\ \A k, l \in first .. Len(sizes) + 1 : k <= l => off[k] <= off[l]
  /\ \A k \in first .. Len(sizes) :
       /\ off[k + 1] = off[k] + HEADER_SIZE + sizes[k]
       /\ \A i \in 1 .. HEADER_SIZE + sizes[k] :
            Byte(off[k] - off[first] + i) = [packet |-> k, place |-> i]
  /\ \A j \in 1 .. Total : \E k \in first .. Len(sizes) :
       off[k] < off[first] + j /\ off[first] + j <= off[k + 1]
  /\ \A p \in lost : p \in 1 .. first - 1

Numbered(num) == \A j \in 1 .. Len(num) : num[j] \in 1 .. Len(sizes) /\ IsKept(num[j], j)

Read(num) == \A k \in 1 .. Len(delivered) : delivered[k] = PayloadSent(num[k])

Holds(b, packet, p) ==
  /\ packet.size = sizes[p]
  /\ \A i \in 1 .. packet.size :
       memory[b][packet.pos + i - 1] = [packet |-> p, place |-> HEADER_SIZE + i]

HoldsAll(b, packets, num, from) ==
  \A m \in 1 .. Len(packets) : from + m <= Len(num) /\ Holds(b, packets[m], num[from + m])

Queued(num, start) ==
  /\ start[1] = Len(delivered) /\ start[Len(jobQ) + 1] <= Len(num) /\ Len(delivered) <= Len(num)
  /\ \A k \in 1 .. Len(jobQ) :
       /\ start[k + 1] = start[k] + Len(jobQ[k].packets)
       /\ HoldsAll(jobQ[k].buffer, jobQ[k].packets, num, start[k])

UnderWay(num, start, first) ==
  /\ start[Len(jobQ) + 1] + Len(set) = Len(num)
  /\ HoldsAll(recvPacket, set, num, start[Len(jobQ) + 1])
  /\ Cardinality((1 .. first - 1) \ lost) = Len(num)
  /\ \A j \in 1 .. Len(num) : num[j] < first

Receiving == pc \in {"recv", "register"}

Stream(num, start, first, off) ==
  /\ num \in Seq(Nat) /\ start \in [Nat -> Nat] /\ first \in Nat /\ off \in [Nat -> Nat]
  /\ Numbered(num) /\ Read(num) /\ Queued(num, start)
  /\ Receiving => Unread(first, off) /\ UnderWay(num, start, first)

StreamInv ==
  /\ StreamTypes
  /\ ~cut => \E num, start, first, off : Stream(num, start, first, off)
  /\ "PacketSetFull" \in errors => Len(sizes) > SET_MAX \/ cut

(* What happens to the packets that are registered when nothing does.       *)
LEMMA TakenKept ==
  ASSUME OwnersInv, NEW num, NEW start, NEW first, NEW off, Stream(num, start, first, off),
         UNCHANGED <<sizes, lost, delivered, jobQ>>,
         \A b \in Owners : memory'[b] = memory[b]
  PROVE  Numbered(num)' /\ Read(num)' /\ Queued(num, start)'
<1>1. Numbered(num)'
  BY DEF Stream, Numbered, IsKept
<1>2. Read(num)'
  BY DEF Stream, Read, PayloadSent
<1>3. \A k \in 1 .. Len(jobQ) : jobQ[k].buffer \in Owners
  BY DEF Owners, OwnersInv
<1>4. Queued(num, start)'
  <2>1. ASSUME NEW k \in 1 .. Len(jobQ)
        PROVE  HoldsAll(jobQ[k].buffer, jobQ[k].packets, num, start[k])'
    <3>1. HoldsAll(jobQ[k].buffer, jobQ[k].packets, num, start[k])
      BY DEF Stream, Queued
    <3>2. memory'[jobQ[k].buffer] = memory[jobQ[k].buffer] /\ jobQ'[k] = jobQ[k]
      BY <1>3
    <3>. QED  BY <3>1, <3>2 DEF HoldsAll, Holds
  <2>. QED  BY <2>1 DEF Stream, Queued
<1>. QED  BY <1>1, <1>2, <1>4

LEMMA StopKeepsStream ==
  ASSUME OwnersInv, NEW num, NEW start, NEW first, NEW off, Stream(num, start, first, off),
         UNCHANGED <<sizes, lost, delivered, jobQ, memory>>, pc' \in {"error", "stopped"}
  PROVE  Stream(num, start, first, off)'
  BY TakenKept DEF Stream, Receiving

LEMMA JobTypes ==
  ASSUME OwnersInv
  PROVE  /\ Len(jobQ) \in Nat
         /\ \A k \in 1 .. Len(jobQ) :
              /\ jobQ[k] \in Job /\ jobQ[k].packets \in Seq([pos : Nat, size : Nat])
              /\ Len(jobQ[k].packets) \in Nat /\ jobQ[k].buffer \in Owners
<1>1. jobQ \in Seq(Job)
  BY DEF OwnersInv
<1>2. Len(jobQ) \in Nat /\ \A k \in 1 .. Len(jobQ) : jobQ[k] \in Job /\ k \in DOMAIN jobQ
  BY <1>1
<1>3. \A job \in Job : job.packets \in Seq([pos : Nat, size : Nat])
  BY DEF Job
<1>4. \A packets \in Seq([pos : Nat, size : Nat]) : Len(packets) \in Nat
  OBVIOUS
<1>. QED  BY <1>2, <1>3, <1>4 DEF Owners

LEMMA StreamLengths ==
  ASSUME SizesInv, StreamTypes
  PROVE  /\ Used \in Nat /\ Len(wire) \in Nat /\ Total = Used + Len(wire) /\ Total \in Nat
         /\ Len(sizes) \in Nat /\ Len(set) \in Nat /\ readPos \in Nat /\ writePos = readPos + Used
         /\ \A p \in 1 .. Len(sizes) : sizes[p] \in Nat
<1>1. Used \in Nat /\ readPos \in Nat /\ writePos = readPos + Used
  BY DEF SizesInv, PositionsOK, Used
<1>2. Len(wire) \in Nat
  BY DEF StreamTypes
<1>3. Len(sizes) \in Nat /\ \A p \in 1 .. Len(sizes) : sizes[p] \in Nat
  BY DEF StreamTypes
<1>4. Len(set) \in Nat
  BY DEF SizesInv, SetInBuffer
<1>. QED  BY <1>1, <1>2, <1>3, <1>4 DEF Total

LEMMA Joined ==
  ASSUME NEW S, NEW a \in Seq(S), NEW b \in Seq(S)
  PROVE  /\ a \o b \in Seq(S) /\ Len(a \o b) = Len(a) + Len(b)
         /\ \A i \in 1 .. Len(a) : (a \o b)[i] = a[i]
         /\ \A i \in 1 .. Len(b) : (a \o b)[Len(a) + i] = b[i]
OBVIOUS

(* What a packet more of the peer leaves of the packets before it.          *)
LEMMA SentBefore ==
  ASSUME StreamTypes, NEW size \in Nat, Send(size), NEW p \in 1 .. Len(sizes)
  PROVE  /\ sizes'[p] = sizes[p] /\ Len(sizes') = Len(sizes) + 1 /\ p \in 1 .. Len(sizes')
         /\ PayloadSent(p)' = PayloadSent(p)
         /\ \A j : IsKept(p, j) => IsKept(p, j)'
<1>1. sizes' = Append(sizes, size) /\ sizes \in Seq(Nat) /\ lost' = lost
  BY DEF Send, StreamTypes, link
<1>2. sizes'[p] = sizes[p] /\ Len(sizes') = Len(sizes) + 1 /\ p \in 1 .. Len(sizes')
  BY <1>1
<1>. QED  BY <1>1, <1>2 DEF PayloadSent, IsKept

LEMMA SendKeepsStream ==
  ASSUME SizesInv, OwnersInv, StreamTypes, NEW size \in 0 .. MSG_MAX_LEN + 1, Send(size),
         NEW num, NEW start, NEW first, NEW off, Stream(num, start, first, off)
  PROVE  \E o : Stream(num, start, first, o)'
<1> USE SizesAssumption
<1>1. /\ sizes' = Append(sizes, size) /\ size \in Nat
      /\ UNCHANGED <<pc, memory, recvPacket, readPos, writePos, set, jobQ, delivered, lost>>
  BY DEF Send, buffer, logic, link
<1>2. \A p \in 1 .. Len(sizes) :
        /\ sizes'[p] = sizes[p] /\ Len(sizes') = Len(sizes) + 1 /\ p \in 1 .. Len(sizes')
        /\ PayloadSent(p)' = PayloadSent(p)
        /\ \A j : IsKept(p, j) => IsKept(p, j)'
  BY <1>1, SentBefore
<1>3. /\ num \in Seq(Nat) /\ \A j \in 1 .. Len(num) : num[j] \in 1 .. Len(sizes)
  BY DEF Stream, Numbered
<1>4. Numbered(num)'
  BY <1>2, <1>3 DEF Stream, Numbered
<1>5. Read(num)'
  <2>1. \A k \in 1 .. Len(delivered) : k \in 1 .. Len(num)
    BY <1>3 DEF Stream, Queued
  <2>. QED  BY <1>1, <1>2, <1>3, <2>1 DEF Stream, Read
<1>6. ASSUME NEW b, NEW packets, NEW from \in Nat, HoldsAll(b, packets, num, from),
             Len(packets) \in Nat
      PROVE  HoldsAll(b, packets, num, from)'
  <2>1. ASSUME NEW m \in 1 .. Len(packets)
        PROVE  from + m <= Len(num) /\ Holds(b, packets[m], num[from + m])'
    <3>1. from + m <= Len(num) /\ Holds(b, packets[m], num[from + m])
      BY <1>6 DEF HoldsAll
    <3>2. from + m \in 1 .. Len(num)
      BY <1>3, <1>6, <3>1
    <3>. QED  BY <1>1, <1>2, <1>3, <3>1, <3>2 DEF Holds
  <2>. QED  BY <2>1 DEF HoldsAll
<1>7. /\ Len(jobQ) \in Nat /\ start \in [Nat -> Nat]
      /\ \A k \in 1 .. Len(jobQ) : Len(jobQ[k].packets) \in Nat
  BY JobTypes DEF Stream
<1>8. Queued(num, start)'
  <2>1. ASSUME NEW k \in 1 .. Len(jobQ)
        PROVE  HoldsAll(jobQ[k].buffer, jobQ[k].packets, num, start[k])'
    <3>1. HoldsAll(jobQ[k].buffer, jobQ[k].packets, num, start[k])
      BY DEF Stream, Queued
    <3>2. PICK b : b = jobQ[k].buffer
      OBVIOUS
    <3>3. PICK packets : packets = jobQ[k].packets
      OBVIOUS
    <3>4. HoldsAll(b, packets, num, start[k])'
      BY <1>6, <1>7, <3>1, <3>2, <3>3
    <3>. QED  BY <1>1, <3>2, <3>3, <3>4
  <2>. QED  BY <1>1, <2>1 DEF Stream, Queued
<1>9. CASE ~Receiving
  <2>1. ~Receiving'
    BY <1>1, <1>9 DEF Receiving
  <2>2. Stream(num, start, first, off)'
    BY <1>4, <1>5, <1>8, <2>1 DEF Stream
  <2>. QED  BY <2>2
<1>10. CASE Receiving
  <2>1. PICK n \in Nat : n = Len(sizes)
    BY StreamLengths
  <2>2. PICK total \in Nat : total = Total
    BY StreamLengths
  <2>3. PICK len \in Nat : len = HEADER_SIZE + size
    OBVIOUS
  <2>4. /\ first \in 1 .. n + 1 /\ off \in [Nat -> Nat] /\ off[n + 1] = off[first] + total
        /\ \A k, l \in first .. n + 1 : k <= l => off[k] <= off[l]
        /\ \A k \in first .. n :
             /\ off[k + 1] = off[k] + HEADER_SIZE + sizes[k]
             /\ \A i \in 1 .. HEADER_SIZE + sizes[k] :
                  Byte(off[k] - off[first] + i) = [packet |-> k, place |-> i]
        /\ \A j \in 1 .. total : \E k \in first .. n :
             off[k] < off[first] + j /\ off[first] + j <= off[k + 1]
        /\ \A p \in lost : p \in 1 .. first - 1
    BY <1>10, <2>1, <2>2 DEF Stream, Unread
  <2>5. /\ Len(sizes') = n + 1 /\ sizes'[n + 1] = size
        /\ \A k \in 1 .. n : sizes'[k] = sizes[k] /\ sizes[k] \in Nat
    BY <1>1, <2>1 DEF StreamTypes
  <2>6. /\ Total' = total + len
        /\ \A j \in Int : j <= total => Byte(j)' = Byte(j)
        /\ \A i \in 1 .. len : Byte(total + i)' = [packet |-> n + 1, place |-> i]
    <3> DEFINE new == [i \in 1 .. HEADER_SIZE + size |-> [packet |-> Len(sizes) + 1, place |-> i]]
    <3>1. wire' = wire \o new /\ wire \in Seq([packet : Nat, place : Nat])
      BY DEF Send, StreamTypes
    <3>2. new \in Seq([packet : Nat, place : Nat]) /\ Len(new) = len
      BY <2>1, <2>3
    <3>3. \A i \in 1 .. len : new[i] = [packet |-> n + 1, place |-> i]
      BY <2>1, <2>3
    <3> HIDE DEF new
    <3>4. /\ Len(wire') = Len(wire) + len /\ Len(wire) \in Nat
          /\ \A i \in 1 .. Len(wire) : wire'[i] = wire[i]
          /\ \A i \in 1 .. len : wire'[Len(wire) + i] = [packet |-> n + 1, place |-> i]
      <4>1. /\ Len(wire \o new) = Len(wire) + Len(new)
            /\ \A i \in 1 .. Len(wire) : (wire \o new)[i] = wire[i]
            /\ \A i \in 1 .. Len(new) : (wire \o new)[Len(wire) + i] = new[i]
        <5>1. PICK S : wire \in Seq(S) /\ new \in Seq(S)
          BY <3>1, <3>2
        <5>. QED  BY <5>1, Joined
      <4>2. Len(wire) \in Nat
        BY StreamLengths
      <4>3. wire' = wire \o new /\ Len(new) = len
        BY <3>1, <3>2
      <4>. QED  BY <3>3, <4>1, <4>2, <4>3
    <3>5. /\ Used' = Used /\ Used \in Nat /\ \A i : At(i)' = At(i)
          /\ readPos' = readPos /\ readPos \in Nat /\ total = Used + Len(wire)
      BY <1>1, <2>2, StreamLengths DEF Used, At
    <3>6. Total' = total + len
      BY <3>4, <3>5 DEF Total
    <3>7. ASSUME NEW j \in Int, j <= total
          PROVE  Byte(j)' = Byte(j)
      <4>1. j <= Used \/ j - Used \in 1 .. Len(wire)
        BY <3>4, <3>5, <3>7
      <4>. QED  BY <3>4, <3>5, <4>1 DEF Byte
    <3>8. ASSUME NEW i \in 1 .. len
          PROVE  Byte(total + i)' = [packet |-> n + 1, place |-> i]
      <4>1. ~(total + i <= Used') /\ (total + i) - Used' = Len(wire) + i
        BY <3>4, <3>5
      <4>. QED  BY <3>4, <4>1 DEF Byte
    <3>. QED  BY <3>6, <3>7, <3>8
  <2> DEFINE new == [off EXCEPT ![n + 2] = off[n + 1] + len]
  <2>7. /\ new \in [Nat -> Nat] /\ new[n + 2] = off[n + 1] + len
        /\ \A k \in 1 .. n + 1 : new[k] = off[k]
    BY <2>4
  <2> HIDE DEF new
  <2>8. PICK o \in [Nat -> Nat] : /\ o[n + 2] = off[n + 1] + len
                                  /\ \A k \in 1 .. n + 1 : o[k] = off[k]
    BY <2>7
  <2>9. /\ first \in 1 .. Len(sizes') + 1
        /\ o[Len(sizes') + 1] = o[first] + Total'
    BY <2>4, <2>5, <2>6, <2>8
  <2>10. ASSUME NEW k \in first .. n + 2, NEW l \in first .. n + 2, k <= l
         PROVE  o[k] <= o[l]
    <3>1. k \in 1 .. n + 1 \/ (k = n + 2 /\ l = n + 2)
      BY <2>4, <2>10
    <3>2. l \in 1 .. n + 1 \/ l = n + 2
      BY <2>4, <2>10
    <3>3. k \in first .. n + 1 => off[k] <= off[n + 1] /\ off[k] \in Nat /\ off[n + 1] \in Nat
      BY <2>4
    <3>4. l \in 1 .. n + 1 => o[l] = off[l] /\ l \in first .. n + 1
      BY <2>8, <2>4
    <3>5. k \in 1 .. n + 1 => o[k] = off[k] /\ k \in first .. n + 1
      BY <2>8, <2>4
    <3>6. CASE k = n + 2 /\ l = n + 2
      BY <2>8, <3>6
    <3>7. CASE k \in 1 .. n + 1 /\ l = n + 2
      BY <2>8, <3>3, <3>5, <3>7
    <3>8. CASE k \in 1 .. n + 1 /\ l \in 1 .. n + 1
      BY <2>4, <2>10, <3>4, <3>5, <3>8
    <3>. QED  BY <3>1, <3>2, <3>6, <3>7, <3>8
  <2>11. ASSUME NEW k \in first .. n + 1
         PROVE  /\ o[k + 1] = o[k] + HEADER_SIZE + sizes'[k]
                /\ \A i \in 1 .. HEADER_SIZE + sizes'[k] :
                     Byte(o[k] - o[first] + i)' = [packet |-> k, place |-> i]
    <3>1. CASE k = n + 1
      <4>1. o[k + 1] = o[k] + HEADER_SIZE + sizes'[k]
        <5>1. o[n + 1] = off[n + 1] /\ off[n + 1] \in Nat /\ o[n + 2] = off[n + 1] + len
          BY <2>4, <2>8
        <5>2. k + 1 = n + 2 /\ sizes'[k] = size
          BY <2>5, <3>1
        <5>. QED  BY <2>3, <3>1, <5>1, <5>2
      <4>2. o[k] - o[first] = total
        BY <2>4, <2>8, <3>1
      <4>. QED  BY <2>3, <2>5, <2>6, <3>1, <4>1, <4>2
    <3>2. CASE k \in first .. n
      <4>1. /\ off[k + 1] = off[k] + HEADER_SIZE + sizes[k] /\ sizes'[k] = sizes[k] /\ sizes[k] \in Nat
            /\ o[k] = off[k] /\ o[k + 1] = off[k + 1] /\ o[first] = off[first]
            /\ off[k + 1] <= off[n + 1] /\ off[k] \in Nat /\ off[first] \in Nat
        <5>1. /\ k \in 1 .. n /\ k \in 1 .. n + 1 /\ k + 1 \in 1 .. n + 1 /\ first \in 1 .. n + 1
              /\ k + 1 \in first .. n + 1 /\ n + 1 \in first .. n + 1 /\ k + 1 <= n + 1
          BY <2>4, <3>2
        <5>2. o[k] = off[k] /\ o[k + 1] = off[k + 1] /\ o[first] = off[first]
          BY <2>8, <5>1
        <5>3. off[k + 1] <= off[n + 1] /\ off[k] \in Nat /\ off[first] \in Nat
          BY <2>4, <5>1
        <5>. QED  BY <2>4, <2>5, <3>2, <5>1, <5>2, <5>3
      <4>2. ASSUME NEW i \in 1 .. HEADER_SIZE + sizes[k]
            PROVE  Byte(o[k] - o[first] + i)' = [packet |-> k, place |-> i]
        <5>1. o[k] - o[first] + i \in Int /\ o[k] - o[first] + i <= total
          BY <2>4, <4>1
        <5>2. Byte(off[k] - off[first] + i) = [packet |-> k, place |-> i]
          BY <2>4, <3>2
        <5>. QED  BY <2>6, <4>1, <5>1, <5>2
      <4>. QED  BY <4>1, <4>2
    <3>. QED  BY <2>4, <3>1, <3>2
  <2>12. ASSUME NEW j \in 1 .. total + len
         PROVE  \E k \in first .. n + 1 : o[k] < o[first] + j /\ o[first] + j <= o[k + 1]
    <3>0. o[first] = off[first] /\ off[first] \in Nat
      BY <2>4, <2>8
    <3>1. CASE j <= total
      <4>1. PICK k \in first .. n : off[k] < off[first] + j /\ off[first] + j <= off[k + 1]
        BY <2>4, <3>1
      <4>2. k \in 1 .. n + 1 /\ k + 1 \in 1 .. n + 1 /\ k \in first .. n + 1
        BY <2>4
      <4>. QED  BY <2>8, <3>0, <4>1, <4>2
    <3>2. CASE j > total
      <4>1. o[n + 1] = off[first] + total /\ o[n + 2] = off[first] + total + len
        BY <2>4, <2>8
      <4>2. o[n + 1] < o[first] + j /\ o[first] + j <= o[(n + 1) + 1]
        BY <3>0, <3>2, <4>1
      <4>. QED  BY <2>4, <4>2
    <3>. QED  BY <3>1, <3>2
  <2>13. Unread(first, o)'
    <3>1. Len(sizes)' = n + 1 /\ Total' = total + len /\ lost' = lost
      BY <1>1, <2>5, <2>6
    <3>2. \A p \in lost : p \in 1 .. first - 1
      BY <2>4
    <3>3. (n + 1) + 1 = n + 2
      OBVIOUS
    <3>. QED  BY <2>9, <2>10, <2>11, <2>12, <3>1, <3>2, <3>3 DEF Unread
  <2>14. UnderWay(num, start, first)'
    <3>1. UnderWay(num, start, first) /\ start[Len(jobQ) + 1] \in Nat /\ Len(set) \in Nat
      <4>1. Len(jobQ) + 1 \in Nat
        BY <1>7
      <4>. QED  BY <1>7, <1>10, <4>1, StreamLengths DEF Stream
    <3>2. PICK b : b = recvPacket
      OBVIOUS
    <3>3. PICK packets : packets = set
      OBVIOUS
    <3>4. PICK from \in Nat : from = start[Len(jobQ) + 1]
      BY <3>1
    <3>5. HoldsAll(b, packets, num, from)'
      BY <1>6, <3>1, <3>2, <3>3, <3>4 DEF UnderWay
    <3>. QED  BY <1>1, <3>1, <3>2, <3>3, <3>4, <3>5 DEF UnderWay
  <2>15. Stream(num, start, first, o)'
    BY <1>4, <1>5, <1>8, <2>8, <2>13, <2>14 DEF Stream
  <2>. QED  BY <2>15
<1>. QED  BY <1>9, <1>10

LEMMA Below ==
  ASSUME NEW n \in Nat, NEW k \in 1 .. n + 1, k # n + 1
  PROVE  k \in 1 .. n /\ k \in k .. n
OBVIOUS

LEMMA Longer ==
  ASSUME NEW h \in Nat, NEW n \in Nat, NEW used \in Nat, h <= used, NEW i \in 1 .. h
  PROVE  i <= used /\ i \in 1 .. h + n
OBVIOUS

LEMMA Within ==
  ASSUME NEW a \in Nat, NEW b \in Nat, NEW c \in Nat, NEW d \in Nat, NEW t \in Nat,
         NEW h \in Nat, NEW n \in Nat, NEW i \in 1 .. h + n,
         a <= b, c <= d, d = a + t, c = b + h + n
  PROVE  b - a + i \in 1 .. t
OBVIOUS

(* The bytes of a packet that is not registered are among those unread.     *)
LEMMA PacketIsInside ==
  ASSUME SizesInv, StreamTypes, NEW first \in Nat, NEW off \in [Nat -> Nat], Unread(first, off),
         NEW k \in first .. Len(sizes), NEW i \in 1 .. HEADER_SIZE + sizes[k]
  PROVE  off[k] - off[first] + i \in 1 .. Total
<1>1. /\ first \in 1 .. Len(sizes) + 1 /\ Len(sizes) \in Nat /\ Total \in Nat
      /\ k \in 1 .. Len(sizes) /\ sizes[k] \in Nat /\ HEADER_SIZE \in Nat
  BY StreamLengths, SizesAssumption DEF Unread
<1>2. /\ first \in first .. Len(sizes) + 1 /\ k \in first .. Len(sizes) + 1
      /\ k + 1 \in first .. Len(sizes) + 1 /\ Len(sizes) + 1 \in first .. Len(sizes) + 1
      /\ first <= k /\ k + 1 <= Len(sizes) + 1
  BY <1>1
<1>3. off[first] <= off[k] /\ off[k + 1] <= off[Len(sizes) + 1]
  BY <1>2 DEF Unread
<1>4. /\ off[Len(sizes) + 1] = off[first] + Total
      /\ off[k + 1] = off[k] + HEADER_SIZE + sizes[k]
  BY DEF Unread
<1>5. k \in Nat /\ k + 1 \in Nat /\ Len(sizes) + 1 \in Nat
  BY <1>1
<1>6. off[first] \in Nat /\ off[k] \in Nat /\ off[k + 1] \in Nat /\ off[Len(sizes) + 1] \in Nat
  BY <1>5
<1>. QED  BY <1>1, <1>3, <1>4, <1>6, Within

(* Where the unread bytes are does not matter.                              *)
LEMMA SameBytes ==
  ASSUME SizesInv, StreamTypes, NEW first \in Nat, NEW off \in [Nat -> Nat], Unread(first, off),
         UNCHANGED <<sizes, lost>>, Total' = Total, \A j \in 1 .. Total : Byte(j)' = Byte(j)
  PROVE  Unread(first, off)'
<1>1. ASSUME NEW k \in first .. Len(sizes), NEW i \in 1 .. HEADER_SIZE + sizes[k]
      PROVE  Byte(off[k] - off[first] + i)' = [packet |-> k, place |-> i]
  <2>1. PICK j : j = off[k] - off[first] + i
    OBVIOUS
  <2>2. j \in 1 .. Total
    BY <2>1, PacketIsInside
  <2>3. Byte(off[k] - off[first] + i) = [packet |-> k, place |-> i]
    BY DEF Unread
  <2>. QED  BY <2>1, <2>2, <2>3
<1>. QED  BY <1>1 DEF Unread

LEMMA NothingUnderWay ==
  ASSUME NEW num, NEW start, NEW first, UnderWay(num, start, first),
         set = <<>>, UNCHANGED <<set, jobQ, lost>>
  PROVE  UnderWay(num, start, first)'
<1>1. 1 .. Len(set) = {}
  OBVIOUS
<1>2. HoldsAll(recvPacket, set, num, start[Len(jobQ) + 1])'
  BY <1>1 DEF HoldsAll
<1>. QED  BY <1>2 DEF UnderWay

LEMMA ReceiveKeepsStream ==
  ASSUME SizesInv, OwnersInv, StreamTypes, NEW n \in 1 .. MASK, Receive(n),
         NEW num, NEW start, NEW first, NEW off, Stream(num, start, first, off)
  PROVE  Stream(num, start, first, off)'
<1> USE SizesAssumption
<1>1. /\ pc = "recv" /\ n \in 1 .. Len(wire) /\ UNCHANGED <<sizes, recvPacket, readPos, set>>
      /\ UNCHANGED <<jobQ, delivered, lost>>
  BY StreamLengths DEF Receive, logic, link
<1>2. recvPacket \in Buffers /\ recvPacket \notin Owners /\ set = <<>> /\ writePos < MASK
  BY <1>1 DEF OwnersInv, BufferHasOneOwner, SizesInv, BetweenReceives, PositionsOK
<1>3. \A b \in Owners : memory'[b] = memory[b]
  BY <1>2 DEF Receive, OwnersInv, BufferHasOneOwner
<1>4. Numbered(num)' /\ Read(num)' /\ Queued(num, start)'
  BY <1>1, <1>3, TakenKept
<1>5. CASE writePos + n >= MASK
  <2>1. ~Receiving'
    BY <1>5 DEF Receive, Quit, Receiving
  <2>. QED  BY <1>4, <2>1 DEF Stream
<1>6. CASE ~(writePos + n >= MASK)
  <2>1. writePos' = writePos + n
    BY <1>6 DEF Receive
  <2>2. /\ Used' = Used + n /\ Used \in Nat /\ Len(wire) \in Nat /\ Total = Used + Len(wire)
        /\ readPos \in Nat /\ writePos = readPos + Used
    BY <1>1, <2>1, StreamLengths DEF Used
  <2>3. /\ Len(wire') = Len(wire) - n
        /\ \A i \in 1 .. Len(wire) - n : wire'[i] = wire[n + i]
    <3>1. wire' = SubSeq(wire, n + 1, Len(wire)) /\ wire \in Seq([packet : Nat, place : Nat])
      BY DEF Receive, StreamTypes
    <3>. QED  BY <1>1, <2>2, <3>1
  <2>4. Total' = Total
    BY <2>2, <2>3 DEF Total
  <2>5. \A i \in 0 .. MASK :
          At(i)' = IF i \in writePos .. writePos + n - 1 THEN wire[i - writePos + 1] ELSE At(i)
    BY <1>1, <1>2 DEF Receive, StreamTypes, At
  <2>6. ASSUME NEW j \in 1 .. Total
        PROVE  Byte(j)' = Byte(j)
    <3>1. CASE j <= Used
      <4>1. PICK i : i = readPos + j - 1
        OBVIOUS
      <4>2. i \in 0 .. MASK /\ i \notin writePos .. writePos + n - 1 /\ j <= Used + n
        BY <1>2, <2>2, <3>1, <4>1
      <4>3. At(i)' = At(i)
        BY <2>5, <4>2
      <4>. QED  BY <1>1, <2>2, <3>1, <4>1, <4>2, <4>3 DEF Byte, At
    <3>2. CASE j > Used /\ j <= Used + n
      <4>1. PICK i : i = readPos + j - 1
        OBVIOUS
      <4>2. /\ i \in 0 .. MASK /\ i \in writePos .. writePos + n - 1
            /\ i - writePos + 1 = j - Used /\ ~(j <= Used) /\ j <= Used + n
        BY <1>2, <1>6, <2>2, <3>2, <4>1
      <4>3. At(i)' = wire[j - Used]
        BY <2>5, <4>2
      <4>4. Byte(j)' = At(i)'
        BY <1>1, <2>2, <4>1, <4>2 DEF Byte, At
      <4>. QED  BY <4>2, <4>3, <4>4 DEF Byte
    <3>3. CASE j > Used + n
      <4>1. /\ j - Used - n \in 1 .. Len(wire) - n /\ n + (j - Used - n) = j - Used
            /\ ~(j <= Used) /\ ~(j <= Used + n) /\ j - (Used + n) = j - Used - n
        BY <2>2, <3>3
      <4>2. wire'[j - Used - n] = wire[j - Used]
        BY <2>3, <4>1
      <4>. QED  BY <2>2, <4>1, <4>2 DEF Byte
    <3>. QED  BY <2>2, <3>1, <3>2, <3>3
  <2>7. Unread(first, off)'
    BY <1>1, <2>4, <2>6, SameBytes DEF Stream, Receiving
  <2>8. UnderWay(num, start, first)'
    BY <1>1, <1>2, NothingUnderWay DEF Stream, Receiving
  <2>. QED  BY <1>4, <2>7, <2>8 DEF Stream
<1>. QED  BY <1>5, <1>6

LEMMA KeepBufferKeepsStream ==
  ASSUME SizesInv, OwnersInv, StreamTypes, KeepBuffer,
         NEW num, NEW start, NEW first, NEW off, Stream(num, start, first, off)
  PROVE  Stream(num, start, first, off)'
<1>1. /\ pc = "register" /\ set = <<>> /\ readPos' = prevReadPos
      /\ UNCHANGED <<sizes, wire, memory, recvPacket, writePos, set, jobQ, delivered, lost>>
  BY DEF KeepBuffer, peer, logic, link
<1>2. readPos' = readPos
  BY <1>1 DEF SizesInv, WhileRegistering
<1>3. Numbered(num)' /\ Read(num)' /\ Queued(num, start)'
  BY <1>1, TakenKept
<1>4. Total' = Total /\ \A j : Byte(j)' = Byte(j)
  BY <1>1, <1>2 DEF Total, Byte, Used, At
<1>5. Unread(first, off)'
  BY <1>1, <1>4, SameBytes DEF Stream, Receiving
<1>6. UnderWay(num, start, first)'
  BY <1>1, NothingUnderWay DEF Stream, Receiving
<1>. QED  BY <1>3, <1>5, <1>6 DEF Stream

(* The packet that is registered next is the first one unread.              *)
LEMMA FirstPacket ==
  ASSUME SizesInv, StreamTypes, NEW first \in Nat, NEW off \in [Nat -> Nat], Unread(first, off),
         Used >= HEADER_SIZE, NEW size \in PacketSizes
  PROVE  /\ first \in 1 .. Len(sizes) /\ size = sizes[first] /\ size \in Nat
         /\ \A i \in 1 .. HEADER_SIZE + size : Byte(i) = [packet |-> first, place |-> i]
<1> USE SizesAssumption
<1>1. first \in 1 .. Len(sizes) + 1 /\ off[Len(sizes) + 1] = off[first] + Total
  BY DEF Unread
<1>2. Total > 0 /\ off[first] \in Nat
  <2>1. Used \in Nat /\ Len(wire) \in Nat /\ Total = Used + Len(wire)
    BY StreamLengths
  <2>2. Used > 0
    BY <2>1
  <2>. QED  BY <2>1, <2>2
<1>3. first # Len(sizes) + 1
  <2>1. PICK t \in Nat : t = Total /\ t > 0
    <3>1. Total \in Nat
      BY StreamLengths
    <3>. QED  BY <1>2, <3>1
  <2>2. PICK o \in Nat : o = off[first]
    BY <1>2
  <2>3. off[Len(sizes) + 1] = o + t /\ o + t # o
    BY <1>1, <2>1, <2>2
  <2>. QED  BY <2>2, <2>3
<1>4. first \in 1 .. Len(sizes) /\ first \in first .. Len(sizes) /\ sizes[first] \in Nat
  <2>1. Len(sizes) \in Nat /\ \A p \in 1 .. Len(sizes) : sizes[p] \in Nat
    BY StreamLengths
  <2>2. first \in 1 .. Len(sizes) /\ first \in first .. Len(sizes)
    BY <1>1, <1>3, <2>1, Below
  <2>. QED  BY <2>1, <2>2
<1>5. ASSUME NEW i \in 1 .. HEADER_SIZE + sizes[first]
      PROVE  Byte(i) = [packet |-> first, place |-> i]
  <2>1. Byte(off[first] - off[first] + i) = [packet |-> first, place |-> i]
    BY <1>4 DEF Unread
  <2>2. i \in Int
    BY <1>4
  <2>3. off[first] - off[first] + i = i
    BY <1>2, <2>2
  <2>. QED  BY <2>1, <2>3
<1>6. \A i \in 1 .. HEADER_SIZE : At(readPos + i - 1) = [packet |-> first, place |-> i]
  <2>0. Used \in Nat
    BY StreamLengths
  <2>1. \A i \in 1 .. HEADER_SIZE : i <= Used /\ i \in 1 .. HEADER_SIZE + sizes[first]
    <3>1. HEADER_SIZE \in Nat /\ sizes[first] \in Nat /\ HEADER_SIZE <= Used
      BY <1>4, <2>0
    <3>. QED  BY <2>0, <3>1, Longer
  <2>. QED  BY <1>5, <2>1 DEF Byte
<1>7. At(readPos).packet = first
  <2>1. 1 \in 1 .. HEADER_SIZE /\ readPos + 1 - 1 = readPos
    BY StreamLengths
  <2>2. At(readPos + 1 - 1) = [packet |-> first, place |-> 1]
    BY <1>6, <2>1
  <2>. QED  BY <2>1, <2>2
<1>8. HeaderIsWhole
  BY <1>6, <1>7 DEF HeaderIsWhole
<1>9. size = sizes[first]
  BY <1>7, <1>8 DEF PacketSizes
<1>. QED  BY <1>4, <1>5, <1>9

(* The packets before the first one unread that are kept, and that one.     *)
LEMMA KeptCount ==
  ASSUME NEW first \in Nat \ {0}, first \notin lost
  PROVE  /\ Cardinality((1 .. first) \ lost) = Cardinality((1 .. first - 1) \ lost) + 1
         /\ Cardinality((1 .. first - 1) \ lost) \in 0 .. first - 1
<1> DEFINE before == (1 .. first - 1) \ lost
<1>1. IsFiniteSet(1 .. first - 1) /\ Cardinality(1 .. first - 1) = first - 1
  BY FS_Interval
<1>2. /\ before \subseteq 1 .. first - 1 /\ first \notin before
      /\ (1 .. first) \ lost = before \union {first}
  OBVIOUS
<1>3. IsFiniteSet(before) /\ Cardinality(before) \in Nat /\ Cardinality(before) <= first - 1
  BY <1>1, <1>2, FS_Subset, FS_CardinalityType
<1>4. Cardinality(before \union {first}) = Cardinality(before) + 1
  BY <1>2, <1>3, FS_AddElement
<1>. QED  BY <1>2, <1>3, <1>4

LEMMA SetIsFull ==
  ASSUME SizesInv, OwnersInv, StreamTypes, NEW size \in 0 .. MSG_MAX_LEN + 1, RegisterPacket(size),
         ~(Len(set) < SET_MAX),
         NEW num, NEW start, NEW first, NEW off, Stream(num, start, first, off)
  PROVE  Len(sizes) > SET_MAX
<1> USE SizesAssumption
<1>1. /\ Used >= HEADER_SIZE /\ size \in PacketSizes /\ Receiving
      /\ num \in Seq(Nat) /\ start \in [Nat -> Nat] /\ first \in Nat /\ off \in [Nat -> Nat]
      /\ Unread(first, off) /\ UnderWay(num, start, first)
  BY DEF RegisterPacket, Receiving, Stream
<1>2. first \in 1 .. Len(sizes) /\ first \notin lost
  <2>1. first \in 1 .. Len(sizes)
    BY <1>1, FirstPacket
  <2>2. \A p \in lost : p \in 1 .. first - 1
    BY <1>1 DEF Unread
  <2>. QED  BY <2>1, <2>2
<1>3. Len(num) \in 0 .. first - 1
  <2>1. first \in Nat \ {0} /\ Cardinality((1 .. first - 1) \ lost) = Len(num)
    BY <1>1, <1>2 DEF UnderWay
  <2>. QED  BY <1>2, <2>1, KeptCount
<1>4. start[Len(jobQ) + 1] + Len(set) = Len(num) /\ start[Len(jobQ) + 1] \in Nat
  <2>1. Len(jobQ) + 1 \in Nat
    BY JobTypes
  <2>. QED  BY <1>1, <2>1 DEF UnderWay
<1>5. Len(set) \in Nat /\ Len(sizes) \in Nat
  BY StreamLengths
<1>. QED  BY <1>2, <1>3, <1>4, <1>5

(* A packet that has a number more leaves the numbers before it.            *)
LEMMA LongerNum ==
  ASSUME NEW num \in Seq(Nat), NEW more \in Seq(Nat), Len(more) >= Len(num),
         \A j \in 1 .. Len(num) : more[j] = num[j],
         NEW b, NEW packets, NEW from \in Nat, Len(packets) \in Nat,
         HoldsAll(b, packets, num, from)
  PROVE  HoldsAll(b, packets, more, from)
<1>1. ASSUME NEW m \in 1 .. Len(packets)
      PROVE  from + m <= Len(more) /\ Holds(b, packets[m], more[from + m])
  <2>1. from + m <= Len(num) /\ Holds(b, packets[m], num[from + m])
    BY DEF HoldsAll
  <2>2. from + m \in 1 .. Len(num) /\ from + m <= Len(more)
    BY <2>1
  <2>. QED  BY <2>1, <2>2
<1>. QED  BY <1>1 DEF HoldsAll

LEMMA Shifted ==
  ASSUME NEW a \in Nat, NEW b \in Nat, NEW c \in Nat, NEW d \in Nat, b = a + d,
         NEW i \in Int, NEW j \in Int, j = c - b + i
  PROVE  j + d = c - a + i
OBVIOUS

LEMMA Sums ==
  ASSUME NEW a \in Nat, NEW b \in Nat, NEW c \in Nat
  PROVE  a + b + c = a + (b + c) /\ b + c \in Nat
OBVIOUS

LEMMA UnreadNext ==
  ASSUME SizesInv, StreamTypes, NEW first \in Nat, NEW off \in [Nat -> Nat], Unread(first, off),
         first \in 1 .. Len(sizes), UNCHANGED <<sizes, lost, wire, memory, recvPacket, writePos>>,
         readPos' = readPos + (HEADER_SIZE + sizes[first])
  PROVE  Unread(first + 1, off)'
<1>1. PICK n \in Nat : n = Len(sizes) /\ first \in 1 .. n
  BY StreamLengths
<1>2. PICK d \in Nat : d = HEADER_SIZE + sizes[first]
  <2>1. sizes[first] \in Nat
    BY StreamLengths
  <2>2. HEADER_SIZE \in Nat
    BY SizesAssumption
  <2>3. HEADER_SIZE + sizes[first] \in Nat
    BY <2>1, <2>2, Sums
  <2>. QED  BY <2>3
<1>3. PICK total \in Nat : total = Total
  BY StreamLengths
<1>4. /\ off[n + 1] = off[first] + total
      /\ \A k, l \in first .. n + 1 : k <= l => off[k] <= off[l]
  BY <1>1, <1>3 DEF Unread
<1>13. \A k \in first .. n :
           /\ off[k + 1] = off[k] + HEADER_SIZE + sizes[k]
           /\ \A i \in 1 .. HEADER_SIZE + sizes[k] :
                Byte(off[k] - off[first] + i) = [packet |-> k, place |-> i]
  BY <1>1 DEF Unread
<1>14. /\ \A j \in 1 .. total : \E k \in first .. n :
           off[k] < off[first] + j /\ off[first] + j <= off[k + 1]
       /\ \A p \in lost : p \in 1 .. first - 1
  BY <1>1, <1>3 DEF Unread
<1>5. /\ off[first + 1] = off[first] + d
      /\ off[first] \in Nat /\ off[n + 1] \in Nat /\ off[first + 1] \in Nat
  <2>1. first \in first .. n /\ n + 1 \in Nat /\ first + 1 \in Nat
    BY <1>1
  <2>2. off[first + 1] = off[first] + HEADER_SIZE + sizes[first]
    BY <1>13, <2>1
  <2>3. off[first] \in Nat /\ off[n + 1] \in Nat /\ off[first + 1] \in Nat
    BY <2>1
  <2>4. HEADER_SIZE \in Nat /\ sizes[first] \in Nat
    <3>1. HEADER_SIZE \in Nat
      BY SizesAssumption
    <3>2. sizes[first] \in Nat
      BY StreamLengths
    <3>. QED  BY <3>1, <3>2
  <2>5. off[first] + HEADER_SIZE + sizes[first] = off[first] + (HEADER_SIZE + sizes[first])
    <3>1. PICK a \in Nat, b \in Nat, c \in Nat :
            a = off[first] /\ b = HEADER_SIZE /\ c = sizes[first]
      BY <2>3, <2>4
    <3>2. a + b + c = a + (b + c)
      BY Sums
    <3>. QED  BY <3>1, <3>2
  <2>. QED  BY <1>2, <2>2, <2>3, <2>5
<1>6. Total' = total - d /\ \A j \in Int : Byte(j)' = Byte(j + d)
  <2>1. /\ Used' = Used - d /\ Used \in Nat /\ Len(wire) \in Nat /\ total = Used + Len(wire)
        /\ readPos' = readPos + d /\ readPos \in Nat
        /\ wire' = wire /\ memory' = memory /\ recvPacket' = recvPacket
    <3>1. /\ Used \in Nat /\ Len(wire) \in Nat /\ total = Used + Len(wire) /\ readPos \in Nat
          /\ writePos = readPos + Used
      BY <1>3, StreamLengths
    <3>2. readPos' = readPos + d /\ writePos' = writePos
      BY <1>2
    <3>3. Used' = (readPos + Used) - (readPos + d)
      BY <3>1, <3>2 DEF Used
    <3>4. (readPos + Used) - (readPos + d) = Used - d
      BY <3>1
    <3>. QED  BY <3>1, <3>2, <3>3, <3>4
  <2>2. Total' = total - d
    BY <2>1 DEF Total
  <2>3. ASSUME NEW j \in Int
        PROVE  Byte(j)' = Byte(j + d)
    <3>1. CASE j <= Used - d
      <4>1. j + d <= Used /\ (readPos + d) + j - 1 = readPos + (j + d) - 1
        BY <2>1, <3>1
      <4>. QED  BY <2>1, <3>1, <4>1 DEF Byte, At
    <3>2. CASE ~(j <= Used - d)
      <4>1. ~(j + d <= Used) /\ j - (Used - d) = (j + d) - Used
        BY <2>1, <3>2
      <4>. QED  BY <2>1, <3>2, <4>1 DEF Byte
    <3>. QED  BY <3>1, <3>2
  <2>. QED  BY <2>2, <2>3
<1>7. /\ first + 1 \in 1 .. n + 1
      /\ off[n + 1] = off[first + 1] + (total - d)
  BY <1>1, <1>4, <1>5
<1>8. \A k, l \in first + 1 .. n + 1 : k <= l => off[k] <= off[l]
  <2>1. \A k \in first + 1 .. n + 1 : k \in first .. n + 1
    BY <1>1
  <2>. QED  BY <1>4, <2>1
<1>9. ASSUME NEW k \in first + 1 .. n
      PROVE  /\ off[k + 1] = off[k] + HEADER_SIZE + sizes[k]
             /\ \A i \in 1 .. HEADER_SIZE + sizes[k] :
                  Byte(off[k] - off[first + 1] + i)' = [packet |-> k, place |-> i]
  <2>1. k \in first .. n /\ k \in Nat /\ off[k] \in Nat
    BY <1>1
  <2>2. ASSUME NEW i \in 1 .. HEADER_SIZE + sizes[k]
        PROVE  Byte(off[k] - off[first + 1] + i)' = [packet |-> k, place |-> i]
    <3>0. i \in Int
      OBVIOUS
    <3>1. off[k] - off[first + 1] + i \in Int
      BY <1>5, <2>1, <3>0
    <3>4. PICK j \in Int : j = off[k] - off[first + 1] + i
      BY <3>1
    <3>2. j + d = off[k] - off[first] + i
      <4>1. PICK a \in Nat, b \in Nat, c \in Nat :
              a = off[first] /\ b = off[first + 1] /\ c = off[k]
        BY <1>5, <2>1
      <4>2. b = a + d /\ j = c - b + i
        BY <1>5, <3>4, <4>1
      <4>3. j + d = c - a + i
        BY <3>0, <4>2, Shifted
      <4>. QED  BY <4>1, <4>3
    <3>3. Byte(j + d) = [packet |-> k, place |-> i]
      BY <1>13, <2>1, <3>2
    <3>. QED  BY <1>6, <3>3, <3>4
  <2>3. off[k + 1] = off[k] + HEADER_SIZE + sizes[k]
    BY <1>13, <2>1
  <2>. QED  BY <2>2, <2>3
<1>10. ASSUME NEW j \in 1 .. total - d
       PROVE  \E k \in first + 1 .. n :
                off[k] < off[first + 1] + j /\ off[first + 1] + j <= off[k + 1]
  <2>1. j + d \in 1 .. total
    OBVIOUS
  <2>2. PICK k \in first .. n : off[k] < off[first] + (j + d) /\ off[first] + (j + d) <= off[k + 1]
    BY <1>14, <2>1
  <2>3. k # first
    <3>1. ~(off[first] + (j + d) <= off[first + 1])
      BY <1>5
    <3>. QED  BY <2>2, <3>1
  <2>4. k \in first + 1 .. n
    BY <1>1, <2>3
  <2>5. off[first] + (j + d) = off[first + 1] + j
    BY <1>5
  <2>. QED  BY <2>2, <2>4, <2>5
<1>11. \A p \in lost : p \in 1 .. (first + 1) - 1
  BY <1>1, <1>14
<1>12. Len(sizes)' = n /\ Total' = total - d /\ sizes' = sizes /\ lost' = lost
  BY <1>1, <1>6
<1>. QED  BY <1>7, <1>8, <1>9, <1>10, <1>11, <1>12 DEF Unread

(* What a buffer holds stays there while nobody writes into it.             *)
LEMMA SameHolds ==
  ASSUME NEW b, memory'[b] = memory[b], sizes' = sizes, NEW packets, NEW num, NEW from,
         HoldsAll(b, packets, num, from)
  PROVE  HoldsAll(b, packets, num, from)'
BY DEF HoldsAll, Holds

(* The bytes of the packet that is registered.                              *)
LEMMA HoldsFirst ==
  ASSUME SizesInv, StreamTypes, NEW first \in Nat, NEW size \in Nat, size = sizes[first],
         HEADER_SIZE + size <= Used,
         \A i \in 1 .. HEADER_SIZE + size : Byte(i) = [packet |-> first, place |-> i],
         NEW packet, packet = [pos |-> readPos + HEADER_SIZE, size |-> size]
  PROVE  Holds(recvPacket, packet, first)
<1>1. packet.size = sizes[first] /\ packet.size = size /\ packet.pos = readPos + HEADER_SIZE
  OBVIOUS
<1>2. ASSUME NEW i \in 1 .. size
      PROVE  memory[recvPacket][packet.pos + i - 1] = [packet |-> first, place |-> HEADER_SIZE + i]
  <2>1. PICK h \in Nat : h = HEADER_SIZE
    BY SizesAssumption
  <2>2. PICK r \in Nat, u \in Nat : r = readPos /\ u = Used
    BY StreamLengths
  <2>3. h + i \in 1 .. h + size /\ h + i <= u /\ r + (h + i) - 1 = r + h + i - 1
    <3>1. h + size <= u
      BY <2>1, <2>2
    <3>. QED  BY <3>1
  <2>4. Byte(h + i) = [packet |-> first, place |-> h + i]
    BY <2>1, <2>3
  <2>5. Byte(h + i) = memory[recvPacket][r + (h + i) - 1]
    BY <2>2, <2>3 DEF Byte, At
  <2>6. packet.pos + i - 1 = r + h + i - 1
    BY <1>1, <2>1, <2>2
  <2>. QED  BY <2>1, <2>3, <2>4, <2>5, <2>6
<1>. QED  BY <1>1, <1>2 DEF Holds

LEMMA RegisterPacketKeepsStream ==
  ASSUME SizesInv, OwnersInv, StreamTypes, NEW size \in 0 .. MSG_MAX_LEN + 1, RegisterPacket(size),
         Len(set) < SET_MAX,
         NEW num, NEW start, NEW first, NEW off, Stream(num, start, first, off)
  PROVE  \E more, next : Stream(more, start, next, off)'
<1>1. /\ Used >= HEADER_SIZE /\ size \in PacketSizes /\ Receiving
      /\ num \in Seq(Nat) /\ start \in [Nat -> Nat] /\ first \in Nat /\ off \in [Nat -> Nat]
      /\ Numbered(num) /\ Read(num) /\ Queued(num, start)
      /\ Unread(first, off) /\ UnderWay(num, start, first)
  BY DEF RegisterPacket, Receiving, Stream
<1>2. /\ readPos' = readPos + HEADER_SIZE + size
      /\ UNCHANGED <<sizes, wire, memory, recvPacket, writePos, jobQ, delivered, lost, pc>>
  BY DEF RegisterPacket, peer, logic, link
<1>3. PICK packet : /\ packet = [pos |-> readPos + HEADER_SIZE, size |-> size]
                    /\ set' = Append(set, packet)
  BY DEF RegisterPacket
<1>4. /\ first \in 1 .. Len(sizes) /\ size = sizes[first] /\ size \in Nat
      /\ \A i \in 1 .. HEADER_SIZE + size : Byte(i) = [packet |-> first, place |-> i]
  BY <1>1, FirstPacket
<1>5. HEADER_SIZE \in Nat /\ readPos \in Nat /\ Used \in Nat
  <2>1. HEADER_SIZE \in Nat
    BY SizesAssumption
  <2>. QED  BY <2>1, StreamLengths
<1>6. HEADER_SIZE + size <= Used
  <2>1. Used - HEADER_SIZE >= size
    BY DEF RegisterPacket, IsComplete
  <2>. QED  BY <2>1, <1>4, <1>5
<1>7. Holds(recvPacket, packet, first)
  BY <1>1, <1>3, <1>4, <1>6, HoldsFirst
<1>8. Unread(first + 1, off)'
  <2>1. readPos' = readPos + (HEADER_SIZE + sizes[first])
    <3>1. readPos + HEADER_SIZE + size = readPos + (HEADER_SIZE + size)
      BY <1>4, <1>5, Sums
    <3>. QED  BY <3>1, <1>2, <1>4
  <2>. QED  BY <1>1, <1>2, <1>4, <2>1, UnreadNext
<1>9. first \notin lost
  <2>1. \A p \in lost : p \in 1 .. first - 1
    BY <1>1 DEF Unread
  <2>. QED  BY <1>1, <2>1
<1>10. PICK len \in Nat : len = Len(num)
  BY <1>1
<1>11. PICK more \in Seq(Nat) : /\ Len(more) = len + 1 /\ more[len + 1] = first
                                /\ \A j \in 1 .. len : more[j] = num[j]
  <2>1. /\ Append(num, first) \in Seq(Nat) /\ Len(Append(num, first)) = len + 1
        /\ Append(num, first)[len + 1] = first
        /\ \A j \in 1 .. len : Append(num, first)[j] = num[j]
    BY <1>1, <1>10
  <2>. QED  BY <2>1
<1>12. Cardinality((1 .. first) \ lost) = len + 1
  <2>1. Cardinality((1 .. first - 1) \ lost) = len
    BY <1>1, <1>10 DEF UnderWay
  <2>2. first \in Nat \ {0}
    BY <1>4
  <2>. QED  BY <1>9, <2>1, <2>2, KeptCount
<1>13. Numbered(more)'
  <2>1. \A j \in 1 .. len : more[j] \in 1 .. Len(sizes) /\ IsKept(more[j], j)
    BY <1>1, <1>10, <1>11 DEF Numbered
  <2>2. more[len + 1] \in 1 .. Len(sizes) /\ IsKept(more[len + 1], len + 1)
    BY <1>4, <1>9, <1>11, <1>12 DEF IsKept
  <2>3. \A j \in 1 .. len + 1 : j \in 1 .. len \/ j = len + 1
    OBVIOUS
  <2>4. Numbered(more)
    BY <1>11, <2>1, <2>2, <2>3 DEF Numbered
  <2>. QED  BY <2>4, <1>2 DEF Numbered, IsKept
<1>14. Read(more)'
  <2>1. \A k \in 1 .. Len(delivered) : k \in 1 .. len
    <3>1. Len(delivered) <= len /\ Len(delivered) = start[1] /\ start[1] \in Nat
      BY <1>1, <1>10 DEF Queued
    <3>2. PICK d \in Nat : d = Len(delivered) /\ d <= len
      BY <3>1
    <3>. QED  BY <3>2
  <2>2. Read(more)
    BY <1>1, <1>11, <2>1 DEF Read
  <2>. QED  BY <2>2, <1>2 DEF Read, PayloadSent
<1>15. ASSUME NEW b, NEW packets, NEW from \in Nat, Len(packets) \in Nat,
              HoldsAll(b, packets, num, from)
       PROVE  HoldsAll(b, packets, more, from)
  <2>1. num \in Seq(Nat)
    BY <1>1
  <2>2. Len(more) >= Len(num) /\ \A j \in 1 .. Len(num) : more[j] = num[j]
    BY <1>10, <1>11
  <2>. QED  BY <1>15, <2>1, <2>2, LongerNum
<1>16. Queued(more, start)'
  <2>1. ASSUME NEW k \in 1 .. Len(jobQ)
        PROVE  HoldsAll(jobQ[k].buffer, jobQ[k].packets, more, start[k])'
    <3>1. PICK b, packets, from : b = jobQ[k].buffer /\ packets = jobQ[k].packets /\ from = start[k]
      OBVIOUS
    <3>2. Len(packets) \in Nat
      BY <3>1, JobTypes
    <3>6. from \in Nat
      BY <1>1, <3>1
    <3>3. HoldsAll(b, packets, num, from)
      BY <1>1, <3>1 DEF Queued
    <3>4. HoldsAll(b, packets, more, from)
      BY <1>15, <3>2, <3>3, <3>6
    <3>5. HoldsAll(b, packets, more, from)'
      BY <1>2, <3>4, SameHolds
    <3>. QED  BY <1>2, <3>1, <3>5
  <2>2. /\ start[1] = Len(delivered) /\ start[Len(jobQ) + 1] <= len + 1 /\ Len(delivered) <= len + 1
        /\ \A k \in 1 .. Len(jobQ) : start[k + 1] = start[k] + Len(jobQ[k].packets)
    <3>1. /\ start[1] = Len(delivered) /\ start[Len(jobQ) + 1] <= len /\ Len(delivered) <= len
          /\ \A k \in 1 .. Len(jobQ) : start[k + 1] = start[k] + Len(jobQ[k].packets)
      BY <1>1, <1>10 DEF Queued
    <3>2. start[1] \in Nat /\ start[Len(jobQ) + 1] \in Nat
      <4>1. Len(jobQ) + 1 \in Nat
        BY JobTypes
      <4>. QED  BY <1>1, <4>1
    <3>. QED  BY <3>1, <3>2
  <2>. QED  BY <1>2, <1>11, <2>1, <2>2 DEF Queued
<1>17. UnderWay(more, start, first + 1)'
  <2>1. PICK from \in Nat : from = start[Len(jobQ) + 1]
    <3>1. Len(jobQ) + 1 \in Nat
      BY JobTypes
    <3>. QED  BY <1>1, <3>1
  <2>2. PICK packets : packets = set'
    OBVIOUS
  <2>3. PICK c \in Nat : c = Len(set)
    BY StreamLengths
  <2>4. /\ Len(packets) = c + 1 /\ packets[c + 1] = packet
        /\ \A m \in 1 .. c : packets[m] = set[m]
    <3>1. set \in Seq([pos : Nat, size : Nat])
      BY DEF SizesInv, SetInBuffer
    <3>2. packet \in [pos : Nat, size : Nat]
      BY <1>3, <1>4, <1>5
    <3>. QED  BY <1>3, <2>2, <2>3, <3>1, <3>2
  <2>5. from + c = len
    BY <1>1, <1>10, <2>1, <2>3 DEF UnderWay
  <2>6. HoldsAll(recvPacket, set, more, from)
    <3>1. HoldsAll(recvPacket, set, num, from)
      BY <1>1, <2>1 DEF UnderWay
    <3>. QED  BY <1>15, <2>3, <3>1
  <2>7. HoldsAll(recvPacket, packets, more, from)
    <3>1. ASSUME NEW m \in 1 .. c + 1
          PROVE  from + m <= Len(more) /\ Holds(recvPacket, packets[m], more[from + m])
      <4>1. CASE m \in 1 .. c
        BY <2>3, <2>4, <2>6, <4>1 DEF HoldsAll
      <4>2. CASE m = c + 1
        <5>1. from + m = len + 1
          BY <2>5, <4>2
        <5>. QED  BY <1>7, <1>11, <2>4, <4>2, <5>1
      <4>. QED  BY <4>1, <4>2
    <3>. QED  BY <2>4, <3>1 DEF HoldsAll
  <2>8. PICK b : b = recvPacket
    OBVIOUS
  <2>9. HoldsAll(b, packets, more, from)'
    <3>1. HoldsAll(b, packets, more, from)
      BY <2>7, <2>8
    <3>2. memory'[b] = memory[b] /\ sizes' = sizes
      BY <1>2
    <3>. QED  BY <3>1, <3>2, SameHolds
  <2>10. start[Len(jobQ) + 1] + Len(packets) = Len(more)
    <3>1. from + (c + 1) = len + 1
      BY <2>5
    <3>. QED  BY <1>11, <2>1, <2>4, <3>1
  <2>11. \A j \in 1 .. Len(more) : more[j] < first + 1
    <3>1. \A j \in 1 .. len : num[j] < first
      BY <1>1, <1>10 DEF UnderWay
    <3>2. \A j \in 1 .. len : num[j] \in Nat
      <4>1. num \in Seq(Nat)
        BY <1>1
      <4>. QED  BY <1>10, <4>1
    <3>3. first \in Nat
      BY <1>1
    <3>4. \A j \in 1 .. len + 1 : j \in 1 .. len \/ j = len + 1
      OBVIOUS
    <3>5. ASSUME NEW j \in 1 .. len
          PROVE  more[j] < first + 1
      <4>1. more[j] = num[j] /\ num[j] \in Nat /\ num[j] < first
        BY <1>11, <3>1, <3>2
      <4>. QED  BY <3>3, <4>1
    <3>6. more[len + 1] < first + 1
      BY <1>11, <3>3
    <3>. QED  BY <1>11, <3>4, <3>5, <3>6
  <2>12. Cardinality((1 .. (first + 1) - 1) \ lost) = Len(more)
    <3>1. (first + 1) - 1 = first
      BY <1>1
    <3>. QED  BY <1>11, <1>12, <3>1
  <2>13. /\ jobQ' = jobQ /\ lost' = lost /\ set' = packets /\ recvPacket' = b
    BY <1>2, <2>2, <2>8
  <2>. QED  BY <2>1, <2>9, <2>10, <2>11, <2>12, <2>13 DEF UnderWay
<1>18. first + 1 \in Nat
  BY <1>1
<1>. QED  BY <1>1, <1>8, <1>11, <1>13, <1>14, <1>16, <1>17, <1>18 DEF Stream

(* What is left over moves to the new buffer, the set goes to the logic.    *)
LEMMA CopyRemainderKeepsStream ==
  ASSUME SizesInv, OwnersInv, StreamTypes, CopyRemainder,
         NEW num, NEW start, NEW first, NEW off, Stream(num, start, first, off)
  PROVE  \E begin : Stream(num, begin, first, off)'
<1>1. /\ Receiving /\ set # <<>> /\ Numbered(num) /\ Read(num) /\ Queued(num, start)
      /\ num \in Seq(Nat) /\ start \in [Nat -> Nat] /\ first \in Nat /\ off \in [Nat -> Nat]
      /\ Unread(first, off) /\ UnderWay(num, start, first)
  BY DEF CopyRemainder, Receiving, Stream
<1>2. PICK u \in Nat, r \in Nat : u = Used /\ r = readPos /\ writePos = r + u
  BY StreamLengths
<1>3. CENTER \in Nat /\ HEADER_SIZE \in Nat /\ MSG_MAX_LEN \in Nat /\ MASK \in Nat
      /\ HEADER_SIZE + MSG_MAX_LEN <= CENTER /\ CENTER + HEADER_SIZE + MSG_MAX_LEN < MASK
  BY SizesAssumption
<1>4. u <= CENTER /\ ~(Remainder > CENTER)
  <2>1. writePos - readPos < HEADER_SIZE + MSG_MAX_LEN
    BY WaitingIsShort DEF CopyRemainder
  <2>2. (r + u) - r < HEADER_SIZE + MSG_MAX_LEN
    BY <1>2, <2>1
  <2>. QED  BY <1>2, <1>3, <2>2 DEF Remainder
<1>5. PICK b \in pool : /\ recvPacket' = b
                        /\ memory' = [memory EXCEPT ![b] =
                             [i \in 0 .. MASK |-> IF i \in CENTER - u .. CENTER - 1
                                                    THEN At(writePos - CENTER + i) ELSE @[i]]]
  BY <1>2, <1>4 DEF CopyRemainder, Remainder
<1>6. PICK old : old = recvPacket
  OBVIOUS
<1>7. PICK packets : packets = set
  OBVIOUS
<1>8. /\ jobQ' = Append(jobQ, [buffer |-> old, packets |-> packets]) /\ set' = <<>>
      /\ readPos' = CENTER - u /\ writePos' = CENTER
      /\ UNCHANGED <<sizes, wire, delivered, lost>>
  BY <1>2, <1>4, <1>6, <1>7 DEF CopyRemainder, Remainder, peer, link
<1>9. b \in Buffers /\ b \notin Owners /\ b # old
  BY <1>6 DEF OwnersInv, BufferHasOneOwner
<1>10. /\ \A a : a # b => memory'[a] = memory[a]
       /\ \A i \in 0 .. MASK : memory'[b][i] = IF i \in CENTER - u .. CENTER - 1
                                                THEN At(writePos - CENTER + i)
                                                ELSE memory[b][i]
  <2>1. DOMAIN memory = Buffers
    BY DEF StreamTypes
  <2>2. \A a : a # b => memory'[a] = memory[a]
    BY <1>5
  <2>3. memory'[b] = [i \in 0 .. MASK |-> IF i \in CENTER - u .. CENTER - 1
                                            THEN At(writePos - CENTER + i) ELSE memory[b][i]]
    BY <1>5, <1>9, <2>1
  <2>. QED  BY <2>2, <2>3
<1>11. Unread(first, off)'
  <2>1. Used' = u /\ Total' = Total
    <3>1. CENTER - (CENTER - u) = u
      BY <1>3
    <3>. QED  BY <1>2, <1>8, <3>1 DEF Total, Used
  <2>2. ASSUME NEW j \in 1 .. Total
        PROVE  Byte(j)' = Byte(j)
    <3>1. j \in Int /\ 1 <= j
      BY StreamLengths
    <3>2. CASE j <= u
      <4>1. PICK i : i = (CENTER - u) + j - 1
        OBVIOUS
      <4>2. /\ i \in 0 .. MASK /\ i \in CENTER - u .. CENTER - 1
            /\ (r + u) - CENTER + i = r + j - 1
        BY <1>3, <1>4, <3>1, <3>2, <4>1
      <4>3. memory'[b][i] = At(r + j - 1)
        BY <1>2, <1>10, <4>2
      <4>4. Byte(j)' = memory'[b][i]
        BY <1>5, <1>8, <2>1, <3>2, <4>1 DEF Byte, At
      <4>5. Byte(j) = At(r + j - 1)
        BY <1>2, <3>2 DEF Byte
      <4>. QED  BY <4>3, <4>4, <4>5
    <3>3. CASE ~(j <= u)
      BY <1>2, <1>8, <2>1, <3>3 DEF Byte
    <3>. QED  BY <3>2, <3>3
  <2>. QED  BY <1>1, <1>8, <2>1, <2>2, SameBytes
<1>12. PICK len \in Nat, l \in Nat, c \in Nat :
         len = Len(num) /\ l = Len(jobQ) /\ c = Len(packets)
  <2>1. Len(num) \in Nat
    BY <1>1
  <2>2. Len(jobQ) \in Nat
    BY JobTypes
  <2>3. Len(packets) \in Nat
    BY <1>7, StreamLengths
  <2>. QED  BY <2>1, <2>2, <2>3
<1>13. start[l + 1] + c = len /\ HoldsAll(old, packets, num, start[l + 1])
  BY <1>1, <1>6, <1>7, <1>12 DEF UnderWay
<1>14. PICK begin \in [Nat -> Nat] : /\ begin[l + 2] = len
                                     /\ \A k \in 1 .. l + 1 : begin[k] = start[k]
  <2> DEFINE new == [start EXCEPT ![l + 2] = len]
  <2>1. /\ new \in [Nat -> Nat] /\ new[l + 2] = len /\ \A k \in 1 .. l + 1 : new[k] = start[k]
    <3>1. start \in [Nat -> Nat]
      BY <1>1
    <3>2. l + 2 \in Nat /\ \A k \in 1 .. l + 1 : k \in Nat /\ k # l + 2
      OBVIOUS
    <3>. QED  BY <3>1, <3>2
  <2>. QED  BY <2>1
<1>15. /\ Len(jobQ') = l + 1 /\ \A k \in 1 .. l : jobQ'[k] = jobQ[k]
       /\ jobQ'[l + 1].buffer = old /\ jobQ'[l + 1].packets = packets
  <2>1. PICK job : job = [buffer |-> old, packets |-> packets]
    OBVIOUS
  <2>2. jobQ \in Seq(Job) /\ jobQ' = Append(jobQ, job)
    BY <1>8, <2>1 DEF OwnersInv
  <2>3. PICK S : jobQ \in Seq(S) /\ job \in S
    <3>1. jobQ \in Seq(Job \union {job})
      BY <2>2
    <3>. QED  BY <3>1
  <2>4. Len(jobQ') = l + 1 /\ (\A k \in 1 .. l : jobQ'[k] = jobQ[k]) /\ jobQ'[l + 1] = job
    BY <1>12, <2>2, <2>3
  <2>. QED  BY <2>1, <2>4
<1>16. Numbered(num)' /\ Read(num)'
  BY <1>1, <1>8 DEF Numbered, IsKept, Read, PayloadSent
<1>17. /\ start[1] = Len(delivered) /\ Len(delivered) <= len
       /\ \A k \in 1 .. l : /\ start[k + 1] = start[k] + Len(jobQ[k].packets)
                            /\ HoldsAll(jobQ[k].buffer, jobQ[k].packets, num, start[k])
  BY <1>1, <1>12 DEF Queued
<1>18. ASSUME NEW k \in 1 .. l + 1
       PROVE  /\ begin[k + 1] = begin[k] + Len(jobQ'[k].packets)
              /\ HoldsAll(jobQ[k].buffer, jobQ[k].packets, num, begin[k])'
  <2>1. PICK from : from = begin[k]
    OBVIOUS
  <2>2. PICK a, p : a = jobQ'[k].buffer /\ p = jobQ'[k].packets
    OBVIOUS
  <2>3. CASE k \in 1 .. l
    <3>1. /\ begin[k] = start[k] /\ begin[k + 1] = start[k + 1] /\ jobQ'[k] = jobQ[k]
      <4>1. k \in 1 .. l + 1 /\ k + 1 \in 1 .. l + 1
        BY <2>3
      <4>2. begin[k] = start[k] /\ begin[k + 1] = start[k + 1]
        BY <1>14, <4>1
      <4>. QED  BY <1>15, <2>3, <4>2
    <3>2. a = jobQ[k].buffer /\ a \in Owners
      BY <1>12, <2>2, <2>3, <3>1, JobTypes
    <3>3. memory'[a] = memory[a] /\ sizes' = sizes
      BY <1>8, <1>9, <1>10, <3>2
    <3>4. HoldsAll(a, p, num, from)
      BY <1>17, <2>1, <2>2, <2>3, <3>1
    <3>5. HoldsAll(a, p, num, from)'
      BY <3>3, <3>4, SameHolds
    <3>. QED  BY <1>17, <2>1, <2>2, <2>3, <3>1, <3>5
  <2>4. CASE k = l + 1
    <3>1. /\ begin[k] = start[l + 1] /\ begin[k + 1] = len /\ a = old /\ p = packets
      <4>1. k + 1 = l + 2 /\ l + 1 \in 1 .. l + 1
        BY <2>4
      <4>. QED  BY <1>14, <1>15, <2>2, <2>4, <4>1
    <3>2. memory'[a] = memory[a] /\ sizes' = sizes
      BY <1>8, <1>9, <1>10, <3>1
    <3>3. HoldsAll(a, p, num, from)
      BY <1>13, <2>1, <3>1
    <3>4. HoldsAll(a, p, num, from)'
      BY <3>2, <3>3, SameHolds
    <3>. QED  BY <1>12, <1>13, <2>1, <2>2, <3>1, <3>4
  <2>. QED  BY <2>3, <2>4
<1>19. Queued(num, begin)'
  <2>1. begin[1] = Len(delivered)
    <3>1. 1 \in 1 .. l + 1
      OBVIOUS
    <3>. QED  BY <1>14, <1>17, <3>1
  <2>2. begin[(l + 1) + 1] = len
    <3>1. (l + 1) + 1 = l + 2
      OBVIOUS
    <3>. QED  BY <1>14, <3>1
  <2>3. len <= len /\ Len(jobQ)' = l + 1 /\ delivered' = delivered
    BY <1>8, <1>15
  <2>. QED  BY <1>12, <1>17, <1>18, <2>1, <2>2, <2>3 DEF Queued
<1>20. UnderWay(num, begin, first)'
  <2>1. begin[(l + 1) + 1] = len /\ len + 0 = len
    <3>1. (l + 1) + 1 = l + 2
      OBVIOUS
    <3>. QED  BY <1>14, <3>1
  <2>2. Len(set)' = 0 /\ 1 .. Len(set)' = {} /\ Len(jobQ)' = l + 1
    BY <1>8, <1>15
  <2>3. \A a, from : HoldsAll(a, set, num, from)'
    BY <2>2 DEF HoldsAll
  <2>4. /\ Cardinality((1 .. first - 1) \ lost) = len /\ lost' = lost
        /\ \A j \in 1 .. len : num[j] < first
    BY <1>1, <1>8, <1>12 DEF UnderWay
  <2>5. PICK a, from : a = recvPacket' /\ from = begin[(l + 1) + 1]
    OBVIOUS
  <2>6. HoldsAll(a, set, num, from)'
    BY <2>3
  <2>. QED  BY <1>12, <2>1, <2>2, <2>4, <2>5, <2>6 DEF UnderWay
<1>. QED  BY <1>1, <1>11, <1>14, <1>16, <1>19, <1>20 DEF Stream

(* The logic reads the packets of the first queued set.                     *)
LEMMA PacketProcKeepsStream ==
  ASSUME SizesInv, OwnersInv, StreamTypes, PacketProc,
         NEW num, NEW start, NEW first, NEW off, Stream(num, start, first, off)
  PROVE  \E begin : Stream(num, begin, first, off)'
<1>1. /\ jobQ # <<>> /\ jobQ' = Tail(jobQ)
      /\ UNCHANGED <<pc, sizes, wire, recvPacket, readPos, writePos, set, lost>>
  BY DEF PacketProc, peer, buffer, link
<1>2. PICK l \in Nat : l = Len(jobQ)
  BY JobTypes
<1>3. /\ l > 0 /\ Head(jobQ) = jobQ[1] /\ Len(jobQ') = l - 1
      /\ \A k \in 1 .. l - 1 : jobQ'[k] = jobQ[k + 1]
  <2>1. PICK S : jobQ \in Seq(S)
    BY DEF OwnersInv
  <2>. QED  BY <1>1, <1>2, <2>1
<1>19. PICK c \in Nat : c = Len(jobQ[1].packets)
  <2>1. 1 \in 1 .. Len(jobQ)
    BY <1>2, <1>3
  <2>. QED  BY <2>1, JobTypes
<1>20. PICK freed, packets : freed = jobQ[1].buffer /\ packets = jobQ[1].packets
  OBVIOUS
<1>4. freed = jobQ[1].buffer /\ packets = jobQ[1].packets /\ c = Len(packets)
  BY <1>19, <1>20
<1>5. /\ memory' = [memory EXCEPT ![freed] = Unused]
      /\ delivered' = delivered \o [k \in 1 .. c |-> Payload(freed, packets[k])]
  BY <1>3, <1>4 DEF PacketProc
<1>6. \A b : b # freed => memory'[b] = memory[b]
  BY <1>5 DEF StreamTypes
<1>7. /\ num \in Seq(Nat) /\ start \in [Nat -> Nat] /\ first \in Nat /\ off \in [Nat -> Nat]
      /\ Numbered(num) /\ Read(num) /\ Queued(num, start)
      /\ (Receiving => Unread(first, off) /\ UnderWay(num, start, first))
  BY DEF Stream
<1>8. PICK len \in Nat, d \in Nat : len = Len(num) /\ d = start[1]
  <2>1. Len(num) \in Nat /\ start[1] \in Nat
    BY <1>7
  <2>. QED  BY <2>1
<1>9. /\ Len(delivered) = d /\ d <= len /\ start[l + 1] <= len
      /\ \A k \in 1 .. l : /\ start[k + 1] = start[k] + Len(jobQ[k].packets)
                           /\ HoldsAll(jobQ[k].buffer, jobQ[k].packets, num, start[k])
  BY <1>2, <1>7, <1>8 DEF Queued
<1>10. /\ start[2] = d + c
       /\ \A m \in 1 .. c : d + m <= len /\ Holds(freed, packets[m], num[d + m])
  <2>1. 1 \in 1 .. l /\ 1 + 1 = 2
    BY <1>3
  <2>2. start[1 + 1] = start[1] + Len(jobQ[1].packets) /\ HoldsAll(jobQ[1].buffer, jobQ[1].packets, num, start[1])
    BY <1>9, <2>1
  <2>. QED  BY <1>4, <1>8, <2>1, <2>2 DEF HoldsAll
<1>11. d + c <= len
  <2>1. CASE c = 0
    BY <1>9, <2>1
  <2>2. CASE c # 0
    <3>1. c \in 1 .. c
      BY <2>2
    <3>. QED  BY <1>10, <3>1
  <2>. QED  BY <2>1, <2>2
<1>12. /\ Len(delivered') = d + c
       /\ \A k \in 1 .. d : delivered'[k] = delivered[k]
       /\ \A m \in 1 .. c : delivered'[d + m] = Payload(freed, packets[m])
  <2>1. PICK more : more = [k \in 1 .. c |-> Payload(freed, packets[k])]
    OBVIOUS
  <2>2. PICK S : delivered \in Seq(S) /\ more \in Seq(S)
    <3>1. PICK T : delivered \in Seq(T)
      BY DEF StreamTypes
    <3>2. PICK R : R = {Payload(freed, packets[k]) : k \in 1 .. c}
      OBVIOUS
    <3>3. more \in [1 .. c -> T \union R]
      BY <2>1, <3>2
    <3>4. more \in Seq(T \union R)
      BY <3>3
    <3>5. delivered \in Seq(T \union R)
      BY <3>1
    <3>. QED  BY <3>4, <3>5
  <2>3. Len(more) = c /\ \A m \in 1 .. c : more[m] = Payload(freed, packets[m])
    BY <2>1
  <2>4. /\ Len(delivered \o more) = Len(delivered) + Len(more)
        /\ \A i \in 1 .. Len(delivered) : (delivered \o more)[i] = delivered[i]
        /\ \A i \in 1 .. Len(more) : (delivered \o more)[Len(delivered) + i] = more[i]
    BY <2>2, Joined
  <2>5. delivered' = delivered \o more
    BY <1>5, <2>1
  <2>. QED  BY <1>9, <2>3, <2>4, <2>5
<1>13. Read(num)'
  <2>1. ASSUME NEW m \in 1 .. c
        PROVE  Payload(freed, packets[m]) = PayloadSent(num[d + m])
    <3>1. Holds(freed, packets[m], num[d + m])
      BY <1>10
    <3>. QED  BY <3>1 DEF Holds, Payload, PayloadSent
  <2>2. ASSUME NEW k \in 1 .. d + c
        PROVE  delivered'[k] = PayloadSent(num[k])
    <3>1. CASE k \in 1 .. d
      BY <1>7, <1>9, <1>12, <3>1 DEF Read
    <3>2. CASE k \notin 1 .. d
      <4>1. k - d \in 1 .. c /\ d + (k - d) = k
        BY <3>2
      <4>. QED  BY <1>12, <2>1, <4>1
    <3>. QED  BY <3>1, <3>2
  <2>3. \A k : PayloadSent(num[k])' = PayloadSent(num[k])
    BY <1>1 DEF PayloadSent
  <2>. QED  BY <1>12, <2>2, <2>3 DEF Read
<1>14. Numbered(num)'
  BY <1>1, <1>7 DEF Numbered, IsKept
<1>15. PICK begin \in [Nat -> Nat] : \A k \in Nat : begin[k] = start[k + 1]
  <2> DEFINE new == [k \in Nat |-> start[k + 1]]
  <2>1. start \in [Nat -> Nat]
    BY <1>7
  <2>2. new \in [Nat -> Nat] /\ \A k \in Nat : new[k] = start[k + 1]
    BY <2>1
  <2>. QED  BY <2>2
<1>16. Queued(num, begin)'
  <2>1. begin[1] = d + c
    <3>1. 1 \in Nat /\ 1 + 1 = 2
      OBVIOUS
    <3>. QED  BY <1>10, <1>15, <3>1
  <2>2. begin[(l - 1) + 1] <= len
    <3>1. (l - 1) + 1 = l
      OBVIOUS
    <3>2. start[l + 1] <= len /\ begin[l] = start[l + 1]
      BY <1>9, <1>15
    <3>. QED  BY <3>1, <3>2
  <2>3. ASSUME NEW k \in 1 .. l - 1
        PROVE  /\ begin[k + 1] = begin[k] + Len(jobQ'[k].packets)
               /\ HoldsAll(jobQ[k].buffer, jobQ[k].packets, num, begin[k])'
    <3>1. k + 1 \in 1 .. l /\ k \in Nat /\ k + 1 \in Nat /\ k + 1 # 1
      OBVIOUS
    <3>2. begin[k] = start[k + 1] /\ begin[k + 1] = start[(k + 1) + 1]
      BY <1>15, <3>1
    <3>3. PICK b, p, from : b = jobQ'[k].buffer /\ p = jobQ'[k].packets /\ from = begin[k]
      OBVIOUS
    <3>4. jobQ'[k] = jobQ[k + 1]
      BY <1>3
    <3>5. b = jobQ[k + 1].buffer /\ b # freed
      <4>1. \A i, j \in DOMAIN jobQ : jobQ[i].buffer = jobQ[j].buffer => i = j
        BY DEF OwnersInv, BufferHasOneOwner
      <4>2. k + 1 \in DOMAIN jobQ /\ 1 \in DOMAIN jobQ
        <5>1. PICK S : jobQ \in Seq(S)
          BY DEF OwnersInv
        <5>2. DOMAIN jobQ = 1 .. l
          BY <1>2, <5>1
        <5>. QED  BY <1>3, <3>1, <5>2
      <4>. QED  BY <1>4, <3>1, <3>3, <3>4, <4>1, <4>2
    <3>6. memory'[b] = memory[b] /\ sizes' = sizes
      BY <1>1, <1>6, <3>5
    <3>7. HoldsAll(b, p, num, from) /\ begin[k + 1] = begin[k] + Len(p)
      BY <1>9, <3>1, <3>2, <3>3, <3>4
    <3>8. HoldsAll(b, p, num, from)'
      BY <3>6, <3>7, SameHolds
    <3>. QED  BY <3>3, <3>7, <3>8
  <2>. QED  BY <1>3, <1>8, <1>11, <1>12, <2>1, <2>2, <2>3 DEF Queued
<1>17. CASE ~Receiving
  <2>1. ~Receiving'
    BY <1>1, <1>17 DEF Receiving
  <2>. QED  BY <1>7, <1>13, <1>14, <1>15, <1>16, <2>1 DEF Stream
<1>18. CASE Receiving
  <2>1. freed \in Owners /\ recvPacket # freed
    <3>1. 1 \in 1 .. Len(jobQ)
      BY <1>2, <1>3
    <3>2. freed \in Owners
      BY <1>4, <3>1, JobTypes
    <3>. QED  BY <3>2 DEF OwnersInv, BufferHasOneOwner
  <2>2. memory'[recvPacket] = memory[recvPacket]
    BY <1>6, <2>1
  <2>3. Unread(first, off)'
    <3>1. Total' = Total /\ \A j : Byte(j)' = Byte(j)
      BY <1>1, <2>2 DEF Total, Byte, Used, At
    <3>. QED  BY <1>1, <1>7, <1>18, <3>1, SameBytes
  <2>4. UnderWay(num, begin, first)'
    <3>1. UnderWay(num, start, first)
      BY <1>7, <1>18
    <3>2. begin[(l - 1) + 1] = start[l + 1]
      <4>1. (l - 1) + 1 = l
        OBVIOUS
      <4>. QED  BY <1>15, <4>1
    <3>3. PICK b, p, from : b = recvPacket /\ p = set /\ from = start[l + 1]
      OBVIOUS
    <3>4. HoldsAll(b, p, num, from)
      BY <1>2, <3>1, <3>3 DEF UnderWay
    <3>5. HoldsAll(b, p, num, from)'
      BY <1>1, <2>2, <3>3, <3>4, SameHolds
    <3>. QED  BY <1>1, <1>2, <1>3, <3>1, <3>2, <3>3, <3>5 DEF UnderWay
  <2>. QED  BY <1>7, <1>13, <1>14, <1>15, <1>16, <2>3, <2>4 DEF Stream
<1>. QED  BY <1>17, <1>18

(* When nothing is in the buffer, a broken connection swallows the packets  *)
(* that were not received, and them whole.                                  *)
LEMMA WireIsWhole ==
  ASSUME SizesInv, StreamTypes, NEW first \in Nat, NEW off \in [Nat -> Nat], Unread(first, off),
         Used = 0
  PROVE  {wire[i].packet : i \in DOMAIN wire} = first .. Len(sizes)
<1>1. PICK n \in Nat, total \in Nat : n = Len(sizes) /\ total = Total
  BY StreamLengths
<1>2. total = Len(wire) /\ DOMAIN wire = 1 .. total
  <2>1. Len(wire) \in Nat /\ Total = 0 + Len(wire)
    BY StreamLengths
  <2>2. DOMAIN wire = 1 .. Len(wire)
    BY DEF StreamTypes
  <2>. QED  BY <1>1, <2>1, <2>2
<1>3. \A j \in 1 .. total : Byte(j) = wire[j]
  <2>1. ASSUME NEW j \in 1 .. total
        PROVE  ~(j <= 0) /\ j - 0 = j
    OBVIOUS
  <2>. QED  BY <2>1 DEF Byte
<1>4. first \in 1 .. n + 1
  BY <1>1 DEF Unread
<1>5. \A k \in first .. n :
        /\ off[k + 1] = off[k] + HEADER_SIZE + sizes[k]
        /\ \A i \in 1 .. HEADER_SIZE + sizes[k] :
             Byte(off[k] - off[first] + i) = [packet |-> k, place |-> i]
  BY <1>1 DEF Unread
<1>6. \A j \in 1 .. total : \E k \in first .. n :
        off[k] < off[first] + j /\ off[first] + j <= off[k + 1]
  BY <1>1 DEF Unread
<1>7. ASSUME NEW k \in first .. n
      PROVE  /\ HEADER_SIZE \in Nat \ {0} /\ sizes[k] \in Nat
             /\ off[k] \in Nat /\ off[k + 1] \in Nat /\ off[first] \in Nat
  <2>1. k \in Nat /\ k + 1 \in Nat /\ k \in 1 .. Len(sizes)
    BY <1>1, <1>4
  <2>2. HEADER_SIZE \in Nat \ {0}
    BY SizesAssumption
  <2>3. sizes[k] \in Nat
    BY <2>1, StreamLengths
  <2>. QED  BY <2>1, <2>2, <2>3
<1>8. ASSUME NEW j \in 1 .. total
      PROVE  wire[j].packet \in first .. n
  <2>1. PICK k \in first .. n : off[k] < off[first] + j /\ off[first] + j <= off[k + 1]
    BY <1>6
  <2>2. PICK h \in Nat, s \in Nat, a \in Nat, b \in Nat, f \in Nat :
          h = HEADER_SIZE /\ s = sizes[k] /\ a = off[k] /\ b = off[k + 1] /\ f = off[first]
    <3>1. PICK h \in Nat, s \in Nat : h = HEADER_SIZE /\ s = sizes[k]
      BY <1>7
    <3>2. PICK a \in Nat, b \in Nat, f \in Nat : a = off[k] /\ b = off[k + 1] /\ f = off[first]
      BY <1>7
    <3>. QED  BY <3>1, <3>2
  <2>3. b = a + h + s /\ a < f + j /\ f + j <= b
    BY <1>5, <2>1, <2>2
  <2>4. PICK i \in Int : i = f + j - a
    OBVIOUS
  <2>5. i \in 1 .. h + s /\ a - f + i = j
    BY <2>3, <2>4
  <2>6. Byte(off[k] - off[first] + i) = [packet |-> k, place |-> i]
    BY <1>5, <2>2, <2>5
  <2>7. wire[j] = [packet |-> k, place |-> i]
    BY <1>3, <2>2, <2>5, <2>6
  <2>. QED  BY <2>7
<1>9. ASSUME NEW k \in first .. n
      PROVE  \E j \in 1 .. total : wire[j].packet = k
  <2>1. 1 \in 1 .. HEADER_SIZE + sizes[k]
    <3>1. PICK h \in Nat \ {0}, s \in Nat : h = HEADER_SIZE /\ s = sizes[k]
      BY <1>7
    <3>2. 1 \in 1 .. h + s
      OBVIOUS
    <3>. QED  BY <3>1, <3>2
  <2>2. PICK j : j = off[k] - off[first] + 1
    OBVIOUS
  <2>3. j \in 1 .. total
    <3>1. k \in first .. Len(sizes)
      BY <1>1
    <3>2. off[k] - off[first] + 1 \in 1 .. Total
      BY <2>1, <3>1, PacketIsInside
    <3>. QED  BY <1>1, <2>2, <3>2
  <2>4. Byte(j) = [packet |-> k, place |-> 1]
    BY <1>5, <2>1, <2>2
  <2>5. wire[j] = [packet |-> k, place |-> 1]
    BY <1>3, <2>3, <2>4
  <2>. QED  BY <2>3, <2>5
<1>. QED  BY <1>1, <1>2, <1>8, <1>9

LEMMA ReconnectKeepsStream ==
  ASSUME SizesInv, OwnersInv, StreamTypes, Reconnect, Used = 0,
         NEW num, NEW start, NEW first, NEW off, Stream(num, start, first, off)
  PROVE  \E next : Stream(num, start, next, off)'
<1>1. /\ pc = "recv" /\ Receiving /\ wire' = <<>>
      /\ lost' = lost \union {wire[i].packet : i \in DOMAIN wire}
      /\ UNCHANGED <<pc, sizes, memory, recvPacket, readPos, writePos, set, jobQ, delivered>>
  BY DEF Reconnect, buffer, logic, Receiving
<1>2. /\ num \in Seq(Nat) /\ start \in [Nat -> Nat] /\ first \in Nat /\ off \in [Nat -> Nat]
      /\ Numbered(num) /\ Read(num) /\ Queued(num, start)
      /\ Unread(first, off) /\ UnderWay(num, start, first)
  BY <1>1 DEF Stream
<1>3. PICK n \in Nat : n = Len(sizes)
  BY StreamLengths
<1>4. first \in 1 .. n + 1 /\ \A p \in lost : p \in 1 .. first - 1
  BY <1>2, <1>3 DEF Unread
<1>5. lost' = lost \union (first .. n)
  <2>1. {wire[i].packet : i \in DOMAIN wire} = first .. Len(sizes)
    BY <1>2, WireIsWhole
  <2>. QED  BY <1>1, <1>3, <2>1
<1>6. (1 .. n) \ lost' = (1 .. first - 1) \ lost
  BY <1>4, <1>5
<1>7. ASSUME NEW p \in 1 .. n, p < first, NEW j, IsKept(p, j)
      PROVE  IsKept(p, j)'
  <2>1. p \notin lost' /\ (1 .. p) \ lost' = (1 .. p) \ lost
    BY <1>4, <1>5, <1>7 DEF IsKept
  <2>2. Cardinality((1 .. p) \ lost) = j
    BY <1>7 DEF IsKept
  <2>. QED  BY <1>1, <1>3, <2>1, <2>2 DEF IsKept
<1>8. Numbered(num)'
  <2>1. \A j \in 1 .. Len(num) : num[j] < first
    BY <1>2 DEF UnderWay
  <2>2. \A j \in 1 .. Len(num) : num[j] \in 1 .. n /\ IsKept(num[j], j)
    BY <1>2, <1>3 DEF Numbered
  <2>. QED  BY <1>1, <1>3, <1>7, <2>1, <2>2 DEF Numbered
<1>9. Read(num)'
  BY <1>1, <1>2 DEF Read, PayloadSent
<1>10. Queued(num, start)'
  BY <1>1, <1>2 DEF Queued, HoldsAll, Holds
<1>11. Unread(n + 1, off)'
  <2>1. Total' = 0
    <3>1. Len(wire') = 0 /\ Used' = 0
      <4>1. Len(wire') = 0
        BY <1>1
      <4>2. writePos' = writePos /\ readPos' = readPos
        BY <1>1
      <4>3. Used' = Used
        BY <4>2 DEF Used
      <4>. QED  BY <4>1, <4>3
    <3>. QED  BY <3>1 DEF Total
  <2>2. n + 1 \in 1 .. n + 1 /\ off[n + 1] \in Nat /\ off[n + 1] + 0 = off[n + 1]
    <3>3. n + 1 \in Nat
      OBVIOUS
    <3>4. off \in [Nat -> Nat]
      BY <1>2
    <3>1. n + 1 \in Nat /\ off \in [Nat -> Nat]
      BY <3>3, <3>4
    <3>2. off[n + 1] \in Nat
      BY <3>1
    <3>. QED  BY <3>2
  <2>3. /\ n + 1 .. n = {} /\ 1 .. 0 = {} /\ (n + 1) - 1 = n
        /\ \A k \in n + 1 .. n + 1 : k = n + 1
    OBVIOUS
  <2>4. \A k, l \in n + 1 .. n + 1 : k <= l => off[k] <= off[l]
    BY <2>2, <2>3
  <2>5. \A p \in lost' : p \in 1 .. n
    BY <1>4, <1>5
  <2>6. Len(sizes)' = n
    BY <1>1, <1>3
  <2>. QED  BY <2>1, <2>2, <2>3, <2>4, <2>5, <2>6 DEF Unread
<1>12. UnderWay(num, start, n + 1)'
  <2>1. /\ start[Len(jobQ) + 1] + Len(set) = Len(num)
        /\ Cardinality((1 .. first - 1) \ lost) = Len(num)
        /\ \A j \in 1 .. Len(num) : num[j] < first
    BY <1>2 DEF UnderWay
  <2>2. HoldsAll(recvPacket, set, num, start[Len(jobQ) + 1])'
    BY <1>1, <1>2 DEF UnderWay, HoldsAll, Holds
  <2>3. Cardinality((1 .. (n + 1) - 1) \ lost') = Len(num)
    <3>1. (n + 1) - 1 = n
      OBVIOUS
    <3>. QED  BY <1>6, <2>1, <3>1
  <2>4. ASSUME NEW j \in 1 .. Len(num)
        PROVE  num[j] < n + 1
    <3>1. num[j] \in 1 .. n
      BY <1>2, <1>3 DEF Numbered
    <3>. QED  BY <3>1
  <2>. QED  BY <1>1, <2>1, <2>2, <2>3, <2>4 DEF UnderWay
<1>13. n + 1 \in Nat
  OBVIOUS
<1>. QED  BY <1>2, <1>8, <1>9, <1>10, <1>11, <1>12, <1>13 DEF Stream

LEMMA AsSequence ==
  ASSUME NEW S, NEW n \in Nat, NEW f \in [1 .. n -> S]
  PROVE  f \in Seq(S)
OBVIOUS

LEMMA TypesKept ==
  ASSUME SizesInv, OwnersInv, StreamTypes, [Next]_vars
  PROVE  StreamTypes'
<1> USE DEF StreamTypes
<1>1. ASSUME NEW size \in 0 .. MSG_MAX_LEN + 1, Send(size) PROVE StreamTypes'
  <2>1. PICK h \in Nat, n \in Nat, s \in Nat : h = HEADER_SIZE /\ n = Len(sizes) /\ s = size
    <3>1. HEADER_SIZE \in Nat /\ size \in Nat
      BY SizesAssumption
    <3>2. Len(sizes) \in Nat
      BY StreamLengths
    <3>. QED  BY <3>1, <3>2
  <2>2. PICK more : more = [i \in 1 .. h + s |-> [packet |-> n + 1, place |-> i]]
    OBVIOUS
  <2>3. more \in Seq([packet : Nat, place : Nat])
    <3>1. h + s \in Nat /\ more \in [1 .. h + s -> [packet : Nat, place : Nat]]
      BY <2>2
    <3>. QED  BY <3>1, AsSequence
  <2>4. /\ wire' = wire \o more /\ sizes' = Append(sizes, s)
        /\ UNCHANGED <<memory, delivered>>
    BY <1>1, <2>1, <2>2 DEF Send, logic
  <2>. QED  BY <2>3, <2>4, Joined
<1>2. ASSUME NEW n \in 1 .. MASK, Receive(n) PROVE StreamTypes'
  <2>1. DOMAIN memory' = Buffers /\ sizes' = sizes /\ delivered' = delivered
    BY <1>2 DEF Receive, logic
  <2>2. wire' \in Seq([packet : Nat, place : Nat])
    <3>1. PICK S : S = [packet : Nat, place : Nat]
      OBVIOUS
    <3>2. wire \in Seq(S) /\ wire' = SubSeq(wire, n + 1, Len(wire)) /\ n + 1 \in Nat
      BY <1>2, <3>1 DEF Receive
    <3>3. wire' \in Seq(S)
      BY <3>2
    <3>. QED  BY <3>1, <3>3
  <2>. QED  BY <2>1, <2>2
<1>3. CASE KeepBuffer
  BY <1>3 DEF KeepBuffer, peer, logic
<1>4. CASE CopyRemainder
  BY <1>4 DEF CopyRemainder, peer
<1>5. ASSUME NEW size \in 0 .. MSG_MAX_LEN + 1, RegisterPacket(size) PROVE StreamTypes'
  BY <1>5 DEF RegisterPacket, peer, logic
<1>6. ASSUME NEW size \in 0 .. MSG_MAX_LEN + 1, RegisterError(size) PROVE StreamTypes'
  BY <1>6 DEF RegisterError, peer, logic
<1>7. CASE PacketProc
  <2>1. /\ sizes' = sizes /\ wire' = wire /\ DOMAIN memory' = Buffers
    BY <1>7 DEF PacketProc, peer
  <2>2. PICK c \in Nat : c = Len(Head(jobQ).packets)
    <3>1. PICK S : jobQ \in Seq(S) /\ jobQ # <<>>
      BY <1>7 DEF OwnersInv, PacketProc
    <3>2. 1 \in 1 .. Len(jobQ) /\ Head(jobQ) = jobQ[1]
      BY <3>1
    <3>. QED  BY <3>2, JobTypes
  <2>3. PICK more : more = [k \in 1 .. c |-> Payload(Head(jobQ).buffer, Head(jobQ).packets[k])]
    OBVIOUS
  <2>4. delivered' = delivered \o more
    BY <1>7, <2>2, <2>3 DEF PacketProc
  <2>5. PICK T : delivered \in Seq(T)
    OBVIOUS
  <2>6. PICK R : R = {Payload(Head(jobQ).buffer, Head(jobQ).packets[k]) : k \in 1 .. c}
    OBVIOUS
  <2>7. more \in [1 .. c -> T \union R]
    BY <2>3, <2>6
  <2>8. more \in Seq(T \union R) /\ delivered \in Seq(T \union R)
    BY <2>5, <2>7
  <2>9. delivered' \in Seq(T \union R)
    BY <2>4, <2>8, Joined
  <2>. QED  BY <2>1, <2>9
<1>8. CASE Disconnected
  BY <1>8 DEF Disconnected, peer, logic
<1>9. CASE ClientStops
  BY <1>9 DEF ClientStops, peer, logic
<1>10. CASE Reconnect
  BY <1>10 DEF Reconnect, logic
<1>11. CASE UNCHANGED vars
  BY <1>11 DEF vars, peer, logic
<1>. QED
  BY <1>1, <1>2, <1>3, <1>4, <1>5, <1>6, <1>7, <1>8, <1>9, <1>10, <1>11
  DEF Next, Register

(* The packets that are registered, for some way to number and place them.  *)
Streams == \E num, start, first, off : Stream(num, start, first, off)

FullOK == "PacketSetFull" \in errors => Len(sizes) > SET_MAX \/ cut

LEMMA StreamKept ==
  ASSUME SizesInv, OwnersInv, StreamTypes, [Next]_vars, Streams, ~cut'
  PROVE  Streams'
<1>1. PICK num, start, first, off : Stream(num, start, first, off)
  BY DEF Streams
<1>2. ASSUME NEW n, NEW s, NEW f, NEW o, Stream(n, s, f, o)' PROVE Streams'
  BY <1>2 DEF Streams
<1>3. ASSUME NEW size \in 0 .. MSG_MAX_LEN + 1, Send(size) PROVE Streams'
  BY <1>1, <1>2, <1>3, SendKeepsStream
<1>4. ASSUME NEW n \in 1 .. MASK, Receive(n) PROVE Streams'
  BY <1>1, <1>2, <1>4, ReceiveKeepsStream
<1>5. CASE KeepBuffer
  BY <1>1, <1>2, <1>5, KeepBufferKeepsStream
<1>6. CASE CopyRemainder
  BY <1>1, <1>2, <1>6, CopyRemainderKeepsStream
<1>7. ASSUME NEW size \in 0 .. MSG_MAX_LEN + 1, RegisterPacket(size) PROVE Streams'
  <2>1. CASE Len(set) < SET_MAX
    BY <1>1, <1>2, <1>7, <2>1, RegisterPacketKeepsStream
  <2>2. CASE ~(Len(set) < SET_MAX)
    <3>1. pc' = "stopped" /\ UNCHANGED <<sizes, lost, delivered, jobQ, memory>>
      BY <1>7, <2>2 DEF RegisterPacket, Quit, peer, logic, link
    <3>. QED  BY <1>1, <1>2, <3>1, StopKeepsStream
  <2>. QED  BY <2>1, <2>2
<1>8. ASSUME NEW size \in 0 .. MSG_MAX_LEN + 1, RegisterError(size) PROVE Streams'
  <2>1. pc' = "error" /\ UNCHANGED <<sizes, lost, delivered, jobQ, memory>>
    BY <1>8 DEF RegisterError, peer, logic, link
  <2>. QED  BY <1>1, <1>2, <2>1, StopKeepsStream
<1>9. CASE PacketProc
  BY <1>1, <1>2, <1>9, PacketProcKeepsStream
<1>10. CASE Disconnected
  <2>1. pc' = "stopped" /\ UNCHANGED <<sizes, lost, delivered, jobQ, memory>>
    BY <1>10 DEF Disconnected, peer, logic, link
  <2>. QED  BY <1>1, <1>2, <2>1, StopKeepsStream
<1>11. CASE ClientStops
  <2>1. pc' = "stopped" /\ UNCHANGED <<sizes, lost, delivered, jobQ, memory>>
    BY <1>11 DEF ClientStops, peer, logic, link
  <2>. QED  BY <1>1, <1>2, <2>1, StopKeepsStream
<1>12. CASE Reconnect
  <2>1. Used = 0
    <3>1. ~(Used > 0)
      BY <1>12 DEF Reconnect
    <3>2. Used \in Nat
      BY StreamLengths
    <3>. QED  BY <3>1, <3>2
  <2>. QED  BY <1>1, <1>2, <1>12, <2>1, ReconnectKeepsStream
<1>13. CASE UNCHANGED vars
  <2>1. UNCHANGED <<pc, sizes, wire, memory, recvPacket, readPos, writePos, set,
                    jobQ, delivered, lost>>
    BY <1>13 DEF vars, peer, buffer, logic
  <2>2. Stream(num, start, first, off)'
    BY <1>1, <2>1 DEF Stream, Numbered, IsKept, Read, PayloadSent, Queued, HoldsAll, Holds,
                      Unread, UnderWay, Receiving, Total, Byte, Used, At
  <2>. QED  BY <1>2, <2>2
<1>. QED
  BY <1>3, <1>4, <1>5, <1>6, <1>7, <1>8, <1>9, <1>10, <1>11, <1>12, <1>13
  DEF Next, Register

(* Only one step fills a packet set, and it has seen as many packets.       *)
LEMMA FullKept ==
  ASSUME SizesInv, OwnersInv, StreamTypes, [Next]_vars, ~cut => Streams, FullOK
  PROVE  FullOK'
<1>1. ASSUME UNCHANGED <<sizes, cut>>, "PacketSetFull" \in errors' => "PacketSetFull" \in errors
      PROVE  FullOK'
  BY <1>1 DEF FullOK
<1>2. ASSUME NEW size \in 0 .. MSG_MAX_LEN + 1, Send(size) PROVE FullOK'
  <2>1. /\ sizes' = Append(sizes, size) /\ errors' = errors /\ cut' = cut
        /\ sizes \in Seq(Nat) /\ size \in Nat
    BY <1>2 DEF Send, link, StreamTypes
  <2>2. Len(sizes') = Len(sizes) + 1 /\ Len(sizes) \in Nat
    BY <2>1
  <2>3. SET_MAX \in Nat
    BY SizesAssumption
  <2>. QED  BY <2>1, <2>2, <2>3 DEF FullOK
<1>3. ASSUME NEW n \in 1 .. MASK, Receive(n) PROVE FullOK'
  BY <1>1, <1>3 DEF Receive, link, Quit
<1>4. CASE KeepBuffer
  BY <1>1, <1>4 DEF KeepBuffer, peer, link
<1>5. CASE CopyRemainder
  BY <1>1, <1>5 DEF CopyRemainder, peer, link, Quit
<1>6. ASSUME NEW size \in 0 .. MSG_MAX_LEN + 1, RegisterPacket(size) PROVE FullOK'
  <2>1. UNCHANGED <<sizes, cut>>
    BY <1>6 DEF RegisterPacket, peer, link
  <2>2. CASE Len(set) < SET_MAX
    BY <1>1, <1>6, <2>1, <2>2 DEF RegisterPacket
  <2>3. CASE ~(Len(set) < SET_MAX) /\ ~cut
    <3>1. PICK num, start, first, off : Stream(num, start, first, off)
      BY <2>3 DEF Streams
    <3>2. Len(sizes) > SET_MAX
      BY <1>6, <2>3, <3>1, SetIsFull
    <3>. QED  BY <2>1, <3>2 DEF FullOK
  <2>4. CASE cut
    BY <2>1, <2>4 DEF FullOK
  <2>. QED  BY <2>2, <2>3, <2>4
<1>7. ASSUME NEW size \in 0 .. MSG_MAX_LEN + 1, RegisterError(size) PROVE FullOK'
  BY <1>1, <1>7 DEF RegisterError, peer, link
<1>8. CASE PacketProc
  BY <1>1, <1>8 DEF PacketProc, peer, link
<1>9. CASE Disconnected
  BY <1>1, <1>9 DEF Disconnected, peer, link
<1>10. CASE ClientStops
  BY <1>1, <1>10 DEF ClientStops, peer, link
<1>11. CASE Reconnect
  BY <1>11 DEF Reconnect, FullOK
<1>12. CASE UNCHANGED vars
  BY <1>1, <1>12 DEF vars, peer
<1>. QED
  BY <1>2, <1>3, <1>4, <1>5, <1>6, <1>7, <1>8, <1>9, <1>10, <1>11, <1>12
  DEF Next, Register

LEMMA StreamStarts ==
  ASSUME Init
  PROVE  StreamInv
<1>1. /\ sizes = <<>> /\ wire = <<>> /\ jobQ = <<>> /\ set = <<>> /\ delivered = <<>>
      /\ lost = {} /\ errors = {} /\ readPos = CENTER /\ writePos = CENTER
      /\ DOMAIN memory = Buffers
  BY DEF Init
<1>2. StreamTypes
  <2>1. <<>> \in Seq({}) /\ sizes \in Seq(Nat) /\ wire \in Seq([packet : Nat, place : Nat])
    BY <1>1
  <2>. QED  BY <1>1, <2>1 DEF StreamTypes
<1>3. PICK zero \in [Nat -> Nat] : \A k \in Nat : zero[k] = 0
  <2>1. [k \in Nat |-> 0] \in [Nat -> Nat]
    OBVIOUS
  <2>. QED  BY <2>1
<1>4. PICK none \in Seq(Nat) : none = <<>>
  <2>1. <<>> \in Seq(Nat)
    OBVIOUS
  <2>. QED  BY <2>1
<1>5. /\ Len(none) = 0 /\ Len(sizes) = 0 /\ Len(set) = 0 /\ Len(jobQ) = 0
      /\ Len(delivered) = 0 /\ Len(wire) = 0 /\ 1 .. 0 = {}
  BY <1>1, <1>4
<1>6. Total = 0
  <2>1. Used = 0
    BY <1>1, SizesAssumption DEF Used
  <2>. QED  BY <1>5, <2>1 DEF Total
<1>7. Numbered(none) /\ Read(none) /\ Queued(none, zero)
  BY <1>3, <1>5 DEF Numbered, Read, Queued
<1>8. Unread(1, zero)
  <2>1. /\ 1 \in 1 .. 0 + 1 /\ 0 + 1 = 1 /\ zero[1] = 0 /\ 0 + 0 = 0
        /\ \A k \in 1 .. 1 : k = 1
    BY <1>3
  <2>. QED  BY <1>1, <1>5, <1>6, <2>1 DEF Unread
<1>9. UnderWay(none, zero, 1)
  <2>1. /\ zero[0 + 1] + 0 = 0 /\ 1 - 1 = 0 /\ Cardinality({}) = 0
        /\ {} \ lost = {}
    <3>1. zero[0 + 1] = 0
      BY <1>3
    <3>. QED  BY <3>1, FS_EmptySet
  <2>2. HoldsAll(recvPacket, set, none, zero[Len(jobQ) + 1])
    BY <1>5 DEF HoldsAll
  <2>. QED  BY <1>5, <2>1, <2>2 DEF UnderWay
<1>10. Stream(none, zero, 1, zero)
  BY <1>3, <1>4, <1>7, <1>8, <1>9 DEF Stream
<1>. QED  BY <1>1, <1>2, <1>10 DEF StreamInv

LEMMA StreamInvariant == Spec => [](SizesInv /\ OwnersInv /\ StreamInv)
<1>1. SizesInv /\ OwnersInv /\ StreamInv /\ [Next]_vars => StreamInv'
  <2> SUFFICES ASSUME SizesInv, OwnersInv, StreamInv, [Next]_vars PROVE StreamInv'
    OBVIOUS
  <2>1. StreamTypes /\ (~cut => Streams) /\ FullOK
    BY DEF StreamInv, Streams, FullOK
  <2>2. StreamTypes'
    BY <2>1, TypesKept
  <2>3. ~cut' => ~cut
    BY DEF Next, Send, Receive, Register, KeepBuffer, CopyRemainder, RegisterPacket,
           RegisterError, PacketProc, Disconnected, ClientStops, Reconnect, link, vars
  <2>4. ~cut' => Streams'
    BY <2>1, <2>3, StreamKept
  <2>5. FullOK'
    BY <2>1, FullKept
  <2>. QED  BY <2>2, <2>4, <2>5 DEF StreamInv, Streams, FullOK
<1>2. Init => StreamInv
  BY StreamStarts
<1>. QED  BY <1>1, <1>2, SizesInvariant, OwnersInvariant, PTL DEF Spec

(* A session never meets a full buffer, and a packet set is only full when  *)
(* the peer sent as many packets or a connection broke inside one, for      *)
(* buffers, packets and sets of every size.                                 *)
THEOREM QuitsAreKnown == Spec => []OnlyKnownQuits
<1>1. SizesInv /\ OwnersInv /\ StreamInv => OnlyKnownQuits
  BY DEF SizesInv, ErrorsOK, StreamInv, OnlyKnownQuits
<1>. QED  BY <1>1, StreamInvariant, PTL

(* Whatever the sizes of the packets are and however the stream is cut into *)
(* receives, the logic reads what the peer sent, packet by packet, as long  *)
(* as no connection broke inside a packet.                                  *)
THEOREM StreamIsWhole == Spec => []StreamIsKept
<1>1. ASSUME StreamInv PROVE StreamIsKept
  <2> SUFFICES ASSUME ~cut, NEW k \in DOMAIN delivered
               PROVE  \E p \in 1 .. Len(sizes) : IsKept(p, k) /\ delivered[k] = PayloadSent(p)
    BY DEF StreamIsKept
  <2>1. PICK num, start, first, off : Stream(num, start, first, off)
    BY <1>1 DEF StreamInv
  <2>2. k \in 1 .. Len(delivered) /\ k \in 1 .. Len(num)
    <3>1. PICK S : delivered \in Seq(S)
      BY <1>1 DEF StreamInv, StreamTypes
    <3>2. PICK d \in Nat, n \in Nat : d = Len(delivered) /\ n = Len(num)
      <4>1. Len(num) \in Nat
        BY <2>1 DEF Stream
      <4>. QED  BY <3>1, <4>1
    <3>3. d <= n
      BY <2>1, <3>2 DEF Stream, Queued
    <3>4. k \in 1 .. d
      BY <3>1, <3>2
    <3>. QED  BY <3>2, <3>3, <3>4
  <2>3. num[k] \in 1 .. Len(sizes) /\ IsKept(num[k], k)
    BY <2>1, <2>2 DEF Stream, Numbered
  <2>4. delivered[k] = PayloadSent(num[k])
    BY <2>1, <2>2 DEF Stream, Read
  <2>. QED  BY <2>3, <2>4
<1>. QED  BY <1>1, StreamInvariant, PTL

===============================================================================
