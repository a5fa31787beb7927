------------------------------- MODULE Broadcast -------------------------------
(***************************************************************************)
(* One packet for many sessions (NetRoot::AsyncSendPacket and              *)
(* DisconnectAfterLastMessage with a NetSessionIDSet, and AsyncSendPacket  *)
(* with one ID).  The thread that made the packet counts a reference for   *)
(* every addressee, cuts the set into chunks and posts them into the       *)
(* completion port; workers take the chunks and link the packet into the   *)
(* send queue of one addressee after the other.  Nobody owns the packet:   *)
(* it goes back to its pool with its last reference, from where the next   *)
(* message takes it.                                                       *)
(*                                                                         *)
(* How a session drains its queue step by step is SendPath's business;     *)
(* here SendPost is one step.                                              *)
(***************************************************************************)
EXTENDS Integers, Sequences, FiniteSets

CONSTANTS
  Sessions,          (* session IDs                                          *)
  Gone,              (* those of sessions that are no more                   *)
  Packets,           (* the packets of the pool                              *)
  Messages,          (* bound: what is sent, each in one packet              *)
  IDSets,            (* the sets an application may fill, as sequences       *)
  Workers,
  waitingThreadNum_, (* worker threads of the server, as given to Start      *)
  eNET_PACKET_SEND_Q_MAX_SIZE,
  MaxCalls,          (* bound: calls of the application                      *)
  NULL

ASSUME BroadcastAssumption ==
  /\ Gone \subseteq Sessions /\ NULL \notin Sessions \union Packets \union Messages
  /\ IsFiniteSet(Sessions) /\ IsFiniteSet(Workers)
  /\ IDSets \subseteq Seq(Sessions)
  /\ waitingThreadNum_ \in Nat \ {0}

VARIABLES
  refCnt,       (* per packet: refCnt_; the packet is in the pool at 0       *)
  message,      (* per packet: what was written into it last                 *)
  owned,        (* packets whose maker still has its own reference           *)
  work,         (* per packet: a set that its maker is distributing          *)
  port,         (* the completion port: chunks and send signs                *)
  worker,       (* per worker: the post it handles, and where it is          *)
  connection,   (* per session: online, canceled (isIOCanceled_) or dead     *)
  sendQ, sentQ, (* per session: packets to send, and given to WSASend        *)
  isSending,    (* per session: isSending_                                   *)
  io,           (* per session: its WSASend is none or pending               *)
  fresh,        (* messages nobody has written yet                           *)
  calls,        (* calls of the application so far                           *)
  owed          (* history: per message and session, copies asked for and    *)
                (* neither linked nor refused                                *)

packets == <<refCnt, message, owned>>
session == <<connection, sendQ, sentQ, isSending, io>>
vars    == <<packets, work, port, worker, session, fresh, calls, owed>>

NoWork == [kind |-> "none", ids |-> <<>>, num |-> 0]
Idle   == [kind |-> "none", packet |-> NULL, ids |-> <<>>, at |-> NULL, pc |-> "idle"]

Init ==
  /\ refCnt = [p \in Packets |-> 0] /\ message = [p \in Packets |-> NULL]
  /\ owned = {}
  /\ work = [p \in Packets |-> NoWork]
  /\ port = <<>> /\ worker = [w \in Workers |-> Idle]
  /\ connection = [s \in Sessions |-> IF s \in Gone THEN "dead" ELSE "online"]
  /\ sendQ = [s \in Sessions |-> <<>>] /\ sentQ = [s \in Sessions |-> <<>>]
  /\ isSending = [s \in Sessions |-> FALSE] /\ io = [s \in Sessions |-> "none"]
  /\ fresh = Messages /\ calls = 0
  /\ owed = [m \in Messages |-> [s \in Sessions |-> 0]]

Copies(x, q) == Cardinality({n \in DOMAIN q : q[n] = x})

(* NetPacket::Free on every packet of a sequence.                           *)
Freed(q) == [p \in Packets |-> refCnt[p] - Copies(p, q)]

-------------------------------------------------------------------------------
(* The application.                                                         *)

(* NetPacket::Alloc, and operator<<.                                        *)
Alloc(p, m) ==
  /\ refCnt[p] = 0 /\ m \in fresh
  /\ refCnt' = [refCnt EXCEPT ![p] = 1]
  /\ message' = [message EXCEPT ![p] = m]
  /\ owned' = owned \union {p}
  /\ fresh' = fresh \ {m}
  /\ UNCHANGED <<work, port, worker, session, calls, owed>>

MayCall(p) == p \in owned /\ work[p] = NoWork /\ calls < MaxCalls

Owe(p, ids) ==
  owed' = [owed EXCEPT ![message[p]] = [s \in Sessions |-> @[s] + Copies(s, ids)]]

(* The size of a chunk.                                                     *)
DistributeNum(size) == LET num == size \div waitingThreadNum_ IN IF num = 0 THEN 1 ELSE num

(* Variant: one reference for the whole set.                                *)
SendSet_AddRefOnce(p, ids, kind) ==
  /\ MayCall(p)
  /\ refCnt' = [refCnt EXCEPT ![p] = @ + 1]
  /\ Owe(p, ids)
  /\ work' = [work EXCEPT ![p] = [kind |-> kind, ids |-> ids, num |-> DistributeNum(Len(ids))]]
  /\ calls' = calls + 1
  /\ UNCHANGED <<message, owned, port, worker, session, fresh>>

(* AsyncSendPacket and DisconnectAfterLastMessage with a set.               *)
SendSet(p, ids, kind) ==
  /\ MayCall(p)
  /\ refCnt' = [refCnt EXCEPT ![p] = @ + Len(ids)]
  /\ Owe(p, ids)
  /\ work' = [work EXCEPT ![p] = [kind |-> kind, ids |-> ids, num |-> DistributeNum(Len(ids))]]
  /\ calls' = calls + 1
  /\ UNCHANGED <<message, owned, port, worker, session, fresh>>

Chunk(p, ids) == [kind |-> work[p].kind, packet |-> p, ids |-> ids]

(* The first num IDs move into a set of their own.                          *)
PostChunk(p) ==
  LET ids == work[p].ids  num == work[p].num IN
  /\ work[p] # NoWork /\ Len(ids) >= num
  /\ port' = Append(port, Chunk(p, SubSeq(ids, 1, num)))
  /\ work' = [work EXCEPT ![p].ids = SubSeq(ids, num + 1, Len(ids))]
  /\ UNCHANGED <<packets, worker, session, fresh, calls, owed>>

(* Variant: the rest is posted in the set and in a copy of it.              *)
PostRest_Twice(p) ==
  /\ work[p] # NoWork /\ Len(work[p].ids) < work[p].num
  /\ port' = port \o <<Chunk(p, work[p].ids), Chunk(p, work[p].ids)>>
  /\ work' = [work EXCEPT ![p] = NoWork]
  /\ UNCHANGED <<packets, worker, session, fresh, calls, owed>>

(* What is left goes in the set itself, or the empty set is freed.          *)
PostRest(p) ==
  LET ids == work[p].ids IN
  /\ work[p] # NoWork /\ Len(ids) < work[p].num
  /\ port' = IF ids = <<>> THEN port ELSE Append(port, Chunk(p, ids))
  /\ work' = [work EXCEPT ![p] = NoWork]
  /\ UNCHANGED <<packets, worker, session, fresh, calls, owed>>

(* AsyncSendPacket with one ID.                                             *)
AsyncSendPacket(p, s) ==
  /\ MayCall(p)
  /\ calls' = calls + 1
  /\ \/ connection[s] = "dead" /\ UNCHANGED <<packets, port, session>>
     \/ /\ connection[s] = "canceled" \/ Len(sendQ[s]) >= eNET_PACKET_SEND_Q_MAX_SIZE
        /\ connection[s] # "dead"
        /\ connection' = [connection EXCEPT ![s] = "canceled"]
        /\ UNCHANGED <<refCnt, message, owned, port, sendQ, sentQ, isSending, io>>
     \/ /\ connection[s] = "online" /\ Len(sendQ[s]) < eNET_PACKET_SEND_Q_MAX_SIZE
        /\ refCnt' = [refCnt EXCEPT ![p] = @ + 1]
        /\ sendQ' = [sendQ EXCEPT ![s] = Append(@, p)]
        /\ port' = IF isSending[s] THEN port
                   ELSE Append(port, [kind |-> "sign", packet |-> NULL, ids |-> <<s>>])
        /\ UNCHANGED <<message, owned, connection, sentQ, isSending, io>>
  /\ UNCHANGED <<work, worker, fresh, owed>>

(* NetPacket::Free by the maker.                                            *)
Free(p) ==
  /\ p \in owned /\ work[p] = NoWork
  /\ owned' = owned \ {p}
  /\ refCnt' = Freed(<<p>>)
  /\ UNCHANGED <<message, work, port, worker, session, fresh, calls, owed>>

-------------------------------------------------------------------------------
(* A worker handles a post.                                                 *)

Take(w) ==
  /\ worker[w] = Idle /\ port # <<>>
  /\ port' = Tail(port)
  /\ worker' = [worker EXCEPT ![w] =
       IF Head(port).kind = "sign"
       THEN [Idle EXCEPT !.at = Head(port).ids[1], !.pc = "sendPost"]
       ELSE [kind |-> Head(port).kind, packet |-> Head(port).packet, ids |-> Head(port).ids,
             at |-> NULL, pc |-> "next"]]
  /\ UNCHANGED <<packets, work, session, fresh, calls, owed>>

(* A set that is used up is freed, and the worker is idle again.            *)
AfterID(r) == IF r.ids = <<>> THEN Idle ELSE [r EXCEPT !.at = NULL, !.pc = "next"]

Leave(w) == worker' = [worker EXCEPT ![w] = AfterID(@)]

(* The ID that is handled is taken out of the set.                          *)
WithoutHead(r) == [r EXCEPT !.ids = Tail(r.ids)]

(* Variant: the worker waits until the session takes the packet.            *)
NextID_Waits(w) ==
  LET s == Head(worker[w].ids)  p == worker[w].packet IN
  /\ worker[w].pc = "next"
  /\ connection[s] = "online" /\ Len(sendQ[s]) < eNET_PACKET_SEND_Q_MAX_SIZE
  /\ owed' = [owed EXCEPT ![message[p]][s] = @ - 1]
  /\ sendQ' = [sendQ EXCEPT ![s] = Append(@, p)]
  /\ worker' = [worker EXCEPT ![w].ids = Tail(@), ![w].at = s,
                ![w].pc = IF worker[w].kind = "last" THEN "cancel" ELSE "sendPost"]
  /\ UNCHANGED <<refCnt, message, owned, work, port, connection, sentQ, isSending, io, fresh,
                 calls>>

(* The next ID of a chunk: its session is gone, or takes the packet, or     *)
(* refuses it and is disconnected.                                          *)
NextID(w) ==
  LET s == Head(worker[w].ids)  p == worker[w].packet IN
  /\ worker[w].pc = "next"
  /\ owed' = [owed EXCEPT ![message[p]][s] = @ - 1]
  /\ IF connection[s] = "online" /\ Len(sendQ[s]) < eNET_PACKET_SEND_Q_MAX_SIZE
     THEN /\ sendQ' = [sendQ EXCEPT ![s] = Append(@, p)]
          /\ worker' = [worker EXCEPT ![w] = [WithoutHead(@) EXCEPT !.at = s,
                        !.pc = IF worker[w].kind = "last" THEN "cancel" ELSE "sendPost"]]
          /\ UNCHANGED <<refCnt, connection>>
     ELSE /\ refCnt' = Freed(<<p>>)
          /\ connection' = [connection EXCEPT ![s] = IF @ = "dead" THEN @ ELSE "canceled"]
          /\ worker' = [worker EXCEPT ![w] = AfterID(WithoutHead(@))]
          /\ UNCHANGED sendQ
  /\ UNCHANGED <<message, owned, work, port, sentQ, isSending, io, fresh, calls>>

(* With the flag in hand: what was sent is freed, sendQ_ goes to WSASend.   *)
(* It may fail, and it may go pending on a server that does not want that:  *)
(* both disconnect.                                                         *)
DrainAndSend(s) ==
  /\ refCnt' = Freed(sentQ[s])
  /\ sentQ' = [sentQ EXCEPT ![s] = sendQ[s]]
  /\ sendQ' = [sendQ EXCEPT ![s] = <<>>]
  /\ \/ /\ sendQ[s] = <<>>
        /\ UNCHANGED <<isSending, io, connection>>
     \/ /\ sendQ[s] # <<>>
        /\ isSending' = [isSending EXCEPT ![s] = TRUE]
        /\ \/ /\ io' = [io EXCEPT ![s] = "pending"]
              /\ \E c \in {connection[s], "canceled"} : connection' = [connection EXCEPT ![s] = c]
           \/ /\ connection' = [connection EXCEPT ![s] = "canceled"] /\ UNCHANGED io

SendPost(w) ==
  LET s == worker[w].at IN
  /\ worker[w].pc = "sendPost"
  /\ \/ ~isSending[s] /\ DrainAndSend(s)
     \/ isSending[s] /\ UNCHANGED <<refCnt, session>>
  /\ Leave(w)
  /\ UNCHANGED <<message, owned, work, port, fresh, calls, owed>>

(* SendAndDisconnectPost disconnects, and then waits for the flag.          *)
LastCancel(w) ==
  /\ worker[w].pc = "cancel"
  /\ connection' = [connection EXCEPT ![worker[w].at] = "canceled"]
  /\ worker' = [worker EXCEPT ![w].pc = "spin"]
  /\ UNCHANGED <<packets, work, port, sendQ, sentQ, isSending, io, fresh, calls, owed>>

SendAndDisconnectPost(w) ==
  LET s == worker[w].at IN
  /\ worker[w].pc = "spin"
  /\ \/ ~isSending[s] /\ DrainAndSend(s)
     \/ isSending[s] /\ sendQ[s] = <<>> /\ UNCHANGED <<refCnt, session>>
  /\ Leave(w)
  /\ UNCHANGED <<message, owned, work, port, fresh, calls, owed>>

-------------------------------------------------------------------------------
(* The sessions.                                                            *)

(* The WSASend ends, and a worker takes its completion.  The flag of a      *)
(* canceled session, or one that the failure disconnects, stays as it is.   *)
OnSendComplete(w, s) ==
  /\ worker[w] = Idle /\ io[s] = "pending"
  /\ io' = [io EXCEPT ![s] = "none"]
  /\ worker' = IF connection[s] = "canceled" THEN worker
               ELSE [worker EXCEPT ![w] = [Idle EXCEPT !.at = s, !.pc = "clear"]]
  /\ UNCHANGED <<packets, work, port, connection, sendQ, sentQ, isSending, fresh, calls, owed>>

SetSendFlagFalse(w) ==
  /\ worker[w].pc = "clear"
  /\ isSending' = [isSending EXCEPT ![worker[w].at] = FALSE]
  /\ worker' = [worker EXCEPT ![w].pc = "sendPost"]
  /\ UNCHANGED <<packets, work, port, connection, sendQ, sentQ, io, fresh, calls, owed>>

(* The client, the timeout or the application ends a session.               *)
Disconnect(s) ==
  /\ connection[s] = "online"
  /\ connection' = [connection EXCEPT ![s] = "canceled"]
  /\ UNCHANGED <<packets, work, port, worker, sendQ, sentQ, isSending, io, fresh, calls, owed>>

(* The last reference: no operation, worker or sign is left.                *)
Destroy(s) ==
  /\ connection[s] = "canceled" /\ io[s] = "none"
  /\ \A w \in Workers : worker[w].at # s
  /\ \A n \in DOMAIN port : port[n].kind = "sign" => port[n].ids[1] # s
  /\ connection' = [connection EXCEPT ![s] = "dead"]
  /\ refCnt' = Freed(sentQ[s] \o sendQ[s])
  /\ sentQ' = [sentQ EXCEPT ![s] = <<>>] /\ sendQ' = [sendQ EXCEPT ![s] = <<>>]
  /\ isSending' = [isSending EXCEPT ![s] = FALSE]
  /\ UNCHANGED <<message, owned, work, port, worker, io, fresh, calls, owed>>

-------------------------------------------------------------------------------
Walk(w) ==
  \/ NextID(w) \/ SendPost(w) \/ LastCancel(w) \/ SendAndDisconnectPost(w)
  \/ SetSendFlagFalse(w)

Distribute(p) == PostChunk(p) \/ PostRest(p)

Dispatch(w) == Take(w) \/ \E s \in Sessions : OnSendComplete(w, s)

Next ==
  \/ \E p \in Packets :
       \/ \E m \in Messages : Alloc(p, m)
       \/ \E ids \in IDSets, kind \in {"send", "last"} : SendSet(p, ids, kind)
       \/ \E s \in Sessions : AsyncSendPacket(p, s)
       \/ Distribute(p) \/ Free(p)
  \/ \E w \in Workers : Walk(w) \/ Dispatch(w)
  \/ \E s \in Sessions : Disconnect(s) \/ Destroy(s)

Spec == Init /\ [][Next]_vars

(* The maker goes on distributing, workers go on, and posts are taken.      *)
FairSpec ==
  /\ Spec
  /\ \A p \in Packets : WF_vars(Distribute(p))
  /\ \A w \in Workers : WF_vars(Walk(w))
  /\ WF_vars(\E w \in Workers : Take(w))

-------------------------------------------------------------------------------
(* The copies of a packet that are on their way: where, and to whom; and    *)
(* its places in queues.                                                    *)
Copy(kind, where, ids) == {<<kind, where, n, ids[n]>> : n \in DOMAIN ids}

CopiesOf(p) ==
  UNION (     {Copy("work", p, work[p].ids)}
       \union {Copy("port", k, port[k].ids) : k \in {k \in DOMAIN port : port[k].packet = p}}
       \union {Copy("worker", w, worker[w].ids) : w \in {w \in Workers : worker[w].packet = p}})

OnWay(p, s) == {c \in CopiesOf(p) : c[4] = s}

InQueues(p) ==
  {c \in UNION {Copy("send", s, sendQ[s]) \union Copy("sent", s, sentQ[s]) : s \in Sessions} :
     c[4] = p}

(***************************************************************************)
(* refCnt_ counts who will still use the packet: its maker, every copy in  *)
(* a set that is distributed, posted or handled, and every place in a      *)
(* sendQ_ or sentQ_.  So no packet goes back to the pool, from where the   *)
(* next message takes it, while a queue or a WSASend has it, and none is   *)
(* lost, whether its addressees take it, refuse it, or are gone before the *)
(* chunk, the send or the completion gets to them.                         *)
(***************************************************************************)
RefCountIsExact ==
  \A p \in Packets :
    refCnt[p] = Cardinality({p} \intersect owned) + Cardinality(CopiesOf(p))
              + Cardinality(InQueues(p))

(***************************************************************************)
(* However a set is cut into chunks and whichever workers take them: a     *)
(* copy for each addressee is on its way until its session took or refused *)
(* it, and none for anybody else.                                          *)
(***************************************************************************)
EveryoneHearsOnce ==
  \A m \in Messages, s \in Sessions :
    owed[m][s] = Cardinality(UNION {OnWay(p, s) : p \in {p \in Packets : message[p] = m}})

(* A worker waits in SendAndDisconnectPost for a flag that nobody clears:   *)
(* the completion of a canceled session does not.                           *)
Hangs(w) ==
  /\ worker[w].pc = "spin" /\ isSending[worker[w].at] /\ sendQ[worker[w].at] # <<>>
  /\ \A v \in Workers : worker[v].at = worker[w].at => worker[v].pc # "clear"

(***************************************************************************)
(* A copy on its way reaches its session, or is dropped with it.  A last   *)
(* message to a session that is sending may hang its worker, and with it   *)
(* only the rest of the same chunk, unless all workers hang.               *)
(***************************************************************************)
EveryCopyArrives ==
  \A p \in Packets, s \in Sessions \ Gone :
    OnWay(p, s) # {} ~>
      \/ OnWay(p, s) = {}
      \/ \A w \in Workers : Hangs(w)
      \/ \E w \in Workers : Hangs(w) /\ worker[w].packet = p /\ Copies(s, worker[w].ids) > 0
===============================================================================
