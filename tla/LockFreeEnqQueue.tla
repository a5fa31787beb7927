--------------------------- MODULE LockFreeEnqQueue ---------------------------
(***************************************************************************)
(* LockFreeEnqQueue (NetRoot/Common): many threads enqueue without a lock, *)
(* one thread at a time dequeues.  The queue is a list that starts with a  *)
(* dummy node; the last node's next is the address of the queue object.    *)
(* The pointers carry a stamp in their unused bits.  All the queues of one *)
(* type take their nodes from one pool (nodePool_ is static), so a node    *)
(* that an enqueuer still looks at may be freed and reused, by this queue  *)
(* or by another.                                                          *)
(*                                                                         *)
(* A step is one read or one Interlocked operation on memory that other    *)
(* threads use, with the thread's own work attached to it.                 *)
(***************************************************************************)
EXTENDS Integers, FiniteSets, SequencesExt

CONSTANTS
  Queues,          (* queue objects that share the node pool               *)
  Producers,       (* threads that enqueue                                 *)
  Nodes,           (* the nodes of the pool                                *)
  MaxItems,        (* bound: items that one producer enqueues              *)
  QUEUE_MAX_SIZE,  (* QUEUE_MAX_SIZE                                       *)
  Reuse,           (* which freed nodes Alloc may hand out again           *)
  NULL             (* nullptr                                              *)

STAMPS   == 65536  \* a stamp is bits 48 .. 63 of a pointer
Items    == [producer : Producers, number : 1 .. MaxItems]
Pointers == [node : Nodes \union Queues \union {NULL}, stamp : 0 .. (STAMPS - 1)]

This(q)  == [node |-> q, stamp |-> 0]      \* (NodeForLFEQ<DATA>*)this
Null     == [node |-> NULL, stamp |-> 0]

ASSUME QueueAssumption ==
  /\ IsFiniteSet(Producers) /\ IsFiniteSet(Nodes)
  /\ Queues \intersect Nodes = {}
  /\ NULL \notin Queues \union Nodes
  /\ MaxItems \in Nat
  /\ QUEUE_MAX_SIZE \in Nat
  /\ Reuse \in {"rested", "elsewhere", "any"}

VARIABLES
  head,      (* per queue: head_                                           *)
  tail,      (* per queue: tail_                                           *)
  size,      (* per queue: size_                                           *)
  next,      (* per node: next                                             *)
  data,      (* per node: data                                             *)
  free,      (* nodes in nodePool_                                         *)
  enqPC,     (* per producer: its next step in Enqueue                     *)
  local,     (* per producer: the locals of Enqueue                        *)
  sent,      (* per producer: items it has begun to enqueue                *)
  deqPC,     (* per queue: the next step of its consumer in Dequeue        *)
  taken      (* per queue: what Dequeue returned, in order                 *)

producer == <<enqPC, local, sent>>
consumer == <<deqPC, taken>>
vars     == <<head, tail, size, next, data, free, producer, consumer>>

NoLocals == [queue |-> NULL, newNode |-> NULL, localTail |-> Null, localNext |-> Null]

(* Initialize takes a node of the pool as the dummy.                        *)
Init ==
  /\ \E dummy \in [Queues -> Nodes] :
       /\ IsInjective(dummy)
       /\ head = [q \in Queues |-> [node |-> dummy[q], stamp |-> 0]]
       /\ next = [n \in Nodes |-> IF \E q \in Queues : dummy[q] = n
                                    THEN This(CHOOSE q \in Queues : dummy[q] = n)
                                    ELSE Null]
       /\ free = {n \in Nodes : \A q \in Queues : dummy[q] # n}
  /\ tail = head
  /\ size = [q \in Queues |-> 0]
  /\ data = [n \in Nodes |-> NULL]
  /\ enqPC = [p \in Producers |-> "idle"]
  /\ local = [p \in Producers |-> NoLocals]
  /\ sent = [p \in Producers |-> 0]
  /\ deqPC = [q \in Queues |-> "idle"]
  /\ taken = [q \in Queues |-> <<>>]

-------------------------------------------------------------------------------
(* Enqueue.                                                                 *)

isFull(q)     == size[q] >= QUEUE_MAX_SIZE
EnqGoto(p, s) == enqPC' = [enqPC EXCEPT ![p] = s]

(* InterlockedCompareExchangePointer on tail_.                              *)
CompareExchangeTail(q, new, old) ==
  tail' = IF tail[q] = old THEN [tail EXCEPT ![q] = new] ELSE tail

(* Nodes go back to the pool in chunks of 500, so most come back long after *)
(* the last thread forgot them ("rested"), but nothing waits for a thread   *)
(* that stopped between reading tail_ and exchanging the next of that node. *)
(* Such a node may return in another queue ("elsewhere") or anywhere.       *)
MayAlloc(n, q) ==
  \A p \in Producers :
    local[p].localTail.node = n =>
      \/ Reuse = "any"
      \/ Reuse = "elsewhere" /\ local[p].queue # q

(* The isFull test, nodePool_->Alloc and the data of the new node.          *)
EnqueueAlloc(p, q) ==
  /\ enqPC[p] = "idle"
  /\ sent[p] < MaxItems
  /\ ~isFull(q)
  /\ \E n \in free :
       /\ MayAlloc(n, q)
       /\ free' = free \ {n}
       /\ data' = [data EXCEPT ![n] = [producer |-> p, number |-> sent[p] + 1]]
       /\ local' = [local EXCEPT ![p] = [NoLocals EXCEPT !.queue = q, !.newNode = n]]
  /\ sent' = [sent EXCEPT ![p] = @ + 1]
  /\ EnqGoto(p, "setNext")
  /\ UNCHANGED <<head, tail, size, next, consumer>>

EnqueueSetNext(p) ==
  /\ enqPC[p] = "setNext"
  /\ next' = [next EXCEPT ![local[p].newNode] = This(local[p].queue)]
  /\ EnqGoto(p, "readTail")
  /\ UNCHANGED <<head, tail, size, data, free, local, sent, consumer>>

EnqueueReadTail(p) ==
  /\ enqPC[p] = "readTail"
  /\ local' = [local EXCEPT ![p].localTail = tail[local[p].queue]]
  /\ EnqGoto(p, "readNext")
  /\ UNCHANGED <<head, tail, size, next, data, free, sent, consumer>>

EnqueueReadNext(p) ==
  /\ enqPC[p] = "readNext"
  /\ local' = [local EXCEPT ![p].localNext = next[local[p].localTail.node]]
  /\ EnqGoto(p, IF local'[p].localNext = This(local[p].queue) THEN "link" ELSE "help")
  /\ UNCHANGED <<head, tail, size, next, data, free, sent, consumer>>

(* The new node with the stamp of localTail, incremented.                   *)
stampAddedNewNode(p) ==
  [node |-> local[p].newNode, stamp |-> (local[p].localTail.stamp + 1) % STAMPS]

(* Variant: the node is linked by a plain store.                            *)
EnqueueLink_Store(p) ==
  /\ enqPC[p] = "link"
  /\ next' = [next EXCEPT ![local[p].localTail.node] = stampAddedNewNode(p)]
  /\ EnqGoto(p, "moveTail")
  /\ UNCHANGED <<head, tail, size, data, free, local, sent, consumer>>

EnqueueLink(p) ==
  LET last == local[p].localTail.node
  IN  /\ enqPC[p] = "link"
      /\ IF next[last] = local[p].localNext
           THEN /\ next' = [next EXCEPT ![last] = stampAddedNewNode(p)]
                /\ EnqGoto(p, "moveTail")
           ELSE UNCHANGED next /\ EnqGoto(p, "readTail")
      /\ UNCHANGED <<head, tail, size, data, free, local, sent, consumer>>

EnqueueMoveTail(p) ==
  /\ enqPC[p] = "moveTail"
  /\ CompareExchangeTail(local[p].queue, stampAddedNewNode(p), local[p].localTail)
  /\ EnqGoto(p, "count")
  /\ UNCHANGED <<head, size, next, data, free, local, sent, consumer>>

EnqueueHelp(p) ==
  /\ enqPC[p] = "help"
  /\ CompareExchangeTail(local[p].queue, local[p].localNext, local[p].localTail)
  /\ EnqGoto(p, "readTail")
  /\ UNCHANGED <<head, size, next, data, free, local, sent, consumer>>

EnqueueCount(p) ==
  /\ enqPC[p] = "count"
  /\ size' = [size EXCEPT ![local[p].queue] = @ + 1]
  /\ local' = [local EXCEPT ![p] = NoLocals]
  /\ EnqGoto(p, "idle")
  /\ UNCHANGED <<head, tail, next, data, free, sent, consumer>>

EnqueueStep(p) ==
  \/ EnqueueSetNext(p) \/ EnqueueReadTail(p) \/ EnqueueReadNext(p)
  \/ EnqueueLink(p) \/ EnqueueMoveTail(p) \/ EnqueueHelp(p) \/ EnqueueCount(p)

-------------------------------------------------------------------------------
(* Dequeue.  Only the consumer writes head_, so it reads head_ and the next *)
(* of the dummy node in one step.                                           *)

DeqGoto(q, s) == deqPC' = [deqPC EXCEPT ![q] = s]
localHead(q)  == head[q]
nextOfHead(q) == next[localHead(q).node]

DequeueReserve(q) ==
  /\ deqPC[q] = "idle"
  /\ size' = [size EXCEPT ![q] = @ - 1]
  /\ DeqGoto(q, IF size'[q] < 0 THEN "empty" ELSE "read")
  /\ UNCHANGED <<head, tail, next, data, free, producer, taken>>

(* Variant: the reservation that failed is not taken back.                  *)
DequeueEmpty_KeepsReservation(q) ==
  /\ deqPC[q] = "empty"
  /\ DeqGoto(q, "idle")
  /\ UNCHANGED <<head, tail, size, next, data, free, producer, taken>>

DequeueEmpty(q) ==
  /\ deqPC[q] = "empty"
  /\ size' = [size EXCEPT ![q] = @ + 1]
  /\ DeqGoto(q, "idle")
  /\ UNCHANGED <<head, tail, next, data, free, producer, taken>>

(* The loop goes round while the dummy node has no successor.  Then tail_   *)
(* is helped off the dummy; the test before that exchange is part of it.    *)
(* It finds work only once a node was recycled under an Enqueue (Reuse =    *)
(* "any"): otherwise tail_ has left the dummy before an item is promised.   *)
DequeueRead(q) ==
  /\ deqPC[q] = "read"
  /\ nextOfHead(q) # This(q)
  /\ CompareExchangeTail(q, nextOfHead(q), localHead(q))
  /\ DeqGoto(q, "take")
  /\ UNCHANGED <<head, size, next, data, free, producer, taken>>

(* Variant: Free gets the node that has become the dummy.                   *)
DequeueTake_FreesNewDummy(q) ==
  /\ deqPC[q] = "take"
  /\ taken' = [taken EXCEPT ![q] = Append(@, data[nextOfHead(q).node])]
  /\ head' = [head EXCEPT ![q] = nextOfHead(q)]
  /\ free' = free \union {nextOfHead(q).node}
  /\ DeqGoto(q, "idle")
  /\ UNCHANGED <<tail, size, next, data, producer>>

(* The data, head_ and nodePool_->Free of the old dummy.                    *)
DequeueTake(q) ==
  /\ deqPC[q] = "take"
  /\ taken' = [taken EXCEPT ![q] = Append(@, data[nextOfHead(q).node])]
  /\ head' = [head EXCEPT ![q] = nextOfHead(q)]
  /\ free' = free \union {localHead(q).node}
  /\ DeqGoto(q, "idle")
  /\ UNCHANGED <<tail, size, next, data, producer>>

DequeueStep(q) ==
  DequeueReserve(q) \/ DequeueEmpty(q) \/ DequeueRead(q) \/ DequeueTake(q)

Next ==
  \/ \E p \in Producers : EnqueueStep(p) \/ \E q \in Queues : EnqueueAlloc(p, q)
  \/ \E q \in Queues : DequeueStep(q)

Spec == Init /\ [][Next]_vars

-------------------------------------------------------------------------------
(* The nodes that follow the dummy node of q, in list order: at most as     *)
(* many as there are.                                                       *)
ChainFrom(nxt, first) ==
  LET after[k \in 0 .. Cardinality(Nodes)] ==
        [n \in Nodes |-> IF k = 0 \/ nxt[n].node \notin Nodes THEN <<>>
                         ELSE <<nxt[n].node>> \o after[k - 1][nxt[n].node]]
  IN  after[Cardinality(Nodes)][first]

Chain(q) == ChainFrom(next, head[q].node)

Contents(q) == LET chain == Chain(q) IN [i \in DOMAIN chain |-> data[chain[i]]]

(***************************************************************************)
(* Linearizability: the successful exchange of the last node's next is the *)
(* Enqueue and the update of head_ the Dequeue of a first-in first-out     *)
(* queue.                                                                  *)
(***************************************************************************)
Fifo == INSTANCE FifoQueue WITH queue <- [q \in Queues |-> Contents(q)]
ImplementsFifo == Fifo!Spec

(***************************************************************************)
(* size_ lags behind the list by the Enqueues that have linked their node  *)
(* and not yet counted it, and by the Dequeue in progress: so Dequeue says *)
(* "empty" only if every Enqueue that returned has been taken.             *)
(***************************************************************************)
Uncounted(q) == {p \in Producers : local[p].queue = q /\ enqPC[p] \in {"moveTail", "count"}}

SizeCountsContents ==
  \A q \in Queues :
    Len(Contents(q)) = size[q] + Cardinality(Uncounted(q))
                         + (IF deqPC[q] = "idle" THEN 0 ELSE 1)

(* A consumer that was promised an item never waits for a producer.         *)
DequeueFindsItem ==
  \A q \in Queues : deqPC[q] \in {"read", "take"} => nextOfHead(q) # This(q)

(***************************************************************************)
(* The queues share their nodes and nothing else: no list runs into the    *)
(* pool or into another queue's list, whatever address a slow Enqueue of   *)
(* one queue still holds.  And every list ends, in its own queue's address. *)
(***************************************************************************)
ListsAreApart ==
  \A q, r \in Queues :
    /\ (ToSet(Chain(q)) \union {head[q].node}) \intersect free = {}
    /\ q # r => ToSet(Chain(q)) \intersect ToSet(Chain(r)) = {}
    /\ next[Last(<<head[q].node>> \o Chain(q))] = This(q)
===============================================================================
