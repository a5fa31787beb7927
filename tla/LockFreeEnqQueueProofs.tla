------------------------ MODULE LockFreeEnqQueueProofs ------------------------
(***************************************************************************)
(* Theorems about LockFreeEnqQueue, for any number of producers, items and *)
(* queues and any number of nodes that the queues share, as long as a node *)
(* that an Enqueue still looks at does not come back in the same queue     *)
(* (NoReuse; with it the queue is broken, see DequeueFindsItem).           *)
(*                                                                         *)
(* The invariant speaks of the lists as sequences of nodes, the dummy node *)
(* first, that exist without the recursion which Chain walks them by.  The *)
(* walk comes back only at the end: ChainIsList says that it finds them.   *)
(***************************************************************************)
EXTENDS LockFreeEnqQueue, FiniteSetTheorems, SequenceTheorems, TLAPS

NoReuse == Reuse # "any"

(* The steps of a producer: with a node that is not in a list yet, with     *)
(* that node's next set, and with a tail that it has read.                  *)
PrivateSteps == {"setNext", "readTail", "readNext", "link", "help"}
ReadySteps   == PrivateSteps \ {"setNext"}
TailSteps    == {"readNext", "link", "help", "moveTail"}
EnqSteps     == PrivateSteps \union {"idle", "moveTail", "count"}
DeqSteps     == {"idle", "empty", "read", "take"}

Private(p) == enqPC[p] \in PrivateSteps
Ready(p)   == enqPC[p] \in ReadySteps

Locals ==
  [queue : Queues \union {NULL}, newNode : Nodes \union {NULL},
   localTail : Pointers, localNext : Pointers]

TypeInv ==
  /\ head \in [Queues -> Pointers] /\ tail \in [Queues -> Pointers]
  /\ size \in [Queues -> Int]
  /\ next \in [Nodes -> Pointers]
  /\ data \in [Nodes -> Items \union {NULL}]
  /\ free \subseteq Nodes
  /\ enqPC \in [Producers -> EnqSteps]
  /\ local \in [Producers -> Locals]
  /\ sent \in [Producers -> 0 .. MaxItems]
  /\ deqPC \in [Queues -> DeqSteps]
  /\ taken \in [Queues -> Seq(Items)]

(***************************************************************************)
(* The lists.                                                              *)
(***************************************************************************)

(* list[q] follows the next pointers from head_ to the address of q.        *)
Linked(list) ==
  \A q \in Queues :
    /\ list[q] # <<>> /\ list[q][1] = head[q].node
    /\ \A i \in 1 .. Len(list[q]) - 1 : next[list[q][i]].node = list[q][i + 1]
    /\ next[list[q][Len(list[q])]] = This(q)

(* A node has one place in one list, and then it is not in the pool.        *)
Apart(list) ==
  \A q \in Queues : \A i \in 1 .. Len(list[q]) :
    /\ list[q][i] \notin free
    /\ \A r \in Queues : \A j \in 1 .. Len(list[r]) :
         list[q][i] = list[r][j] => q = r /\ i = j

(* All nodes but the dummy carry an item.                                   *)
Carry(list) ==
  \A q \in Queues : \A i \in 2 .. Len(list[q]) : data[list[q][i]] \in Items

(* tail_ is a pointer that is in the list, and ahead of head_ before head_  *)
(* moves.                                                                   *)
TailIsIn(list) ==
  \A q \in Queues :
    /\ tail[q] = head[q] \/ \E i \in 1 .. Len(list[q]) - 1 : tail[q] = next[list[q][i]]
    /\ deqPC[q] = "take" => tail[q] # head[q] /\ Len(list[q]) > 1

Counted(list) ==
  \A q \in Queues :
    /\ size[q] >= (IF deqPC[q] = "empty" THEN -1 ELSE 0)
    /\ Len(list[q]) - 1 = size[q] + Cardinality(Uncounted(q))
                            + (IF deqPC[q] = "idle" THEN 0 ELSE 1)

(***************************************************************************)
(* The producers.                                                          *)
(***************************************************************************)

LocalInv(p) ==
  /\ enqPC[p] # "idle" => local[p].queue \in Queues /\ local[p].newNode \in Nodes
  /\ enqPC[p] \in TailSteps => local[p].localTail.node \in Nodes
  /\ enqPC[p] = "link" => local[p].localNext = This(local[p].queue)
  /\ enqPC[p] = "help" => local[p].localNext # This(local[p].queue)

(* The node of an Enqueue that has not linked it yet is nowhere else.       *)
NewNodeInv(list, p) ==
  Private(p) =>
    /\ local[p].newNode \notin free
    /\ \A q \in Queues : \A i \in 1 .. Len(list[q]) : list[q][i] # local[p].newNode
    /\ data[local[p].newNode] \in Items
    /\ Ready(p) => next[local[p].newNode] = This(local[p].queue)
    /\ \A r \in Producers :
         /\ Private(r) /\ local[r].newNode = local[p].newNode => r = p
         /\ local[r].localTail.node = local[p].newNode => local[r].queue # local[p].queue

(* Only the last node of q and those about to be linked point to q.         *)
Sentinels(list) ==
  \A n \in Nodes : \A q \in Queues :
    next[n] = This(q) =>
      \/ n = list[q][Len(list[q])]
      \/ \E p \in Producers : Ready(p) /\ local[p].newNode = n /\ local[p].queue = q

(* What a producer is about to write to tail_ is the next of the node that  *)
(* it compares tail_ with, or that node has left the list.                  *)
LooksAt(list, p) ==
  \E i \in 1 .. Len(list[local[p].queue]) : list[local[p].queue][i] = local[p].localTail.node

MovesAhead(list, p) ==
  /\ enqPC[p] = "moveTail" /\ LooksAt(list, p) =>
       next[local[p].localTail.node] = stampAddedNewNode(p)
  /\ enqPC[p] = "help" /\ LooksAt(list, p) =>
       next[local[p].localTail.node] = local[p].localNext

Good(list) ==
  /\ Linked(list) /\ Apart(list) /\ Carry(list) /\ TailIsIn(list) /\ Counted(list)
  /\ Sentinels(list)
  /\ \A p \in Producers : LocalInv(p) /\ NewNodeInv(list, p) /\ MovesAhead(list, p)

Inv == TypeInv /\ \E list \in [Queues -> Seq(Nodes)] : Good(list)

-------------------------------------------------------------------------------
(* Types.                                                                   *)

LEMMA Stamps == STAMPS \in Nat /\ STAMPS > 0
  BY DEF STAMPS

LEMMA PointerTypes ==
  /\ \A q \in Queues : This(q) \in Pointers /\ This(q).node = q
  /\ Null \in Pointers /\ Null.node = NULL
  /\ \A x \in Pointers : x.node \in Nodes \union Queues \union {NULL}
  /\ \A n \in Nodes : n \notin Queues /\ n # NULL
  /\ \A n \in Nodes, k \in 0 .. (STAMPS - 1) : [node |-> n, stamp |-> k] \in Pointers
<1>1. 0 \in 0 .. (STAMPS - 1)
  BY Stamps
<1>. QED  BY <1>1, QueueAssumption DEF This, Null, Pointers

LEMMA AddedType ==
  ASSUME NEW p \in Producers, local[p] \in Locals, local[p].newNode \in Nodes
  PROVE  stampAddedNewNode(p) \in Pointers /\ stampAddedNewNode(p).node = local[p].newNode
<1>1. local[p].localTail.stamp \in 0 .. (STAMPS - 1)
  BY DEF Locals, Pointers
<1>2. (local[p].localTail.stamp + 1) % STAMPS \in 0 .. (STAMPS - 1)
  BY <1>1, Stamps
<1>. QED  BY <1>2, PointerTypes DEF stampAddedNewNode

LEMMA NoLocalsType == NoLocals \in Locals
  BY PointerTypes DEF NoLocals, Locals

(* What an assignment to one of the locals leaves.                          *)
LEMMA SetTail ==
  ASSUME local \in [Producers -> Locals], NEW p \in Producers, NEW x \in Pointers,
         local' = [local EXCEPT ![p].localTail = x]
  PROVE  /\ local' \in [Producers -> Locals]
         /\ \A r \in Producers : r # p => local'[r] = local[r]
         /\ local'[p].localTail = x /\ local'[p].localNext = local[p].localNext
         /\ local'[p].queue = local[p].queue /\ local'[p].newNode = local[p].newNode
  BY DEF Locals

LEMMA SetNext ==
  ASSUME local \in [Producers -> Locals], NEW p \in Producers, NEW x \in Pointers,
         local' = [local EXCEPT ![p].localNext = x]
  PROVE  /\ local' \in [Producers -> Locals]
         /\ \A r \in Producers : r # p => local'[r] = local[r]
         /\ local'[p].localTail = local[p].localTail /\ local'[p].localNext = x
         /\ local'[p].queue = local[p].queue /\ local'[p].newNode = local[p].newNode
  BY DEF Locals

LEMMA SetNewNode ==
  ASSUME local \in [Producers -> Locals], NEW p \in Producers, NEW q \in Queues, NEW n \in Nodes,
         local' = [local EXCEPT ![p] = [NoLocals EXCEPT !.queue = q, !.newNode = n]]
  PROVE  /\ local' \in [Producers -> Locals]
         /\ \A r \in Producers : r # p => local'[r] = local[r]
         /\ local'[p].localTail = Null /\ local'[p].localNext = Null
         /\ local'[p].queue = q /\ local'[p].newNode = n
  BY PointerTypes DEF Locals, NoLocals

(* The ends of a list.                                                      *)
LEMMA ListEnds ==
  ASSUME NEW list \in [Queues -> Seq(Nodes)], Linked(list), NEW q \in Queues
  PROVE  /\ Len(list[q]) \in Nat /\ Len(list[q]) > 0
         /\ \A i \in 1 .. Len(list[q]) : list[q][i] \in Nodes
         /\ list[q][1] = head[q].node /\ head[q].node \in Nodes
         /\ list[q][Len(list[q])] \in Nodes
         /\ next[list[q][Len(list[q])]] = This(q)
         /\ \A i \in 1 .. Len(list[q]) - 1 : next[list[q][i]].node = list[q][i + 1]
<1>1. list[q] \in Seq(Nodes) /\ list[q] # <<>>
  BY DEF Linked
<1>2. Len(list[q]) \in Nat /\ Len(list[q]) > 0 /\ \A i \in 1 .. Len(list[q]) : list[q][i] \in Nodes
  BY <1>1
<1>. QED  BY <1>2 DEF Linked

LEMMA TailIsANode ==
  ASSUME NEW list \in [Queues -> Seq(Nodes)], Linked(list), TailIsIn(list), NEW q \in Queues
  PROVE  \E i \in 1 .. Len(list[q]) : list[q][i] = tail[q].node
<1>1. CASE tail[q] = head[q]
  BY <1>1, ListEnds
<1>2. ASSUME NEW i \in 1 .. Len(list[q]) - 1, tail[q] = next[list[q][i]]
      PROVE  \E k \in 1 .. Len(list[q]) : list[q][k] = tail[q].node
  <2>1. i + 1 \in 1 .. Len(list[q]) /\ list[q][i + 1] = tail[q].node
    BY <1>2, ListEnds
  <2>. QED  BY <2>1
<1>. QED  BY <1>1, <1>2 DEF TailIsIn

(* Who has an item to take has one.                                         *)
LEMMA SecondNode ==
  ASSUME TypeInv, NEW list \in [Queues -> Seq(Nodes)], Linked(list), NEW q \in Queues
  PROVE  /\ nextOfHead(q) = next[list[q][1]] /\ nextOfHead(q) \in Pointers
         /\ nextOfHead(q) # This(q) => Len(list[q]) > 1
         /\ Len(list[q]) > 1 => nextOfHead(q).node = list[q][2] /\ list[q][2] \in Nodes
<1>1. nextOfHead(q) = next[list[q][1]] /\ nextOfHead(q) \in Pointers
  BY ListEnds DEF nextOfHead, localHead, TypeInv
<1>2. Len(list[q]) = 1 => nextOfHead(q) = This(q)
  BY <1>1, ListEnds
<1>3. Len(list[q]) > 1 => nextOfHead(q).node = list[q][2] /\ list[q][2] \in Nodes
  <2>1. Len(list[q]) > 1 => 1 \in 1 .. Len(list[q]) - 1 /\ 2 \in 1 .. Len(list[q])
    BY ListEnds
  <2>2. 1 \in 1 .. Len(list[q]) - 1 => next[list[q][1]].node = list[q][1 + 1]
    BY ListEnds
  <2>. QED  BY <1>1, <2>1, <2>2, ListEnds
<1>. QED  BY <1>1, <1>2, <1>3, ListEnds

LEMMA CompareExchangeType ==
  ASSUME tail \in [Queues -> Pointers], NEW q \in Queues, NEW new \in Pointers, NEW old,
         CompareExchangeTail(q, new, old)
  PROVE  /\ tail' \in [Queues -> Pointers]
         /\ \A r \in Queues : r # q \/ tail[q] # old => tail'[r] = tail[r]
         /\ tail[q] = old => tail'[q] = new
  BY DEF CompareExchangeTail

LEMMA TypeEnqueue ==
  ASSUME TypeInv, NEW list \in [Queues -> Seq(Nodes)], Good(list), NEW p \in Producers,
         EnqueueStep(p) \/ \E q \in Queues : EnqueueAlloc(p, q)
  PROVE  TypeInv'
<1>1. local[p] \in Locals /\ LocalInv(p)
  BY DEF TypeInv, Good
<1>2. ASSUME NEW q \in Queues, EnqueueAlloc(p, q)
      PROVE  TypeInv'
  <2>1. PICK n \in free :
          /\ free' = free \ {n}
          /\ data' = [data EXCEPT ![n] = [producer |-> p, number |-> sent[p] + 1]]
          /\ local' = [local EXCEPT ![p] = [NoLocals EXCEPT !.queue = q, !.newNode = n]]
    BY <1>2 DEF EnqueueAlloc
  <2>2. local' \in [Producers -> Locals]
    BY <2>1, SetNewNode DEF TypeInv
  <2>3. /\ sent[p] + 1 \in 1 .. MaxItems /\ sent[p] + 1 \in 0 .. MaxItems
        /\ sent' = [sent EXCEPT ![p] = sent[p] + 1]
    <3>1. sent[p] \in 0 .. MaxItems /\ sent[p] < MaxItems /\ sent' = [sent EXCEPT ![p] = sent[p] + 1]
      BY <1>2 DEF EnqueueAlloc, TypeInv
    <3>2. MaxItems \in Nat
      BY QueueAssumption
    <3>. QED  BY <3>1, <3>2
  <2>4. [producer |-> p, number |-> sent[p] + 1] \in Items
    BY <2>3 DEF Items
  <2>5. data' \in [Nodes -> Items \union {NULL}] /\ free' \subseteq Nodes
    BY <2>1, <2>4 DEF TypeInv
  <2>6. sent' \in [Producers -> 0 .. MaxItems]
    BY <2>3 DEF TypeInv
  <2>7. enqPC' \in [Producers -> EnqSteps]
    BY <1>2 DEF EnqueueAlloc, EnqGoto, TypeInv, EnqSteps, PrivateSteps
  <2>. QED  BY <1>2, <2>2, <2>5, <2>6, <2>7 DEF EnqueueAlloc, TypeInv, consumer
<1>3. CASE EnqueueSetNext(p)
  <2>1. next' \in [Nodes -> Pointers]
    BY <1>1, <1>3, PointerTypes DEF EnqueueSetNext, LocalInv, TypeInv
  <2>2. enqPC' \in [Producers -> EnqSteps]
    BY <1>3 DEF EnqueueSetNext, EnqGoto, TypeInv, EnqSteps, PrivateSteps
  <2>. QED  BY <1>3, <2>1, <2>2 DEF EnqueueSetNext, TypeInv, consumer
<1>4. CASE EnqueueReadTail(p)
  <2>1. tail[local[p].queue] \in Pointers
    BY <1>1, <1>4 DEF EnqueueReadTail, LocalInv, TypeInv
  <2>2. local' \in [Producers -> Locals]
    BY <1>4, <2>1, SetTail DEF EnqueueReadTail, TypeInv
  <2>3. enqPC' \in [Producers -> EnqSteps]
    BY <1>4 DEF EnqueueReadTail, EnqGoto, TypeInv, EnqSteps, PrivateSteps
  <2>. QED  BY <1>4, <2>2, <2>3 DEF EnqueueReadTail, TypeInv, consumer
<1>5. CASE EnqueueReadNext(p)
  <2>1. next[local[p].localTail.node] \in Pointers
    BY <1>1, <1>5 DEF EnqueueReadNext, LocalInv, TypeInv, TailSteps
  <2>2. local' \in [Producers -> Locals]
    BY <1>5, <2>1, SetNext DEF EnqueueReadNext, TypeInv
  <2>3. enqPC' \in [Producers -> EnqSteps]
    BY <1>5 DEF EnqueueReadNext, EnqGoto, TypeInv, EnqSteps, PrivateSteps
  <2>. QED  BY <1>5, <2>2, <2>3 DEF EnqueueReadNext, TypeInv, consumer
<1>6. CASE EnqueueLink(p)
  <2>1. stampAddedNewNode(p) \in Pointers
    BY <1>1, <1>6, AddedType DEF EnqueueLink, LocalInv
  <2>2. next' \in [Nodes -> Pointers]
    BY <1>6, <2>1 DEF EnqueueLink, TypeInv
  <2>3. enqPC' \in [Producers -> EnqSteps]
    BY <1>6 DEF EnqueueLink, EnqGoto, TypeInv, EnqSteps, PrivateSteps
  <2>. QED  BY <1>6, <2>2, <2>3 DEF EnqueueLink, TypeInv, consumer
<1>7. CASE EnqueueMoveTail(p)
  <2>1. stampAddedNewNode(p) \in Pointers /\ local[p].queue \in Queues
    BY <1>1, <1>7, AddedType DEF EnqueueMoveTail, LocalInv
  <2>2. tail' \in [Queues -> Pointers]
    BY <1>7, <2>1, CompareExchangeType DEF EnqueueMoveTail, TypeInv
  <2>3. enqPC' \in [Producers -> EnqSteps]
    BY <1>7 DEF EnqueueMoveTail, EnqGoto, TypeInv, EnqSteps, PrivateSteps
  <2>. QED  BY <1>7, <2>2, <2>3 DEF EnqueueMoveTail, TypeInv, consumer
<1>8. CASE EnqueueHelp(p)
  <2>1. local[p].localNext \in Pointers /\ local[p].queue \in Queues
    BY <1>1, <1>8 DEF EnqueueHelp, LocalInv, Locals
  <2>2. tail' \in [Queues -> Pointers]
    BY <1>8, <2>1, CompareExchangeType DEF EnqueueHelp, TypeInv
  <2>3. enqPC' \in [Producers -> EnqSteps]
    BY <1>8 DEF EnqueueHelp, EnqGoto, TypeInv, EnqSteps, PrivateSteps
  <2>. QED  BY <1>8, <2>2, <2>3 DEF EnqueueHelp, TypeInv, consumer
<1>9. CASE EnqueueCount(p)
  <2>1. size' \in [Queues -> Int]
    BY <1>1, <1>9 DEF EnqueueCount, LocalInv, TypeInv
  <2>2. local' \in [Producers -> Locals]
    BY <1>9, NoLocalsType DEF EnqueueCount, TypeInv
  <2>3. enqPC' \in [Producers -> EnqSteps]
    BY <1>9 DEF EnqueueCount, EnqGoto, TypeInv, EnqSteps, PrivateSteps
  <2>. QED  BY <1>9, <2>1, <2>2, <2>3 DEF EnqueueCount, TypeInv, consumer
<1>. QED  BY <1>2, <1>3, <1>4, <1>5, <1>6, <1>7, <1>8, <1>9 DEF EnqueueStep

LEMMA TypeDequeue ==
  ASSUME TypeInv, NEW list \in [Queues -> Seq(Nodes)], Good(list), NEW q \in Queues,
         DequeueStep(q)
  PROVE  TypeInv'
<1>1. nextOfHead(q) \in Pointers
  BY SecondNode DEF Good
<1>2. CASE DequeueReserve(q) \/ DequeueEmpty(q)
  <2>1. size' \in [Queues -> Int]
    BY <1>2 DEF DequeueReserve, DequeueEmpty, TypeInv
  <2>2. deqPC' \in [Queues -> DeqSteps]
    BY <1>2 DEF DequeueReserve, DequeueEmpty, DeqGoto, TypeInv, DeqSteps
  <2>. QED  BY <1>2, <2>1, <2>2 DEF DequeueReserve, DequeueEmpty, TypeInv, producer
<1>3. CASE DequeueRead(q)
  <2>1. tail' \in [Queues -> Pointers]
    BY <1>1, <1>3, CompareExchangeType DEF DequeueRead, TypeInv
  <2>. QED  BY <1>3, <2>1 DEF DequeueRead, DeqGoto, TypeInv, DeqSteps, producer
<1>4. CASE DequeueTake(q)
  <2>1. Len(list[q]) > 1
    BY <1>4 DEF DequeueTake, Good, TailIsIn
  <2>2. data[nextOfHead(q).node] \in Items
    <3>1. nextOfHead(q).node = list[q][2] /\ 2 \in 2 .. Len(list[q])
      BY <2>1, SecondNode, ListEnds DEF Good
    <3>. QED  BY <3>1 DEF Good, Carry
  <2>3. taken' \in [Queues -> Seq(Items)]
    BY <1>4, <2>2 DEF DequeueTake, TypeInv
  <2>4. head' \in [Queues -> Pointers] /\ free' \subseteq Nodes
    BY <1>1, <1>4, ListEnds DEF DequeueTake, TypeInv, Good, localHead
  <2>5. deqPC' \in [Queues -> DeqSteps]
    BY <1>4 DEF DequeueTake, DeqGoto, TypeInv, DeqSteps
  <2>. QED  BY <1>4, <2>3, <2>4, <2>5 DEF DequeueTake, TypeInv, producer
<1>. QED  BY <1>2, <1>3, <1>4 DEF DequeueStep

-------------------------------------------------------------------------------
(* The steps of Enqueue.  The lists change in EnqueueLink only.             *)

LEMMA AllocKeeps ==
  ASSUME NoReuse, TypeInv, NEW list \in [Queues -> Seq(Nodes)], Good(list),
         NEW p \in Producers, NEW s \in Queues, EnqueueAlloc(p, s)
  PROVE  Good(list)'
<1>1. PICK n \in free :
        /\ MayAlloc(n, s)
        /\ free' = free \ {n}
        /\ data' = [data EXCEPT ![n] = [producer |-> p, number |-> sent[p] + 1]]
        /\ local' = [local EXCEPT ![p] = [NoLocals EXCEPT !.queue = s, !.newNode = n]]
  BY DEF EnqueueAlloc
<1>2. /\ \A r \in Producers : r # p => local'[r] = local[r]
      /\ local'[p].localTail = Null /\ local'[p].localNext = Null
      /\ local'[p].queue = s /\ local'[p].newNode = n
  BY <1>1, SetNewNode DEF TypeInv
<1>3. /\ enqPC[p] = "idle" /\ enqPC'[p] = "setNext"
      /\ \A r \in Producers : r # p => enqPC'[r] = enqPC[r]
  BY DEF EnqueueAlloc, EnqGoto, TypeInv
<1>4. UNCHANGED <<head, tail, size, next, deqPC>>
  BY DEF EnqueueAlloc, consumer
<1>5. n \in Nodes /\ data'[n] \in Items /\ \A m \in Nodes : m # n => data'[m] = data[m]
  <2>1. sent[p] \in 0 .. MaxItems /\ sent[p] < MaxItems /\ MaxItems \in Nat
    BY QueueAssumption DEF EnqueueAlloc, TypeInv
  <2>2. sent[p] + 1 \in 1 .. MaxItems
    BY <2>1
  <2>. QED  BY <1>1, <2>2 DEF TypeInv, Items
<1>6. \A q \in Queues : \A i \in 1 .. Len(list[q]) : list[q][i] \in Nodes /\ list[q][i] # n
  BY ListEnds DEF Good, Apart
<1>7. Linked(list)' /\ TailIsIn(list)'
  BY <1>4 DEF Good, Linked, TailIsIn
<1>8. Apart(list)'
  BY <1>1 DEF Good, Apart
<1>9. Carry(list)'
  <2> SUFFICES ASSUME NEW q \in Queues, NEW i \in 2 .. Len(list[q])
               PROVE  data'[list[q][i]] \in Items
    BY DEF Carry
  <2>1. i \in 1 .. Len(list[q])
    BY ListEnds DEF Good
  <2>. QED  BY <1>5, <1>6, <2>1 DEF Good, Carry
<1>10. Counted(list)'
  <2>1. \A q \in Queues : Uncounted(q)' = Uncounted(q)
    BY <1>2, <1>3 DEF Uncounted
  <2>. QED  BY <1>4, <2>1 DEF Good, Counted
<1>11. Sentinels(list)'
  BY <1>2, <1>3, <1>4 DEF Good, Sentinels, Ready, ReadySteps, PrivateSteps
<1>12. ASSUME NEW r \in Producers
       PROVE  LocalInv(r)'
  BY <1>2, <1>3, <1>5 DEF Good, LocalInv, TailSteps
<1>13. ASSUME NEW r \in Producers
       PROVE  NewNodeInv(list, r)'
  <2> USE DEF Private, Ready, ReadySteps
  <2>1. \A r2 \in Producers : Private(r2) /\ r2 # p => local[r2].newNode # n /\ local[r2].newNode \in Nodes
    BY <1>1 DEF Good, NewNodeInv, LocalInv, PrivateSteps
  <2>2. Null.node \notin Nodes
    BY PointerTypes, QueueAssumption
  <2>3. CASE r = p
    <3>1. \A r2 \in Producers : local[r2].localTail.node = n => local[r2].queue # s
      BY <1>1 DEF MayAlloc, NoReuse
    <3>. QED  BY <1>1, <1>2, <1>3, <1>5, <1>6, <2>1, <2>2, <2>3, <3>1 DEF NewNodeInv
  <2>4. CASE r # p
    BY <1>1, <1>2, <1>3, <1>4, <1>5, <2>1, <2>2, <2>4 DEF Good, NewNodeInv
  <2>. QED  BY <2>3, <2>4
<1>14. ASSUME NEW r \in Producers
       PROVE  MovesAhead(list, r)'
  BY <1>2, <1>3, <1>4 DEF Good, MovesAhead, LooksAt, stampAddedNewNode
<1>. QED  BY <1>7, <1>8, <1>9, <1>10, <1>11, <1>12, <1>13, <1>14 DEF Good

LEMMA SetNextKeeps ==
  ASSUME TypeInv, NEW list \in [Queues -> Seq(Nodes)], Good(list),
         NEW p \in Producers, EnqueueSetNext(p)
  PROVE  Good(list)'
<1> DEFINE n == local[p].newNode
<1> DEFINE s == local[p].queue
<1>1. n \in Nodes /\ s \in Queues /\ n \notin free /\ NewNodeInv(list, p) /\ Private(p)
  BY DEF EnqueueSetNext, Good, LocalInv, NewNodeInv, Private, PrivateSteps
<1>2. next'[n] = This(s) /\ \A m \in Nodes : m # n => next'[m] = next[m]
  BY <1>1 DEF EnqueueSetNext, TypeInv
<1>3. /\ enqPC[p] = "setNext" /\ enqPC'[p] = "readTail"
      /\ \A r \in Producers : r # p => enqPC'[r] = enqPC[r]
  BY DEF EnqueueSetNext, EnqGoto, TypeInv
<1>4. UNCHANGED <<head, tail, size, data, free, local, deqPC>>
  BY DEF EnqueueSetNext, consumer
<1>5. \A q \in Queues : \A i \in 1 .. Len(list[q]) :
        list[q][i] \in Nodes /\ list[q][i] # n /\ next'[list[q][i]] = next[list[q][i]]
  BY <1>1, <1>2, ListEnds DEF Good, NewNodeInv
<1>6. \A q \in Queues : Len(list[q]) \in Nat /\ Len(list[q]) > 0
  BY ListEnds DEF Good
<1> HIDE DEF n, s
<1>7. Linked(list)' /\ TailIsIn(list)'
  <2>1. \A q \in Queues : /\ next'[list[q][Len(list[q])]] = next[list[q][Len(list[q])]]
                          /\ \A i \in 1 .. Len(list[q]) - 1 : next'[list[q][i]] = next[list[q][i]]
    BY <1>5, <1>6
  <2>2. Linked(list)'
    BY <1>4, <2>1 DEF Good, Linked
  <2>3. TailIsIn(list)'
    BY <1>4, <2>1 DEF Good, TailIsIn
  <2>. QED  BY <2>2, <2>3
<1>8. Apart(list)' /\ Carry(list)'
  BY <1>4 DEF Good, Apart, Carry
<1>10. Counted(list)'
  <2>1. \A q \in Queues : Uncounted(q)' = Uncounted(q)
    BY <1>3, <1>4 DEF Uncounted
  <2>. QED  BY <1>4, <2>1 DEF Good, Counted
<1>11. Sentinels(list)'
  <2> SUFFICES ASSUME NEW m \in Nodes, NEW q \in Queues, next'[m] = This(q)
               PROVE  \/ m = list[q][Len(list[q])]
                      \/ \E r \in Producers : Ready(r)' /\ local[r].newNode = m /\ local[r].queue = q
    BY <1>4 DEF Sentinels
  <2>1. CASE m = n
    <3>1. q = s
      BY <1>1, <1>2, <2>1, PointerTypes
    <3>. QED  BY <1>3, <2>1, <3>1 DEF Ready, ReadySteps, PrivateSteps, n, s
  <2>2. CASE m # n
    <3>1. \A r \in Producers : Ready(r) => Ready(r)'
      BY <1>3 DEF Ready, ReadySteps, PrivateSteps
    <3>2. next[m] = This(q)
      BY <1>2, <2>2
    <3>. QED  BY <3>1, <3>2 DEF Good, Sentinels
  <2>. QED  BY <2>1, <2>2
<1>12. ASSUME NEW r \in Producers
       PROVE  LocalInv(r)'
  BY <1>3, <1>4 DEF Good, LocalInv, TailSteps
<1>13. ASSUME NEW r \in Producers
       PROVE  NewNodeInv(list, r)'
  <2> USE DEF Private, Ready, ReadySteps
  <2>1. \A r2 \in Producers : Private(r2)' <=> Private(r2)
    BY <1>3 DEF PrivateSteps
  <2>2. CASE r = p
    BY <1>1, <1>2, <1>4, <2>1, <2>2 DEF NewNodeInv, n, s
  <2>3. CASE r # p /\ Private(r)
    <3>1. local[r].newNode \in Nodes /\ local[r].newNode # n
      BY <1>1, <2>3 DEF Good, LocalInv, PrivateSteps, NewNodeInv, n
    <3>. QED  BY <1>2, <1>3, <1>4, <2>1, <2>3, <3>1 DEF Good, NewNodeInv
  <2>. QED  BY <2>1, <2>2, <2>3 DEF NewNodeInv
<1>14. ASSUME NEW r \in Producers
       PROVE  MovesAhead(list, r)'
  <2>1. LocalInv(r) /\ MovesAhead(list, r)
    BY DEF Good
  <2>2. LooksAt(list, r)' = LooksAt(list, r)
    BY <1>4 DEF LooksAt
  <2>3. enqPC[r] \in TailSteps /\ LooksAt(list, r) => next'[local[r].localTail.node] = next[local[r].localTail.node]
    BY <1>5, <2>1 DEF LooksAt, LocalInv, TailSteps
  <2>. QED  BY <1>3, <1>4, <2>1, <2>2, <2>3 DEF MovesAhead, stampAddedNewNode, TailSteps
<1>. QED  BY <1>7, <1>8, <1>10, <1>11, <1>12, <1>13, <1>14 DEF Good

(* A step of p that leaves the lists alone, and the locals of the others,   *)
(* concerns only what p knows of the lists.                                 *)
LEMMA LooksOnly ==
  ASSUME TypeInv, NEW list \in [Queues -> Seq(Nodes)], Good(list), NEW p \in Producers,
         UNCHANGED <<head, size, next, data, free, deqPC>>,
         TailIsIn(list)',
         enqPC[p] \in ReadySteps \/ enqPC[p] = "moveTail",
         enqPC'[p] \in (IF enqPC[p] = "moveTail" THEN {"count"} ELSE ReadySteps),
         \A r \in Producers : r # p => enqPC'[r] = enqPC[r] /\ local'[r] = local[r],
         local'[p].queue = local[p].queue, local'[p].newNode = local[p].newNode,
         local'[p].localTail = local[p].localTail \/ local'[p].localTail = tail[local[p].queue],
         LocalInv(p)', MovesAhead(list, p)'
  PROVE  Good(list)'
<1>1. Linked(list)' /\ Apart(list)' /\ Carry(list)'
  BY DEF Good, Linked, Apart, Carry
<1>2. Counted(list)'
  <2>1. \A q \in Queues : Uncounted(q)' = Uncounted(q)
    BY DEF Uncounted, ReadySteps, PrivateSteps
  <2>. QED  BY <2>1 DEF Good, Counted
<1>3. \A r \in Producers : /\ Ready(r)' <=> Ready(r)
                           /\ Private(r)' <=> Private(r)
                           /\ local'[r].newNode = local[r].newNode
                           /\ local'[r].queue = local[r].queue
  BY DEF Ready, Private, ReadySteps, PrivateSteps
<1>4. Sentinels(list)'
  BY <1>3 DEF Good, Sentinels
<1>5. ASSUME NEW r \in Producers
      PROVE  LocalInv(r)'
  BY DEF Good, LocalInv
<1>6. ASSUME NEW r \in Producers
      PROVE  NewNodeInv(list, r)'
  <2>1. local[p].queue \in Queues
    BY DEF Good, LocalInv, ReadySteps, PrivateSteps
  <2>2. Private(r) => \A i \in 1 .. Len(list[local[p].queue]) : list[local[p].queue][i] # local[r].newNode
    BY <2>1 DEF Good, NewNodeInv
  <2>3. Private(r) => tail[local[p].queue].node # local[r].newNode
    BY <2>1, <2>2, TailIsANode DEF Good
  <2>4. \A r2 \in Producers : Private(r) /\ local'[r2].localTail.node = local[r].newNode =>
          local[r2].queue # local[r].queue
    BY <2>3 DEF Good, NewNodeInv
  <2>. QED  BY <1>3, <2>4 DEF Good, NewNodeInv
<1>7. ASSUME NEW r \in Producers
      PROVE  MovesAhead(list, r)'
  <2>1. CASE r # p
    <3>1. local'[r] = local[r] /\ enqPC'[r] = enqPC[r]
      BY <2>1
    <3>2. stampAddedNewNode(r)' = stampAddedNewNode(r) /\ LooksAt(list, r)' = LooksAt(list, r)
      BY <3>1 DEF stampAddedNewNode, LooksAt
    <3>. QED  BY <3>1, <3>2 DEF Good, MovesAhead
  <2>2. CASE r = p
    BY <2>2
  <2>. QED  BY <2>1, <2>2
<1>. QED  BY <1>1, <1>2, <1>4, <1>5, <1>6, <1>7 DEF Good

LEMMA ReadTailKeeps ==
  ASSUME TypeInv, NEW list \in [Queues -> Seq(Nodes)], Good(list),
         NEW p \in Producers, EnqueueReadTail(p)
  PROVE  Good(list)'
<1>1. local[p].queue \in Queues /\ local[p].newNode \in Nodes
  BY DEF EnqueueReadTail, Good, LocalInv
<1>2. tail[local[p].queue] \in Pointers /\ tail[local[p].queue].node \in Nodes
  <2>1. \A i \in 1 .. Len(list[local[p].queue]) : list[local[p].queue][i] \in Nodes
    BY <1>1, ListEnds DEF Good
  <2>. QED  BY <1>1, <2>1, TailIsANode DEF TypeInv, Good
<1>3. /\ \A r \in Producers : r # p => local'[r] = local[r]
      /\ local'[p].localTail = tail[local[p].queue]
      /\ local'[p].queue = local[p].queue /\ local'[p].newNode = local[p].newNode
  BY <1>2, SetTail DEF EnqueueReadTail, TypeInv
<1>4. /\ enqPC[p] = "readTail" /\ enqPC'[p] = "readNext"
      /\ \A r \in Producers : r # p => enqPC'[r] = enqPC[r]
  BY DEF EnqueueReadTail, EnqGoto, TypeInv
<1>5. UNCHANGED <<head, tail, size, next, data, free, deqPC>>
  BY DEF EnqueueReadTail, consumer
<1>6. TailIsIn(list)'
  BY <1>5 DEF Good, TailIsIn
<1>7. LocalInv(p)' /\ MovesAhead(list, p)'
  BY <1>1, <1>2, <1>3, <1>4 DEF LocalInv, MovesAhead
<1>8. "readTail" \in ReadySteps /\ "readNext" \in ReadySteps /\ "readTail" # "moveTail"
  BY DEF ReadySteps, PrivateSteps
<1>. QED  BY <1>3, <1>4, <1>5, <1>6, <1>7, <1>8, LooksOnly

LEMMA ReadNextKeeps ==
  ASSUME TypeInv, NEW list \in [Queues -> Seq(Nodes)], Good(list),
         NEW p \in Producers, EnqueueReadNext(p)
  PROVE  Good(list)'
<1> DEFINE x == next[local[p].localTail.node]
<1>1. /\ local[p].queue \in Queues /\ local[p].newNode \in Nodes
      /\ local[p].localTail.node \in Nodes /\ x \in Pointers
  BY DEF EnqueueReadNext, Good, LocalInv, TailSteps, TypeInv
<1>2. /\ \A r \in Producers : r # p => local'[r] = local[r]
      /\ local'[p].localTail = local[p].localTail /\ local'[p].localNext = x
      /\ local'[p].queue = local[p].queue /\ local'[p].newNode = local[p].newNode
  BY <1>1, SetNext DEF EnqueueReadNext, TypeInv
<1>3. /\ enqPC[p] = "readNext"
      /\ enqPC'[p] = IF x = This(local[p].queue) THEN "link" ELSE "help"
      /\ \A r \in Producers : r # p => enqPC'[r] = enqPC[r]
  BY <1>2 DEF EnqueueReadNext, EnqGoto, TypeInv
<1>4. UNCHANGED <<head, tail, size, next, data, free, deqPC>>
  BY DEF EnqueueReadNext, consumer
<1>5. TailIsIn(list)'
  BY <1>4 DEF Good, TailIsIn
<1>6. x' = next[local'[p].localTail.node]
  BY <1>4
<1>7. LocalInv(p)' /\ MovesAhead(list, p)'
  BY <1>1, <1>2, <1>3, <1>4 DEF LocalInv, MovesAhead
<1>8. enqPC[p] \in ReadySteps /\ enqPC[p] # "moveTail" /\ enqPC'[p] \in ReadySteps
  BY <1>3 DEF ReadySteps, PrivateSteps
<1>. QED  BY <1>2, <1>3, <1>4, <1>5, <1>7, <1>8, LooksOnly

(* An exchange of tail_ that moves it to the next of a node that it was at. *)
LEMMA TailMoves ==
  ASSUME TypeInv, NEW list \in [Queues -> Seq(Nodes)], Good(list),
         NEW q \in Queues, NEW new \in Pointers, NEW old,
         CompareExchangeTail(q, new, old), UNCHANGED <<head, next, deqPC>>,
         new # This(q),
         (\E i \in 1 .. Len(list[q]) : list[q][i] = old.node) => next[old.node] = new
  PROVE  TailIsIn(list)'
<1>1. /\ \A r \in Queues : r # q \/ tail[q] # old => tail'[r] = tail[r]
      /\ tail[q] = old => tail'[q] = new
  BY CompareExchangeType DEF TypeInv
<1>2. CASE tail[q] # old
  BY <1>1, <1>2 DEF Good, TailIsIn
<1>3. CASE tail[q] = old
  <2>1. PICK i \in 1 .. Len(list[q]) : list[q][i] = old.node
    BY <1>3, TailIsANode DEF Good
  <2>2. next[list[q][i]] = new
    BY <2>1
  <2>3. i \in 1 .. Len(list[q]) - 1
    BY <2>2, ListEnds DEF Good
  <2>4. i + 1 \in 1 .. Len(list[q]) /\ 1 \in 1 .. Len(list[q]) /\ i + 1 # 1 /\ Len(list[q]) > 1
    BY <2>3, ListEnds DEF Good
  <2>5. new.node = list[q][i + 1] /\ head[q].node = list[q][1]
    BY <2>2, <2>3, ListEnds DEF Good
  <2>6. new # head[q]
    BY <2>4, <2>5 DEF Good, Apart
  <2>. QED  BY <1>1, <1>3, <2>2, <2>3, <2>4, <2>6 DEF Good, TailIsIn
<1>. QED  BY <1>2, <1>3

LEMMA MoveTailKeeps ==
  ASSUME TypeInv, NEW list \in [Queues -> Seq(Nodes)], Good(list),
         NEW p \in Producers, EnqueueMoveTail(p)
  PROVE  Good(list)'
<1>1. local[p].queue \in Queues /\ local[p].newNode \in Nodes /\ local[p] \in Locals
  BY DEF EnqueueMoveTail, Good, LocalInv, TypeInv
<1>2. stampAddedNewNode(p) \in Pointers /\ stampAddedNewNode(p) # This(local[p].queue)
  BY <1>1, AddedType, PointerTypes
<1>3. /\ enqPC[p] = "moveTail" /\ enqPC'[p] = "count"
      /\ \A r \in Producers : r # p => enqPC'[r] = enqPC[r]
  BY DEF EnqueueMoveTail, EnqGoto, TypeInv
<1>4. UNCHANGED <<head, size, next, data, free, local, deqPC>>
  BY DEF EnqueueMoveTail, consumer
<1>5. TailIsIn(list)'
  <2>1. CompareExchangeTail(local[p].queue, stampAddedNewNode(p), local[p].localTail)
    BY DEF EnqueueMoveTail
  <2>2. (\E i \in 1 .. Len(list[local[p].queue]) : list[local[p].queue][i] = local[p].localTail.node) =>
          next[local[p].localTail.node] = stampAddedNewNode(p)
    BY <1>3 DEF Good, MovesAhead, LooksAt
  <2>. QED  BY <1>1, <1>2, <1>4, <2>1, <2>2, TailMoves
<1>6. LocalInv(p)' /\ MovesAhead(list, p)'
  BY <1>1, <1>3, <1>4 DEF LocalInv, MovesAhead, TailSteps
<1>. QED  BY <1>3, <1>4, <1>5, <1>6, LooksOnly

LEMMA HelpKeeps ==
  ASSUME TypeInv, NEW list \in [Queues -> Seq(Nodes)], Good(list),
         NEW p \in Producers, EnqueueHelp(p)
  PROVE  Good(list)'
<1>1. /\ local[p].queue \in Queues /\ local[p].newNode \in Nodes
      /\ local[p].localNext \in Pointers /\ local[p].localNext # This(local[p].queue)
  BY DEF EnqueueHelp, Good, LocalInv, TypeInv, Locals
<1>2. /\ enqPC[p] = "help" /\ enqPC'[p] = "readTail"
      /\ \A r \in Producers : r # p => enqPC'[r] = enqPC[r]
  BY DEF EnqueueHelp, EnqGoto, TypeInv
<1>3. UNCHANGED <<head, size, next, data, free, local, deqPC>>
  BY DEF EnqueueHelp, consumer
<1>4. TailIsIn(list)'
  <2>1. CompareExchangeTail(local[p].queue, local[p].localNext, local[p].localTail)
    BY DEF EnqueueHelp
  <2>2. (\E i \in 1 .. Len(list[local[p].queue]) : list[local[p].queue][i] = local[p].localTail.node) =>
          next[local[p].localTail.node] = local[p].localNext
    BY <1>2 DEF Good, MovesAhead, LooksAt
  <2>. QED  BY <1>1, <1>3, <2>1, <2>2, TailMoves
<1>5. LocalInv(p)' /\ MovesAhead(list, p)'
  BY <1>1, <1>2, <1>3 DEF LocalInv, MovesAhead, TailSteps
<1>6. "help" \in ReadySteps /\ "readTail" \in ReadySteps /\ "help" # "moveTail"
  BY DEF ReadySteps, PrivateSteps
<1>. QED  BY <1>2, <1>3, <1>4, <1>5, <1>6, LooksOnly

LEMMA LinkFails ==
  ASSUME TypeInv, NEW list \in [Queues -> Seq(Nodes)], Good(list),
         NEW p \in Producers, EnqueueLink(p),
         next[local[p].localTail.node] # local[p].localNext
  PROVE  Good(list)'
<1>1. local[p].queue \in Queues /\ local[p].newNode \in Nodes
  BY DEF EnqueueLink, Good, LocalInv
<1>2. /\ enqPC[p] = "link" /\ enqPC'[p] = "readTail"
      /\ \A r \in Producers : r # p => enqPC'[r] = enqPC[r]
  BY DEF EnqueueLink, EnqGoto, TypeInv
<1>3. UNCHANGED <<head, tail, size, next, data, free, local, deqPC>>
  BY DEF EnqueueLink, consumer
<1>4. TailIsIn(list)'
  BY <1>3 DEF Good, TailIsIn
<1>5. LocalInv(p)' /\ MovesAhead(list, p)'
  BY <1>1, <1>2, <1>3 DEF LocalInv, MovesAhead, TailSteps
<1>6. "link" \in ReadySteps /\ "readTail" \in ReadySteps /\ "link" # "moveTail"
  BY DEF ReadySteps, PrivateSteps
<1>. QED  BY <1>2, <1>3, <1>4, <1>5, <1>6, LooksOnly

(* The lists after n was added to that of s, place by place.                *)
Appended(list, new, s, n) ==
  /\ new \in [Queues -> Seq(Nodes)]
  /\ \A q \in Queues : q # s => new[q] = list[q]
  /\ Len(new[s]) = Len(list[s]) + 1
  /\ \A i \in 1 .. Len(list[s]) : new[s][i] = list[s][i]
  /\ new[s][Len(list[s]) + 1] = n

LEMMA AppendNode ==
  ASSUME NEW list \in [Queues -> Seq(Nodes)], NEW s \in Queues, NEW n \in Nodes,
         NEW new, new = [list EXCEPT ![s] = Append(@, n)]
  PROVE  Appended(list, new, s, n)
<1> USE DEF Appended
<1>1. list[s] \in Seq(Nodes) /\ Append(list[s], n) \in Seq(Nodes)
  OBVIOUS
<1>2. new[s] = Append(list[s], n) /\ \A q \in Queues : q # s => new[q] = list[q]
  OBVIOUS
<1>3. new \in [Queues -> Seq(Nodes)]
  BY <1>1
<1>. QED  BY <1>1, <1>2, <1>3

(* The node that an exchange finds with the address of the queue in its     *)
(* next is the last of that queue: it is no other producer's new node.      *)
LEMMA LinksLast ==
  ASSUME TypeInv, NEW list \in [Queues -> Seq(Nodes)], Good(list),
         NEW p \in Producers, enqPC[p] = "link",
         next[local[p].localTail.node] = local[p].localNext
  PROVE  /\ local[p].localTail.node \in Nodes
         /\ next[local[p].localTail.node] = This(local[p].queue)
         /\ local[p].localTail.node = list[local[p].queue][Len(list[local[p].queue])]
<1>1. /\ local[p].localTail.node \in Nodes /\ local[p].queue \in Queues
      /\ next[local[p].localTail.node] = This(local[p].queue)
  BY DEF Good, LocalInv, TailSteps
<1>2. ASSUME NEW r \in Producers, Ready(r), local[r].newNode = local[p].localTail.node,
             local[r].queue = local[p].queue
      PROVE  FALSE
  <2>1. Private(r) /\ NewNodeInv(list, r)
    BY <1>2 DEF Good, Ready, Private, ReadySteps
  <2>. QED  BY <1>2, <2>1 DEF NewNodeInv
<1>. QED  BY <1>1, <1>2 DEF Good, Sentinels

LEMMA LinkKeeps ==
  ASSUME TypeInv, NEW list \in [Queues -> Seq(Nodes)], Good(list),
         NEW p \in Producers, EnqueueLink(p),
         next[local[p].localTail.node] = local[p].localNext,
         NEW new, Appended(list, new, local[p].queue, local[p].newNode)
  PROVE  Good(new)'
<1> DEFINE n    == local[p].newNode
           s    == local[p].queue
           last == local[p].localTail.node
           x    == stampAddedNewNode(p)
           len  == Len(list[s])
<1>1. n \in Nodes /\ s \in Queues /\ local[p] \in Locals
  BY DEF EnqueueLink, Good, LocalInv, TypeInv
<1>2. /\ enqPC[p] = "link" /\ enqPC'[p] = "moveTail"
      /\ \A r \in Producers : r # p => enqPC'[r] = enqPC[r]
  BY DEF EnqueueLink, EnqGoto, TypeInv
<1>3. UNCHANGED <<head, tail, size, data, free, local, deqPC>>
  BY DEF EnqueueLink, consumer
<1>4. last \in Nodes /\ next[last] = This(s) /\ last = list[s][len]
  BY <1>2, LinksLast
<1>5. x.node = n
  BY <1>1, AddedType
<1>6. next'[last] = x /\ \A m \in Nodes : m # last => next'[m] = next[m]
  BY <1>4 DEF EnqueueLink, TypeInv
<1>7. /\ n \notin free /\ data[n] \in Items /\ next[n] = This(s)
      /\ \A q \in Queues : \A i \in 1 .. Len(list[q]) : list[q][i] # n
      /\ \A r \in Producers :
           /\ Private(r) /\ r # p => local[r].newNode # n
           /\ local[r].localTail.node = n => local[r].queue # s
  BY <1>2 DEF Good, NewNodeInv, Private, Ready, ReadySteps, PrivateSteps
<1>8. /\ new \in [Queues -> Seq(Nodes)]
      /\ \A q \in Queues : q # s => new[q] = list[q]
      /\ len \in Nat /\ len > 0 /\ Len(new[s]) = len + 1
      /\ \A i \in 1 .. len : new[s][i] = list[s][i]
      /\ new[s][len + 1] = n
  BY <1>1, ListEnds DEF Good, Appended
<1>9. \A q \in Queues : /\ Len(list[q]) \in Nat /\ Len(list[q]) > 0
                        /\ \A i \in 1 .. Len(list[q]) : list[q][i] \in Nodes
  BY ListEnds DEF Good
<1>10. next'[n] = This(s) /\ n # last /\ This(s) # x
  <2>1. len \in 1 .. Len(list[s])
    BY <1>8
  <2>2. n # last
    BY <1>1, <1>4, <1>7, <2>1
  <2>. QED  BY <1>1, <1>5, <1>6, <1>7, <2>2, PointerTypes
(* Nothing before the last node of any list changes.                        *)
<1>11. \A q \in Queues : \A i \in 1 .. Len(list[q]) :
         list[q][i] = last => q = s /\ i = len
  <2>1. len \in 1 .. Len(list[s])
    BY <1>8
  <2>. QED  BY <1>1, <1>4, <2>1 DEF Good, Apart
<1>12. \A q \in Queues : \A i \in 1 .. Len(list[q]) :
         q # s \/ i # len => next'[list[q][i]] = next[list[q][i]]
  BY <1>6, <1>9, <1>11
<1> HIDE DEF n, s, last, x, len
<1>13. Linked(new)'
  <2>1. ASSUME NEW q \in Queues, q # s
        PROVE  /\ new[q] # <<>> /\ new[q][1] = head'[q].node
               /\ \A i \in 1 .. Len(new[q]) - 1 : next'[new[q][i]].node = new[q][i + 1]
               /\ next'[new[q][Len(new[q])]] = This(q)
    <3>1. \A i \in 1 .. Len(list[q]) : next'[list[q][i]] = next[list[q][i]]
      BY <1>12, <2>1
    <3>2. Len(list[q]) \in 1 .. Len(list[q]) /\ \A i \in 1 .. Len(list[q]) - 1 : i \in 1 .. Len(list[q])
      BY <1>9
    <3>3. new[q] = list[q] /\ head'[q] = head[q]
      BY <1>3, <1>8, <2>1
    <3>4. /\ list[q] # <<>> /\ list[q][1] = head[q].node
          /\ \A i \in 1 .. Len(list[q]) - 1 : next[list[q][i]].node = list[q][i + 1]
          /\ next[list[q][Len(list[q])]] = This(q)
      BY DEF Good, Linked
    <3>. QED  BY <3>1, <3>2, <3>3, <3>4
  <2>2. new[s] # <<>> /\ new[s][1] = head'[s].node
    <3>1. 1 \in 1 .. len /\ list[s][1] = head[s].node /\ Len(new[s]) # 0
      BY <1>1, <1>8, ListEnds DEF Good
    <3>2. new[s][1] = list[s][1]
      BY <1>8, <3>1
    <3>3. head'[s] = head[s]
      BY <1>3
    <3>4. new[s] # <<>>
      BY <3>1
    <3>. QED  BY <3>1, <3>2, <3>3, <3>4
  <2>3. ASSUME NEW i \in 1 .. Len(new[s]) - 1
        PROVE  next'[new[s][i]].node = new[s][i + 1]
    <3>1. CASE i = len
      BY <1>4, <1>5, <1>6, <1>8, <3>1
    <3>2. CASE i # len
      <4>1. i \in 1 .. len - 1 /\ i \in 1 .. len /\ i + 1 \in 1 .. len
        BY <1>8, <3>2
      <4>2. next'[list[s][i]] = next[list[s][i]]
        BY <1>1, <1>12, <3>2, <4>1 DEF len
      <4>3. next[list[s][i]].node = list[s][i + 1]
        BY <1>1, <4>1, ListEnds DEF Good, len
      <4>. QED  BY <1>8, <4>1, <4>2, <4>3
    <3>. QED  BY <3>1, <3>2
  <2>4. next'[new[s][Len(new[s])]] = This(s)
    BY <1>8, <1>10
  <2>5. ASSUME NEW q \in Queues
        PROVE  /\ new[q] # <<>> /\ new[q][1] = head'[q].node
               /\ \A i \in 1 .. Len(new[q]) - 1 : next'[new[q][i]].node = new[q][i + 1]
               /\ next'[new[q][Len(new[q])]] = This(q)
    <3>1. CASE q = s
      BY <2>2, <2>3, <2>4, <3>1
    <3>. QED  BY <2>1, <3>1
  <2>. QED  BY <2>5 DEF Linked
<1>14. \A q \in Queues : \A i \in 1 .. Len(new[q]) :
         \/ i \in 1 .. Len(list[q]) /\ new[q][i] = list[q][i]
         \/ q = s /\ i = len + 1 /\ new[q][i] = n
  BY <1>8 DEF len
<1>15. Apart(new)'
  <2>1. ASSUME NEW q \in Queues, NEW i \in 1 .. Len(new[q])
        PROVE  new[q][i] \notin free'
    BY <1>3, <1>7, <1>14 DEF Good, Apart
  <2>2. ASSUME NEW q \in Queues, NEW i \in 1 .. Len(new[q]),
               NEW r \in Queues, NEW j \in 1 .. Len(new[r]), new[q][i] = new[r][j]
        PROVE  q = r /\ i = j
    <3>1. /\ \/ i \in 1 .. Len(list[q]) /\ new[q][i] = list[q][i]
             \/ q = s /\ i = len + 1 /\ new[q][i] = n
          /\ \/ j \in 1 .. Len(list[r]) /\ new[r][j] = list[r][j]
             \/ r = s /\ j = len + 1 /\ new[r][j] = n
      BY <1>14
    <3>. QED  BY <1>7, <2>2, <3>1 DEF Good, Apart
  <2>. QED  BY <2>1, <2>2 DEF Apart
<1>16. Carry(new)'
  <2> SUFFICES ASSUME NEW q \in Queues, NEW i \in 2 .. Len(new[q])
               PROVE  data'[new[q][i]] \in Items
    BY DEF Carry
  <2>1. Len(new[q]) \in Nat /\ Len(list[q]) \in Nat
    BY <1>8, <1>9
  <2>2. i \in 1 .. Len(new[q])
    BY <2>1
  <2>3. i \in 1 .. Len(list[q]) => i \in 2 .. Len(list[q])
    BY <2>1
  <2>. QED  BY <1>3, <1>7, <1>14, <2>2, <2>3 DEF Good, Carry
<1>17. TailIsIn(new)'
  <2>1. ASSUME NEW q \in Queues, NEW i \in 1 .. Len(list[q]) - 1
        PROVE  i \in 1 .. Len(new[q]) - 1 /\ next'[new[q][i]] = next[list[q][i]]
    <3>1. i \in 1 .. Len(list[q]) /\ i # Len(list[q]) /\ Len(list[q]) \in Nat
      BY <1>9
    <3>2. Len(new[q]) \in {Len(list[q]), Len(list[q]) + 1} /\ new[q][i] = list[q][i]
      BY <1>8, <3>1 DEF len
    <3>3. i \in 1 .. Len(new[q]) - 1
      BY <3>1, <3>2
    <3>4. next'[list[q][i]] = next[list[q][i]]
      BY <1>12, <3>1 DEF len
    <3>. QED  BY <3>2, <3>3, <3>4
  <2>2. ASSUME NEW q \in Queues, Len(list[q]) > 1
        PROVE  Len(new[q]) > 1
    <3>1. CASE q = s
      BY <1>8, <2>2, <3>1 DEF len
    <3>. QED  BY <1>8, <2>2, <3>1
  <2>. QED  BY <1>3, <2>1, <2>2 DEF Good, TailIsIn
<1>18. Counted(new)'
  <2> SUFFICES ASSUME NEW q \in Queues
               PROVE  /\ size'[q] >= (IF deqPC'[q] = "empty" THEN -1 ELSE 0)
                      /\ Len(new[q]) - 1 = size'[q] + Cardinality(Uncounted(q)')
                                             + (IF deqPC'[q] = "idle" THEN 0 ELSE 1)
    BY DEF Counted
  <2> DEFINE c == Cardinality(Uncounted(q))
             d == Cardinality(Uncounted(q)')
             e == IF deqPC[q] = "idle" THEN 0 ELSE 1
  <2>1. /\ size'[q] = size[q] /\ deqPC'[q] = deqPC[q]
        /\ size[q] >= (IF deqPC[q] = "empty" THEN -1 ELSE 0)
        /\ Len(list[q]) - 1 = size[q] + c + e
    BY <1>3 DEF Good, Counted
  <2>2. CASE q = s
    <3>1. Uncounted(q)' = Uncounted(q) \union {p} /\ p \notin Uncounted(q)
      BY <1>2, <1>3, <2>2 DEF Uncounted, s
    <3>2. IsFiniteSet(Uncounted(q))
      BY QueueAssumption, FS_Subset DEF Uncounted
    <3>3. c \in Nat /\ d = c + 1
      BY <3>1, <3>2, FS_AddElement, FS_CardinalityType
    <3>4. size[q] \in Int /\ Len(list[q]) \in Nat /\ Len(new[q]) = Len(list[q]) + 1 /\ e \in Int
      BY <1>8, <1>9, <2>2 DEF TypeInv, len
    <3> HIDE DEF c, d, e
    <3>5. Len(new[q]) - 1 = size[q] + d + e
      BY <2>1, <3>3, <3>4
    <3>. QED  BY <2>1, <3>5 DEF d, e
  <2>3. CASE q # s
    <3>1. Uncounted(q)' = Uncounted(q)
      BY <1>2, <1>3, <2>3 DEF Uncounted, s
    <3>. QED  BY <1>8, <2>1, <2>3, <3>1
  <2>. QED  BY <2>2, <2>3
<1>19. Sentinels(new)'
  <2> SUFFICES ASSUME NEW m \in Nodes, NEW q \in Queues, next'[m] = This(q)
               PROVE  \/ m = new[q][Len(new[q])]
                      \/ \E r \in Producers : Ready(r)' /\ local[r].newNode = m /\ local[r].queue = q
    BY <1>3 DEF Sentinels
  <2>1. m # last
    BY <1>1, <1>5, <1>6, PointerTypes
  <2>2. next[m] = This(q)
    BY <1>6, <2>1
  <2>3. CASE m = list[q][Len(list[q])]
    <3>1. q # s
      BY <1>4, <2>1, <2>3 DEF len
    <3>. QED  BY <1>8, <2>3, <3>1
  <2>4. ASSUME NEW r \in Producers, Ready(r), local[r].newNode = m, local[r].queue = q
        PROVE  \/ m = new[q][Len(new[q])]
               \/ \E r2 \in Producers : Ready(r2)' /\ local[r2].newNode = m /\ local[r2].queue = q
    <3>1. CASE r = p
      BY <1>8, <2>4, <3>1 DEF n, s
    <3>2. CASE r # p
      BY <1>2, <2>4, <3>2 DEF Ready
    <3>. QED  BY <3>1, <3>2
  <2>. QED  BY <2>2, <2>3, <2>4 DEF Good, Sentinels
<1>20. ASSUME NEW r \in Producers
       PROVE  LocalInv(r)'
  BY <1>2, <1>3 DEF Good, LocalInv, TailSteps
<1>21. ASSUME NEW r \in Producers
       PROVE  NewNodeInv(new, r)'
  <2>1. \A r2 \in Producers : Private(r2)' <=> Private(r2) /\ r2 # p
    BY <1>2 DEF Private, PrivateSteps
  <2>2. CASE ~Private(r) \/ r = p
    BY <2>1, <2>2 DEF NewNodeInv
  <2>3. CASE Private(r) /\ r # p
    <3>1. NewNodeInv(list, r) /\ local[r].newNode \in Nodes /\ local[r].newNode # n
      BY <1>7, <2>3 DEF Good, LocalInv, Private, PrivateSteps
    <3>2. \A q \in Queues : \A i \in 1 .. Len(new[q]) : new[q][i] # local[r].newNode
      <4>1. \A q \in Queues : \A i \in 1 .. Len(list[q]) : list[q][i] # local[r].newNode
        BY <2>3, <3>1 DEF NewNodeInv
      <4>. QED  BY <1>14, <3>1, <4>1
    <3>3. local[r].newNode # last
      <4>1. len \in 1 .. Len(list[s])
        BY <1>8 DEF len
      <4>. QED  BY <1>1, <1>4, <2>3, <3>1, <4>1 DEF NewNodeInv
    <3>4. Ready(r)' => Ready(r)
      BY <1>2, <2>3 DEF Ready
    <3>. QED  BY <1>3, <1>6, <2>1, <2>3, <3>1, <3>2, <3>3, <3>4 DEF NewNodeInv
  <2>. QED  BY <2>2, <2>3
<1>22. ASSUME NEW r \in Producers
       PROVE  MovesAhead(new, r)'
  <2> DEFINE y == local[r].localTail.node
  <2>1. LocalInv(r) /\ MovesAhead(list, r) /\ local[r] \in Locals
    BY DEF Good, TypeInv
  <2>2. stampAddedNewNode(r)' = stampAddedNewNode(r)
    BY <1>3 DEF stampAddedNewNode
  <2>3. CASE r = p
    BY <1>2, <1>3, <1>6, <2>2, <2>3 DEF MovesAhead, last, x
  <2>4. CASE r # p /\ enqPC[r] \in {"moveTail", "help"} /\ LooksAt(new, r)'
    <3>1. local[r].queue \in Queues /\ y \in Nodes /\ local[r].newNode \in Nodes
      BY <2>1, <2>4 DEF LocalInv, TailSteps
    <3>2. PICK i \in 1 .. Len(new[local[r].queue]) : new[local[r].queue][i] = y
      BY <1>3, <2>4 DEF LooksAt
    <3>3. i \in 1 .. Len(list[local[r].queue]) /\ list[local[r].queue][i] = y
      BY <1>7, <1>14, <3>1, <3>2
    <3>4. LooksAt(list, r)
      BY <3>3 DEF LooksAt
    <3>5. y # last
      <4>1. SUFFICES ASSUME y = last
                     PROVE  FALSE
        OBVIOUS
      <4>2. local[r].queue = s
        BY <1>11, <3>1, <3>3, <4>1
      <4>3. enqPC[r] = "moveTail" => stampAddedNewNode(r) # This(s)
        BY <1>1, <2>1, <3>1, AddedType, PointerTypes
      <4>. QED  BY <1>4, <2>1, <2>4, <3>4, <4>1, <4>2, <4>3 DEF MovesAhead, LocalInv
    <3>6. next'[y] = next[y]
      BY <1>6, <3>1, <3>5
    <3>. QED  BY <1>2, <1>3, <2>1, <2>2, <2>4, <3>4, <3>6 DEF MovesAhead
  <2>5. CASE r # p /\ ~(enqPC[r] \in {"moveTail", "help"} /\ LooksAt(new, r)')
    BY <1>2, <2>5 DEF MovesAhead
  <2>. QED  BY <2>3, <2>4, <2>5
<1>. QED  BY <1>13, <1>15, <1>16, <1>17, <1>18, <1>19, <1>20, <1>21, <1>22 DEF Good

LEMMA CountKeeps ==
  ASSUME TypeInv, NEW list \in [Queues -> Seq(Nodes)], Good(list),
         NEW p \in Producers, EnqueueCount(p)
  PROVE  Good(list)'
<1>1. local[p].queue \in Queues /\ enqPC[p] = "count"
  BY DEF EnqueueCount, Good, LocalInv
<1>2. /\ enqPC'[p] = "idle"
      /\ \A r \in Producers : r # p => enqPC'[r] = enqPC[r] /\ local'[r] = local[r]
  BY DEF EnqueueCount, EnqGoto, TypeInv
<1>3. UNCHANGED <<head, tail, next, data, free, deqPC>>
  BY DEF EnqueueCount, consumer
<1>4. /\ local'[p].queue = NULL /\ local'[p].localTail.node = NULL
      /\ size'[local[p].queue] = size[local[p].queue] + 1
      /\ \A q \in Queues : q # local[p].queue => size'[q] = size[q]
  BY <1>1, PointerTypes DEF EnqueueCount, TypeInv, NoLocals
<1>5. Linked(list)' /\ Apart(list)' /\ Carry(list)' /\ TailIsIn(list)'
  BY <1>3 DEF Good, Linked, Apart, Carry, TailIsIn
<1>6. Counted(list)'
  <2> SUFFICES ASSUME NEW q \in Queues
               PROVE  /\ size'[q] >= (IF deqPC'[q] = "empty" THEN -1 ELSE 0)
                      /\ Len(list[q]) - 1 = size'[q] + Cardinality(Uncounted(q)')
                                             + (IF deqPC'[q] = "idle" THEN 0 ELSE 1)
    BY DEF Counted
  <2> DEFINE c == Cardinality(Uncounted(q))
             d == Cardinality(Uncounted(q)')
             e == IF deqPC[q] = "idle" THEN 0 ELSE 1
             b == IF deqPC[q] = "empty" THEN -1 ELSE 0
  <2>1. /\ deqPC'[q] = deqPC[q] /\ size[q] >= b
        /\ Len(list[q]) - 1 = size[q] + c + e
    BY <1>3 DEF Good, Counted
  <2>2. size[q] \in Int /\ Len(list[q]) \in Nat /\ e \in Int /\ b \in Int
    BY ListEnds DEF Good, TypeInv
  <2>3. CASE q = local[p].queue
    <3>1. Uncounted(q)' = Uncounted(q) \ {p} /\ p \in Uncounted(q)
      BY <1>1, <1>2, <2>3 DEF Uncounted
    <3>2. IsFiniteSet(Uncounted(q))
      BY QueueAssumption, FS_Subset DEF Uncounted
    <3>3. c \in Nat /\ d = c - 1
      BY <3>1, <3>2, FS_RemoveElement, FS_CardinalityType
    <3>4. size'[q] = size[q] + 1
      BY <1>4, <2>3
    <3> HIDE DEF c, d, e, b
    <3>5. Len(list[q]) - 1 = size'[q] + d + e /\ size'[q] >= b
      BY <2>1, <2>2, <3>3, <3>4
    <3>. QED  BY <2>1, <3>5 DEF d, e, b
  <2>4. CASE q # local[p].queue
    <3>1. Uncounted(q)' = Uncounted(q)
      <4>1. p \notin Uncounted(q)' /\ p \notin Uncounted(q)
        BY <1>2, <2>4 DEF Uncounted
      <4>. QED  BY <1>2, <4>1 DEF Uncounted
    <3>. QED  BY <1>4, <2>1, <2>4, <3>1
  <2>. QED  BY <2>3, <2>4
<1>7. Sentinels(list)'
  <2>1. \A r \in Producers : Ready(r) => Ready(r)' /\ local'[r] = local[r]
    BY <1>1, <1>2 DEF Ready, ReadySteps, PrivateSteps
  <2>. QED  BY <1>3, <2>1 DEF Good, Sentinels
<1>8. ASSUME NEW r \in Producers
      PROVE  LocalInv(r)'
  BY <1>2, <1>3 DEF Good, LocalInv, TailSteps
<1>9. ASSUME NEW r \in Producers
      PROVE  NewNodeInv(list, r)'
  <2>1. \A r2 \in Producers : Private(r2)' => Private(r2) /\ r2 # p /\ (Ready(r2)' <=> Ready(r2))
    BY <1>2 DEF Private, Ready, ReadySteps, PrivateSteps
  <2>2. CASE Private(r)'
    <3>1. NewNodeInv(list, r) /\ local[r].newNode # NULL
      BY <2>1, <2>2, PointerTypes DEF Good, LocalInv, Private, PrivateSteps
    <3>. QED  BY <1>2, <1>3, <1>4, <2>1, <2>2, <3>1 DEF NewNodeInv
  <2>. QED  BY <2>2 DEF NewNodeInv
<1>10. ASSUME NEW r \in Producers
       PROVE  MovesAhead(list, r)'
  <2>1. CASE r # p
    <3>1. local'[r] = local[r] /\ enqPC'[r] = enqPC[r]
      BY <1>2, <2>1
    <3>2. stampAddedNewNode(r)' = stampAddedNewNode(r) /\ LooksAt(list, r)' = LooksAt(list, r)
      BY <3>1 DEF stampAddedNewNode, LooksAt
    <3>. QED  BY <1>3, <3>1, <3>2 DEF Good, MovesAhead
  <2>2. CASE r = p
    BY <1>2, <2>2 DEF MovesAhead
  <2>. QED  BY <2>1, <2>2
<1>. QED  BY <1>5, <1>6, <1>7, <1>8, <1>9, <1>10 DEF Good

-------------------------------------------------------------------------------
(* The steps of Dequeue.  The lists change in DequeueTake only.             *)

(* What the producers know is kept by a step that takes nodes from lists    *)
(* and gives them to the pool.                                              *)
LEMMA ProducersKeep ==
  ASSUME TypeInv, NEW list \in [Queues -> Seq(Nodes)], NEW new, Good(list),
         UNCHANGED <<next, data, producer>>,
         \A q \in Queues : \A i \in 1 .. Len(new[q]) :
           \E j \in 1 .. Len(list[q]) : list[q][j] = new[q][i],
         \A m \in free' \ free : \E q \in Queues : \E i \in 1 .. Len(list[q]) : list[q][i] = m,
         NEW r \in Producers
  PROVE  LocalInv(r)' /\ NewNodeInv(new, r)' /\ MovesAhead(new, r)'
<1>1. UNCHANGED <<enqPC, local>>
  BY DEF producer
<1>2. LocalInv(r)'
  BY <1>1 DEF Good, LocalInv
<1>3. NewNodeInv(new, r)'
  <2>1. CASE Private(r)
    <3>1. NewNodeInv(list, r)
      BY DEF Good
    <3>2. \A q \in Queues : \A i \in 1 .. Len(list[q]) : list[q][i] # local[r].newNode
      BY <2>1, <3>1 DEF NewNodeInv
    <3>3. local[r].newNode \notin free'
      BY <2>1, <3>1, <3>2 DEF NewNodeInv
    <3>4. \A q \in Queues : \A i \in 1 .. Len(new[q]) : new[q][i] # local[r].newNode
      BY <3>2
    <3>. QED  BY <1>1, <3>1, <3>3, <3>4 DEF NewNodeInv, Private, Ready
  <2>2. CASE ~Private(r)
    BY <1>1, <2>2 DEF NewNodeInv, Private
  <2>. QED  BY <2>1, <2>2
<1>4. MovesAhead(new, r)'
  <2>1. LocalInv(r) /\ MovesAhead(list, r)
    BY DEF Good
  <2>2. stampAddedNewNode(r)' = stampAddedNewNode(r)
    BY <1>1 DEF stampAddedNewNode
  <2>3. enqPC[r] \in {"moveTail", "help"} /\ LooksAt(new, r)' => LooksAt(list, r)
    BY <1>1, <2>1 DEF LooksAt, LocalInv
  <2>. QED  BY <1>1, <2>1, <2>2, <2>3 DEF MovesAhead
<1>. QED  BY <1>2, <1>3, <1>4

LEMMA SizeKeeps ==
  ASSUME TypeInv, NEW list \in [Queues -> Seq(Nodes)], Good(list), NEW q \in Queues,
         DequeueReserve(q) \/ DequeueEmpty(q)
  PROVE  Good(list)'
<1>1. UNCHANGED <<head, tail, next, data, free, producer>>
  BY DEF DequeueReserve, DequeueEmpty
<1>2. UNCHANGED <<enqPC, local>>
  BY <1>1 DEF producer
<1>3. /\ \A r \in Queues : r # q => size'[r] = size[r] /\ deqPC'[r] = deqPC[r]
      /\ \/ /\ deqPC[q] = "idle" /\ size'[q] = size[q] - 1
            /\ deqPC'[q] = IF size'[q] < 0 THEN "empty" ELSE "read"
         \/ /\ deqPC[q] = "empty" /\ size'[q] = size[q] + 1
            /\ deqPC'[q] = "idle"
  BY DEF DequeueReserve, DequeueEmpty, DeqGoto, TypeInv
<1>4. Linked(list)' /\ Apart(list)' /\ Carry(list)'
  BY <1>1 DEF Good, Linked, Apart, Carry
<1>5. TailIsIn(list)'
  <2>1. \A r \in Queues : deqPC'[r] = "take" => deqPC[r] = "take"
    BY <1>3
  <2>. QED  BY <1>1, <2>1 DEF Good, TailIsIn
<1>6. Counted(list)'
  <2> SUFFICES ASSUME NEW r \in Queues
               PROVE  /\ size'[r] >= (IF deqPC'[r] = "empty" THEN -1 ELSE 0)
                      /\ Len(list[r]) - 1 = size'[r] + Cardinality(Uncounted(r)')
                                             + (IF deqPC'[r] = "idle" THEN 0 ELSE 1)
    BY DEF Counted
  <2> DEFINE c == Cardinality(Uncounted(r))
  <2>1. /\ size[r] >= (IF deqPC[r] = "empty" THEN -1 ELSE 0)
        /\ Len(list[r]) - 1 = size[r] + c + (IF deqPC[r] = "idle" THEN 0 ELSE 1)
    BY DEF Good, Counted
  <2>2. Uncounted(r)' = Uncounted(r)
    BY <1>2 DEF Uncounted
  <2>3. size[r] \in Int /\ Len(list[r]) \in Nat
    BY ListEnds DEF Good, TypeInv
  <2>4. c \in Nat
    BY QueueAssumption, FS_Subset, FS_CardinalityType DEF Uncounted
  <2>5. Cardinality(Uncounted(r)') = c
    BY <2>2
  <2> HIDE DEF c
  <2>6. CASE r = q
    <3>1. CASE /\ deqPC[q] = "idle" /\ size'[q] = size[q] - 1
               /\ deqPC'[q] = IF size'[q] < 0 THEN "empty" ELSE "read"
      <4>1. size[r] \in Nat /\ size'[r] = size[r] - 1 /\ Len(list[r]) - 1 = size[r] + c
        <5>1. deqPC[r] = "idle" /\ size'[r] = size[r] - 1
          BY <2>6, <3>1
        <5>2. size[r] >= 0 /\ Len(list[r]) - 1 = size[r] + c + 0
          BY <2>1, <5>1
        <5>3. Len(list[r]) - 1 = size[r] + c
          BY <2>3, <2>4, <5>2
        <5>4. size[r] \in Nat
          BY <2>3, <5>2
        <5>. QED  BY <5>1, <5>3, <5>4
      <4>2. size'[r] \in Int /\ size'[r] >= -1
        BY <4>1
      <4>3. Len(list[r]) - 1 = size'[r] + c + 1
        BY <2>3, <2>4, <4>1
      <4>4. deqPC'[r] = "empty" \/ (deqPC'[r] = "read" /\ size'[r] >= 0)
        BY <2>6, <3>1, <4>2
      <4>. QED  BY <2>5, <4>2, <4>3, <4>4
    <3>2. CASE deqPC[q] = "empty" /\ size'[q] = size[q] + 1 /\ deqPC'[q] = "idle"
      <4>1. size[r] >= -1 /\ size'[r] = size[r] + 1 /\ Len(list[r]) - 1 = size[r] + c + 1
        BY <2>1, <2>6, <3>2
      <4>2. size'[r] >= 0 /\ Len(list[r]) - 1 = size'[r] + c
        BY <2>3, <2>4, <4>1
      <4>. QED  BY <2>3, <2>4, <2>5, <2>6, <3>2, <4>1, <4>2
    <3>. QED  BY <1>3, <3>1, <3>2
  <2>7. CASE r # q
    BY <1>3, <2>1, <2>5, <2>7
  <2>. QED  BY <2>6, <2>7
<1>7. Sentinels(list)'
  BY <1>1, <1>2 DEF Good, Sentinels, Ready
<1>8. \A r \in Producers : LocalInv(r)' /\ NewNodeInv(list, r)' /\ MovesAhead(list, r)'
  <2>1. \A r \in Queues : \A i \in 1 .. Len(list[r]) : \E j \in 1 .. Len(list[r]) : list[r][j] = list[r][i]
    OBVIOUS
  <2>2. free' \ free = {}
    BY <1>1
  <2>. QED  BY <1>1, <2>1, <2>2, ProducersKeep
<1>. QED  BY <1>4, <1>5, <1>6, <1>7, <1>8 DEF Good

LEMMA ReadKeeps ==
  ASSUME TypeInv, NEW list \in [Queues -> Seq(Nodes)], Good(list), NEW q \in Queues,
         DequeueRead(q)
  PROVE  Good(list)'
<1>1. UNCHANGED <<head, size, next, data, free, producer>>
  BY DEF DequeueRead
<1>2. /\ deqPC[q] = "read" /\ deqPC'[q] = "take"
      /\ \A r \in Queues : r # q => deqPC'[r] = deqPC[r]
  BY DEF DequeueRead, DeqGoto, TypeInv
<1>3. /\ nextOfHead(q) \in Pointers /\ Len(list[q]) > 1
      /\ nextOfHead(q) = next[list[q][1]] /\ nextOfHead(q).node = list[q][2]
  BY SecondNode DEF DequeueRead, Good
<1>4. Linked(list)' /\ Apart(list)' /\ Carry(list)'
  BY <1>1 DEF Good, Linked, Apart, Carry
<1>5. TailIsIn(list)'
  <2>1. CompareExchangeTail(q, nextOfHead(q), head[q])
    BY DEF DequeueRead, localHead
  <2>2. /\ \A r \in Queues : r # q \/ tail[q] # head[q] => tail'[r] = tail[r]
        /\ tail[q] = head[q] => tail'[q] = nextOfHead(q)
    BY <1>3, <2>1, CompareExchangeType DEF TypeInv
  <2>3. nextOfHead(q) # head[q]
    <3>1. 1 \in 1 .. Len(list[q]) /\ 2 \in 1 .. Len(list[q]) /\ list[q][1] = head[q].node
      BY <1>3, ListEnds DEF Good
    <3>. QED  BY <1>3, <3>1 DEF Good, Apart
  <2>4. ASSUME NEW r \in Queues
        PROVE  /\ tail'[r] = head'[r] \/ \E i \in 1 .. Len(list[r]) - 1 : tail'[r] = next'[list[r][i]]
               /\ deqPC'[r] = "take" => tail'[r] # head'[r] /\ Len(list[r]) > 1
    <3>1. CASE r # q
      BY <1>1, <1>2, <2>2, <3>1 DEF Good, TailIsIn
    <3>2. CASE r = q /\ tail[q] = head[q]
      <4>1. 1 \in 1 .. Len(list[q]) - 1
        BY <1>3, ListEnds DEF Good
      <4>. QED  BY <1>1, <1>3, <2>2, <2>3, <3>2, <4>1
    <3>3. CASE r = q /\ tail[q] # head[q]
      BY <1>1, <1>3, <2>2, <3>3 DEF Good, TailIsIn
    <3>. QED  BY <3>1, <3>2, <3>3
  <2>. QED  BY <2>4 DEF TailIsIn
<1>6. UNCHANGED <<enqPC, local>>
  BY <1>1 DEF producer
<1>7. Counted(list)'
  <2>1. \A r \in Queues : /\ Uncounted(r)' = Uncounted(r)
                          /\ deqPC'[r] = "empty" <=> deqPC[r] = "empty"
                          /\ deqPC'[r] = "idle" <=> deqPC[r] = "idle"
    BY <1>2, <1>6 DEF Uncounted
  <2>. QED  BY <1>1, <2>1 DEF Good, Counted
<1>8. Sentinels(list)'
  BY <1>1, <1>6 DEF Good, Sentinels, Ready
<1>9. \A r \in Producers : LocalInv(r)' /\ NewNodeInv(list, r)' /\ MovesAhead(list, r)'
  <2>1. \A r \in Queues : \A i \in 1 .. Len(list[r]) : \E j \in 1 .. Len(list[r]) : list[r][j] = list[r][i]
    OBVIOUS
  <2>2. free' \ free = {}
    BY <1>1
  <2>. QED  BY <1>1, <2>1, <2>2, ProducersKeep
<1>. QED  BY <1>4, <1>5, <1>7, <1>8, <1>9 DEF Good

(* The lists after the first of q was taken off, place by place.            *)
Shifted(list, new, q) ==
  /\ new \in [Queues -> Seq(Nodes)]
  /\ \A r \in Queues : r # q => new[r] = list[r]
  /\ Len(new[q]) = Len(list[q]) - 1
  /\ \A i \in 1 .. Len(list[q]) - 1 : new[q][i] = list[q][i + 1]

LEMMA TailOfList ==
  ASSUME NEW list \in [Queues -> Seq(Nodes)], NEW q \in Queues, list[q] # <<>>,
         NEW new, new = [list EXCEPT ![q] = Tail(@)]
  PROVE  Shifted(list, new, q)
<1>1. list[q] \in Seq(Nodes) /\ Tail(list[q]) \in Seq(Nodes)
  OBVIOUS
<1>2. new[q] = Tail(list[q]) /\ \A r \in Queues : r # q => new[r] = list[r]
  OBVIOUS
<1>3. new \in [Queues -> Seq(Nodes)]
  BY <1>1
<1>. QED  BY <1>1, <1>2, <1>3 DEF Shifted

LEMMA TakeKeeps ==
  ASSUME TypeInv, NEW list \in [Queues -> Seq(Nodes)], Good(list), NEW q \in Queues,
         DequeueTake(q), NEW new, Shifted(list, new, q)
  PROVE  Good(new)'
<1>1. UNCHANGED <<tail, size, next, data, producer>>
  BY DEF DequeueTake
<1>2. UNCHANGED <<enqPC, local>>
  BY <1>1 DEF producer
<1>3. /\ deqPC[q] = "take" /\ deqPC'[q] = "idle"
      /\ \A r \in Queues : r # q => deqPC'[r] = deqPC[r]
  BY DEF DequeueTake, DeqGoto, TypeInv
<1>4. tail[q] # head[q] /\ Len(list[q]) > 1
  BY <1>3 DEF Good, TailIsIn
<1>5. nextOfHead(q) = next[list[q][1]] /\ nextOfHead(q).node = list[q][2]
  BY <1>4, SecondNode DEF Good
<1>6. /\ head'[q] = next[list[q][1]] /\ head'[q].node = list[q][2]
      /\ \A r \in Queues : r # q => head'[r] = head[r]
      /\ free' = free \union {list[q][1]}
  BY <1>5, ListEnds DEF DequeueTake, TypeInv, localHead, Good
<1>7. /\ new \in [Queues -> Seq(Nodes)]
      /\ \A r \in Queues : r # q => new[r] = list[r]
      /\ Len(new[q]) = Len(list[q]) - 1
      /\ \A i \in 1 .. Len(list[q]) - 1 : new[q][i] = list[q][i + 1]
  BY DEF Shifted
<1>8. \A r \in Queues : /\ Len(list[r]) \in Nat /\ Len(list[r]) > 0
                        /\ \A i \in 1 .. Len(list[r]) : list[r][i] \in Nodes
  BY ListEnds DEF Good
<1>9. /\ 1 \in 1 .. Len(list[q]) /\ 2 \in 1 .. Len(list[q]) /\ 1 \in 1 .. Len(list[q]) - 1
      /\ Len(new[q]) > 0 /\ Len(new[q]) \in Nat
  BY <1>4, <1>7, <1>8
<1>10. ASSUME NEW i \in 1 .. Len(new[q])
       PROVE  /\ i + 1 \in 1 .. Len(list[q]) /\ i + 1 # 1 /\ i + 1 \in 2 .. Len(list[q])
              /\ new[q][i] = list[q][i + 1]
              /\ i \in 1 .. Len(new[q]) - 1 => i + 1 \in 1 .. Len(list[q]) - 1
  BY <1>7, <1>8
<1>11. Linked(new)'
  <2> SUFFICES ASSUME NEW r \in Queues
               PROVE  /\ new[r] # <<>> /\ new[r][1] = head'[r].node
                      /\ \A i \in 1 .. Len(new[r]) - 1 : next[new[r][i]].node = new[r][i + 1]
                      /\ next[new[r][Len(new[r])]] = This(r)
    BY <1>1 DEF Linked
  <2>1. CASE r # q
    <3>1. new[r] = list[r] /\ head'[r] = head[r]
      BY <1>6, <1>7, <2>1
    <3>2. /\ list[r] # <<>> /\ list[r][1] = head[r].node
          /\ \A i \in 1 .. Len(list[r]) - 1 : next[list[r][i]].node = list[r][i + 1]
          /\ next[list[r][Len(list[r])]] = This(r)
      BY DEF Good, Linked
    <3>. QED  BY <3>1, <3>2
  <2>2. CASE r = q
    <3>1. new[q] # <<>> /\ new[q][1] = head'[q].node
      BY <1>6, <1>7, <1>9
    <3>2. ASSUME NEW i \in 1 .. Len(new[q]) - 1
          PROVE  next[new[q][i]].node = new[q][i + 1]
      <4>1. i \in 1 .. Len(new[q]) /\ i + 1 \in 1 .. Len(new[q])
        BY <1>9
      <4>2. i + 1 \in 1 .. Len(list[q]) - 1
        BY <1>10, <4>1
      <4>3. next[list[q][i + 1]].node = list[q][i + 1 + 1]
        BY <4>2, ListEnds DEF Good
      <4>. QED  BY <1>10, <4>1, <4>3
    <3>3. next[new[q][Len(new[q])]] = This(q)
      <4>1. Len(new[q]) \in 1 .. Len(new[q]) /\ Len(new[q]) + 1 = Len(list[q])
        BY <1>7, <1>8, <1>9
      <4>2. new[q][Len(new[q])] = list[q][Len(list[q])]
        BY <1>10, <4>1
      <4>. QED  BY <4>2, ListEnds DEF Good
    <3>. QED  BY <2>2, <3>1, <3>2, <3>3
  <2>. QED  BY <2>1, <2>2
(* A place in the new lists is one in the old ones, and not the old dummy.  *)
<1>12. ASSUME NEW r \in Queues, NEW i \in 1 .. Len(new[r])
       PROVE  \E k \in 1 .. Len(list[r]) :
                /\ new[r][i] = list[r][k]
                /\ r = q => k = i + 1
                /\ r # q => k = i
  BY <1>7, <1>10
<1>13. Apart(new)'
  <2>1. ASSUME NEW r \in Queues, NEW i \in 1 .. Len(new[r])
        PROVE  new[r][i] \notin free'
    <3>1. PICK k \in 1 .. Len(list[r]) :
             new[r][i] = list[r][k] /\ (r = q => k = i + 1) /\ (r # q => k = i)
      BY <1>12
    <3>2. list[r][k] \notin free
      BY DEF Good, Apart
    <3>3. r # q \/ k # 1
      BY <1>10, <3>1
    <3>4. list[r][k] # list[q][1]
      BY <1>9, <3>3 DEF Good, Apart
    <3>. QED  BY <1>6, <3>1, <3>2, <3>4
  <2>2. ASSUME NEW r \in Queues, NEW i \in 1 .. Len(new[r]),
               NEW s \in Queues, NEW j \in 1 .. Len(new[s]), new[r][i] = new[s][j]
        PROVE  r = s /\ i = j
    <3>1. PICK k \in 1 .. Len(list[r]) :
             new[r][i] = list[r][k] /\ (r = q => k = i + 1) /\ (r # q => k = i)
      BY <1>12
    <3>2. PICK m \in 1 .. Len(list[s]) :
             new[s][j] = list[s][m] /\ (s = q => m = j + 1) /\ (s # q => m = j)
      BY <1>12
    <3>3. r = s /\ k = m
      <4>1. list[r][k] = list[s][m]
        BY <2>2, <3>1, <3>2
      <4>. QED  BY <4>1 DEF Good, Apart
    <3>4. i \in Int /\ j \in Int
      OBVIOUS
    <3>. QED  BY <3>1, <3>2, <3>3, <3>4
  <2>. QED  BY <2>1, <2>2 DEF Apart
<1>14. Carry(new)'
  <2> SUFFICES ASSUME NEW r \in Queues, NEW i \in 2 .. Len(new[r])
               PROVE  data[new[r][i]] \in Items
    BY <1>1 DEF Carry
  <2>1. CASE r # q
    BY <1>7, <2>1 DEF Good, Carry
  <2>2. CASE r = q
    <3>1. i \in 1 .. Len(new[q])
      BY <1>9, <2>2
    <3>2. i + 1 \in 2 .. Len(list[q]) /\ new[q][i] = list[q][i + 1]
      BY <1>10, <3>1
    <3>. QED  BY <2>2, <3>2 DEF Good, Carry
  <2>. QED  BY <2>1, <2>2
<1>15. TailIsIn(new)'
  <2> SUFFICES ASSUME NEW r \in Queues
               PROVE  /\ tail[r] = head'[r] \/ \E i \in 1 .. Len(new[r]) - 1 : tail[r] = next[new[r][i]]
                      /\ deqPC'[r] = "take" => tail[r] # head'[r] /\ Len(new[r]) > 1
    BY <1>1 DEF TailIsIn
  <2>1. CASE r # q
    <3>1. new[r] = list[r] /\ head'[r] = head[r] /\ deqPC'[r] = deqPC[r]
      BY <1>3, <1>6, <1>7, <2>1
    <3>2. /\ tail[r] = head[r] \/ \E i \in 1 .. Len(list[r]) - 1 : tail[r] = next[list[r][i]]
          /\ deqPC[r] = "take" => tail[r] # head[r] /\ Len(list[r]) > 1
      BY DEF Good, TailIsIn
    <3>. QED  BY <3>1, <3>2
  <2>2. CASE r = q
    <3>1. PICK i \in 1 .. Len(list[q]) - 1 : tail[q] = next[list[q][i]]
      BY <1>4 DEF Good, TailIsIn
    <3>2. CASE i = 1
      BY <1>3, <1>6, <2>2, <3>1, <3>2
    <3>3. CASE i # 1
      <4>1. i - 1 \in 1 .. Len(new[q]) - 1 /\ i - 1 \in 1 .. Len(new[q]) /\ i - 1 + 1 = i
        BY <1>7, <1>8, <3>3
      <4>2. new[q][i - 1] = list[q][i]
        BY <1>10, <4>1
      <4>. QED  BY <1>3, <2>2, <3>1, <4>1, <4>2
    <3>. QED  BY <3>2, <3>3
  <2>. QED  BY <2>1, <2>2
<1>16. Counted(new)'
  <2> SUFFICES ASSUME NEW r \in Queues
               PROVE  /\ size[r] >= (IF deqPC'[r] = "empty" THEN -1 ELSE 0)
                      /\ Len(new[r]) - 1 = size[r] + Cardinality(Uncounted(r)')
                                             + (IF deqPC'[r] = "idle" THEN 0 ELSE 1)
    BY <1>1 DEF Counted
  <2> DEFINE c == Cardinality(Uncounted(r))
  <2>1. /\ size[r] >= (IF deqPC[r] = "empty" THEN -1 ELSE 0)
        /\ Len(list[r]) - 1 = size[r] + c + (IF deqPC[r] = "idle" THEN 0 ELSE 1)
    BY DEF Good, Counted
  <2>2. Cardinality(Uncounted(r)') = c
    <3>1. Uncounted(r)' = Uncounted(r)
      BY <1>2 DEF Uncounted
    <3>. QED  BY <3>1
  <2>3. size[r] \in Int /\ Len(list[r]) \in Nat
    BY ListEnds DEF Good, TypeInv
  <2>4. c \in Nat
    BY QueueAssumption, FS_Subset, FS_CardinalityType DEF Uncounted
  <2> HIDE DEF c
  <2>5. CASE r = q
    <3>1. size[q] >= 0 /\ Len(list[q]) - 1 = size[q] + c + 1
      BY <1>3, <2>1, <2>5
    <3>2. Len(new[q]) - 1 = size[q] + c
      BY <1>7, <2>3, <2>4, <2>5, <3>1
    <3>. QED  BY <1>3, <2>2, <2>3, <2>4, <2>5, <3>1, <3>2
  <2>6. CASE r # q
    BY <1>3, <1>7, <2>1, <2>2, <2>6
  <2>. QED  BY <2>5, <2>6
<1>17. Sentinels(new)'
  <2> SUFFICES ASSUME NEW m \in Nodes, NEW r \in Queues, next[m] = This(r)
               PROVE  \/ m = new[r][Len(new[r])]
                      \/ \E p \in Producers : Ready(p) /\ local[p].newNode = m /\ local[p].queue = r
    BY <1>1, <1>2 DEF Sentinels, Ready
  <2>1. new[r][Len(new[r])] = list[r][Len(list[r])]
    <3>1. CASE r = q
      <4>1. Len(new[q]) \in 1 .. Len(new[q]) /\ Len(new[q]) + 1 = Len(list[q])
        BY <1>7, <1>8, <1>9
      <4>. QED  BY <1>10, <3>1, <4>1
    <3>. QED  BY <1>7, <3>1
  <2>. QED  BY <2>1 DEF Good, Sentinels
<1>18. \A r \in Producers : LocalInv(r)' /\ NewNodeInv(new, r)' /\ MovesAhead(new, r)'
  <2>1. \A r \in Queues : \A i \in 1 .. Len(new[r]) : \E j \in 1 .. Len(list[r]) : list[r][j] = new[r][i]
    BY <1>12
  <2>2. \A m \in free' \ free : \E r \in Queues : \E i \in 1 .. Len(list[r]) : list[r][i] = m
    BY <1>6, <1>9
  <2>. QED  BY <1>1, <2>1, <2>2, ProducersKeep
<1>. QED  BY <1>11, <1>13, <1>14, <1>15, <1>16, <1>17, <1>18 DEF Good

-------------------------------------------------------------------------------
(* The invariant.                                                           *)

LEMMA InitHolds == Init => Inv
<1> SUFFICES ASSUME Init
             PROVE  Inv
  OBVIOUS
<1>1. PICK dummy \in [Queues -> Nodes] :
        /\ IsInjective(dummy)
        /\ head = [q \in Queues |-> [node |-> dummy[q], stamp |-> 0]]
        /\ next = [n \in Nodes |-> IF \E q \in Queues : dummy[q] = n
                                     THEN This(CHOOSE q \in Queues : dummy[q] = n)
                                     ELSE Null]
        /\ free = {n \in Nodes : \A q \in Queues : dummy[q] # n}
  BY DEF Init
<1>2. /\ tail = head
      /\ size = [q \in Queues |-> 0]
      /\ data = [n \in Nodes |-> NULL]
      /\ enqPC = [p \in Producers |-> "idle"]
      /\ local = [p \in Producers |-> NoLocals]
      /\ sent = [p \in Producers |-> 0]
      /\ deqPC = [q \in Queues |-> "idle"]
      /\ taken = [q \in Queues |-> <<>>]
  BY DEF Init
<1>3. \A q, r \in Queues : dummy[q] = dummy[r] => q = r
  BY <1>1 DEF IsInjective
<1>4. \A q \in Queues : dummy[q] \in Nodes /\ next[dummy[q]] = This(q)
  <2> SUFFICES ASSUME NEW q \in Queues
               PROVE  dummy[q] \in Nodes /\ next[dummy[q]] = This(q)
    OBVIOUS
  <2>1. (CHOOSE r \in Queues : dummy[r] = dummy[q]) = q
    BY <1>3
  <2>. QED  BY <1>1, <2>1
<1>5. ASSUME NEW n \in Nodes, NEW q \in Queues, next[n] = This(q)
      PROVE  n = dummy[q]
  <2>1. \E r \in Queues : dummy[r] = n
    BY <1>1, <1>5, PointerTypes, QueueAssumption
  <2>2. PICK r \in Queues : dummy[r] = n
    BY <2>1
  <2>3. This(r) = This(q)
    BY <1>4, <1>5, <2>2
  <2>. QED  BY <2>2, <2>3, PointerTypes
<1>6. TypeInv
  <2>1. head \in [Queues -> Pointers] /\ \A q \in Queues : head[q].node = dummy[q]
    BY <1>1, Stamps, PointerTypes
  <2>2. next \in [Nodes -> Pointers]
    <3>1. ASSUME NEW n \in Nodes
          PROVE  next[n] \in Pointers
      <4>1. CASE \E q \in Queues : dummy[q] = n
        BY <1>4, <4>1, PointerTypes
      <4>2. CASE ~\E q \in Queues : dummy[q] = n
        BY <1>1, <4>2, PointerTypes
      <4>. QED  BY <4>1, <4>2
    <3>. QED  BY <1>1, <3>1
  <2>3. free \subseteq Nodes
    BY <1>1
  <2>4. sent \in [Producers -> 0 .. MaxItems]
    BY <1>2, QueueAssumption
  <2>5. enqPC \in [Producers -> EnqSteps] /\ deqPC \in [Queues -> DeqSteps]
    BY <1>2 DEF EnqSteps, DeqSteps
  <2>6. local \in [Producers -> Locals] /\ size \in [Queues -> Int] /\ data \in [Nodes -> Items \union {NULL}]
    BY <1>2, NoLocalsType
  <2>7. taken \in [Queues -> Seq(Items)]
    BY <1>2
  <2>. QED  BY <1>2, <2>1, <2>2, <2>3, <2>4, <2>5, <2>6, <2>7 DEF TypeInv
<1> DEFINE list == [q \in Queues |-> <<dummy[q]>>]
<1>7. list \in [Queues -> Seq(Nodes)]
  BY <1>4
<1>8. \A q \in Queues : Len(list[q]) = 1 /\ list[q][1] = dummy[q] /\ list[q] # <<>>
  OBVIOUS
<1> HIDE DEF list
<1>9. \A q \in Queues : head[q].node = dummy[q]
  BY <1>1
<1>10. Linked(list)
  BY <1>4, <1>8, <1>9 DEF Linked
<1>11. Apart(list)
  <2>1. ASSUME NEW q \in Queues, NEW i \in 1 .. Len(list[q])
        PROVE  i = 1 /\ list[q][i] = dummy[q]
    <3>1. i \in 1 .. 1
      BY <1>8
    <3>2. i = 1
      BY <3>1
    <3>. QED  BY <1>8, <3>2
  <2>. QED  BY <1>1, <1>3, <2>1 DEF Apart
<1>12. Carry(list)
  BY <1>8 DEF Carry
<1>13. TailIsIn(list)
  BY <1>2 DEF TailIsIn
<1>14. Counted(list)
  <2>1. \A q \in Queues : Uncounted(q) = {}
    BY <1>2 DEF Uncounted
  <2>2. \A q \in Queues : Cardinality(Uncounted(q)) = 0
    BY <2>1, FS_EmptySet
  <2>3. ASSUME NEW q \in Queues
        PROVE  /\ size[q] >= (IF deqPC[q] = "empty" THEN -1 ELSE 0)
               /\ Len(list[q]) - 1 = size[q] + Cardinality(Uncounted(q))
                                      + (IF deqPC[q] = "idle" THEN 0 ELSE 1)
    <3>1. size[q] = 0 /\ deqPC[q] = "idle" /\ Len(list[q]) = 1 /\ Cardinality(Uncounted(q)) = 0
      BY <1>2, <1>8, <2>2
    <3>. QED  BY <3>1
  <2>. QED  BY <2>3 DEF Counted
<1>15. Sentinels(list)
  BY <1>5, <1>8 DEF Sentinels
<1>16. \A p \in Producers : LocalInv(p) /\ NewNodeInv(list, p) /\ MovesAhead(list, p)
  BY <1>2 DEF LocalInv, NewNodeInv, MovesAhead, Private, PrivateSteps, TailSteps
<1>17. Good(list)
  BY <1>10, <1>11, <1>12, <1>13, <1>14, <1>15, <1>16 DEF Good
<1>. QED  BY <1>6, <1>7, <1>17 DEF Inv

(* Where the lists of the next state come from.                             *)
Follows(list, new) ==
  \/ new = list /\ UNCHANGED taken
  \/ \E p \in Producers :
       /\ EnqueueLink(p) /\ next[local[p].localTail.node] = local[p].localNext
       /\ Appended(list, new, local[p].queue, local[p].newNode)
  \/ \E q \in Queues : DequeueTake(q) /\ Shifted(list, new, q)

LEMMA GoodStep ==
  ASSUME NoReuse, TypeInv, NEW list \in [Queues -> Seq(Nodes)], Good(list), [Next]_vars
  PROVE  TypeInv' /\ \E new \in [Queues -> Seq(Nodes)] : Good(new)' /\ Follows(list, new)
<1>1. CASE UNCHANGED vars
  <2>1. TypeInv'
    BY <1>1 DEF vars, producer, consumer, TypeInv
  <2>2. UNCHANGED <<head, tail, size, next, data, free, deqPC, enqPC, local>>
    BY <1>1 DEF vars, producer, consumer
  <2>3. Linked(list)' /\ Apart(list)' /\ Carry(list)' /\ TailIsIn(list)'
    BY <2>2 DEF Good, Linked, Apart, Carry, TailIsIn
  <2>4. Counted(list)'
    <3>1. \A q \in Queues : Uncounted(q)' = Uncounted(q)
      BY <2>2 DEF Uncounted
    <3>. QED  BY <2>2, <3>1 DEF Good, Counted
  <2>5. Sentinels(list)'
    BY <2>2 DEF Good, Sentinels, Ready
  <2>6. ASSUME NEW p \in Producers
        PROVE  LocalInv(p)' /\ NewNodeInv(list, p)' /\ MovesAhead(list, p)'
    <3>1. LocalInv(p)' /\ NewNodeInv(list, p)'
      BY <2>2 DEF Good, LocalInv, NewNodeInv, Private, Ready
    <3>2. stampAddedNewNode(p)' = stampAddedNewNode(p) /\ LooksAt(list, p)' = LooksAt(list, p)
      BY <2>2 DEF stampAddedNewNode, LooksAt
    <3>. QED  BY <2>2, <3>1, <3>2 DEF Good, MovesAhead
  <2>. QED  BY <1>1, <2>1, <2>3, <2>4, <2>5, <2>6 DEF Good, Follows, vars, consumer
<1>2. ASSUME NEW p \in Producers, EnqueueStep(p) \/ \E q \in Queues : EnqueueAlloc(p, q)
      PROVE  TypeInv' /\ \E new \in [Queues -> Seq(Nodes)] : Good(new)' /\ Follows(list, new)
  <2>1. TypeInv'
    BY <1>2, TypeEnqueue
  <2>2. CASE EnqueueLink(p) /\ next[local[p].localTail.node] = local[p].localNext
    <3> DEFINE new == [list EXCEPT ![local[p].queue] = Append(@, local[p].newNode)]
    <3>1. local[p].queue \in Queues /\ local[p].newNode \in Nodes
      BY <2>2 DEF EnqueueLink, Good, LocalInv
    <3>2. Appended(list, new, local[p].queue, local[p].newNode)
      BY <3>1, AppendNode
    <3> HIDE DEF new
    <3>3. PICK final : final = new
      OBVIOUS
    <3>4. Appended(list, final, local[p].queue, local[p].newNode)
      BY <3>2, <3>3
    <3>5. Good(final)'
      BY <2>2, <3>4, LinkKeeps
    <3>6. final \in [Queues -> Seq(Nodes)]
      BY <3>4 DEF Appended
    <3>. QED  BY <2>1, <2>2, <3>4, <3>5, <3>6 DEF Follows
  <2>3. CASE ~(EnqueueLink(p) /\ next[local[p].localTail.node] = local[p].localNext)
    <3>1. Good(list)'
      BY <1>2, <2>3, AllocKeeps, SetNextKeeps, ReadTailKeeps, ReadNextKeeps, LinkFails,
         MoveTailKeeps, HelpKeeps, CountKeeps DEF EnqueueStep
    <3>2. UNCHANGED taken
      BY <1>2 DEF EnqueueStep, EnqueueAlloc, EnqueueSetNext, EnqueueReadTail, EnqueueReadNext,
         EnqueueLink, EnqueueMoveTail, EnqueueHelp, EnqueueCount, consumer
    <3>. QED  BY <2>1, <3>1, <3>2 DEF Follows
  <2>. QED  BY <2>2, <2>3
<1>3. ASSUME NEW q \in Queues, DequeueStep(q)
      PROVE  TypeInv' /\ \E new \in [Queues -> Seq(Nodes)] : Good(new)' /\ Follows(list, new)
  <2>1. TypeInv'
    BY <1>3, TypeDequeue
  <2>2. CASE DequeueTake(q)
    <3> DEFINE new == [list EXCEPT ![q] = Tail(@)]
    <3>1. list[q] # <<>>
      BY DEF Good, Linked
    <3>2. Shifted(list, new, q)
      BY <3>1, TailOfList
    <3> HIDE DEF new
    <3>3. PICK final : final = new
      OBVIOUS
    <3>4. Shifted(list, final, q)
      BY <3>2, <3>3
    <3>5. Good(final)'
      BY <2>2, <3>4, TakeKeeps
    <3>6. final \in [Queues -> Seq(Nodes)]
      BY <3>4 DEF Shifted
    <3>. QED  BY <2>1, <2>2, <3>4, <3>5, <3>6 DEF Follows
  <2>3. CASE ~DequeueTake(q)
    <3>1. Good(list)'
      BY <1>3, <2>3, SizeKeeps, ReadKeeps DEF DequeueStep
    <3>2. UNCHANGED taken
      BY <1>3, <2>3 DEF DequeueStep, DequeueReserve, DequeueEmpty, DequeueRead
    <3>. QED  BY <2>1, <3>1, <3>2 DEF Follows
  <2>. QED  BY <2>2, <2>3
<1>. QED  BY <1>1, <1>2, <1>3 DEF Next

LEMMA InvHolds == ASSUME NoReuse PROVE Spec => []Inv
<1>1. Inv /\ [Next]_vars => Inv'
  BY GoodStep DEF Inv
<1>. QED  BY <1>1, InitHolds, PTL DEF Spec

-------------------------------------------------------------------------------
(* Chain walks the list.  Walk is the equation that defines its recursion.  *)

Walk(nxt, k, before) ==
  [n \in Nodes |-> IF k = 0 \/ nxt[n].node \notin Nodes THEN <<>>
                   ELSE <<nxt[n].node>> \o before[k - 1][nxt[n].node]]

LEMMA LeastNat ==
  ASSUME NEW S \in SUBSET Nat, S # {}
  PROVE  \E n \in S : \A m \in S : n <= m
<1>1. PICK n \in S : \A m \in S : ~ (<<m, n>> \in OpToRel(<, Nat))
  BY NatLessThanWellFounded, WFMin
<1>2. ASSUME NEW m \in S
      PROVE  n <= m
  <2>1. m \in Nat /\ n \in Nat
    OBVIOUS
  <2>2. ~ (m < n)
    BY <1>1, <2>1 DEF OpToRel
  <2>. QED  BY <2>1, <2>2
<1>. QED  BY <1>2

(* The recursion is well defined: each step can be taken after the last.    *)
LEMMA WalkExists ==
  ASSUME NEW nxt, NEW b \in Nat
  PROVE  \E f : f = [k \in 0 .. b |-> Walk(nxt, k, f)]
<1> DEFINE Bad == {m \in Nat : ~ \E f : f = [k \in 0 .. m |-> Walk(nxt, k, f)]}
<1> SUFFICES ASSUME Bad # {}
             PROVE  FALSE
  OBVIOUS
<1>1. PICK m \in Bad : \A j \in Bad : m <= j
  <2>1. Bad \in SUBSET Nat
    OBVIOUS
  <2> HIDE DEF Bad
  <2>. QED  BY <2>1, LeastNat
<1>2. m \in Nat
  OBVIOUS
<1>3. CASE m = 0
  <2> DEFINE f == [k \in 0 .. 0 |-> [n \in Nodes |-> <<>>]]
  <2>1. \A k \in 0 .. 0 : Walk(nxt, k, f) = [n \in Nodes |-> <<>>]
    BY DEF Walk
  <2>2. f = [k \in 0 .. 0 |-> Walk(nxt, k, f)]
    <3> HIDE DEF Walk
    <3>1. [k \in 0 .. 0 |-> Walk(nxt, k, f)] = [k \in 0 .. 0 |-> [n \in Nodes |-> <<>>]]
      BY <2>1
    <3>. QED  BY <3>1
  <2>. QED  BY <1>3, <2>2
<1>4. CASE m # 0
  <2>1. m - 1 \in Nat /\ m - 1 \notin Bad
    <3>1. m - 1 \in Nat /\ ~(m <= m - 1)
      BY <1>2, <1>4
    <3> HIDE DEF Bad
    <3>. QED  BY <1>1, <3>1
  <2>2. PICK g : g = [k \in 0 .. (m - 1) |-> Walk(nxt, k, g)]
    BY <2>1
  <2> DEFINE f == [k \in 0 .. m |-> IF k < m THEN g[k] ELSE Walk(nxt, m, g)]
  <2>3. \A k \in 0 .. (m - 1) : f[k] = g[k]
    BY <1>2
  <2>4. ASSUME NEW k \in 0 .. m
        PROVE  f[k] = Walk(nxt, k, g) /\ Walk(nxt, k, f) = Walk(nxt, k, g)
    <3>1. f[k] = Walk(nxt, k, g)
      <4>1. CASE k < m
        <5>1. k \in 0 .. (m - 1)
          BY <1>2, <4>1
        <5> HIDE DEF f
        <5>2. g[k] = Walk(nxt, k, g)
          BY <2>2, <5>1
        <5>. QED  BY <2>3, <5>1, <5>2
      <4>2. CASE ~(k < m)
        <5>1. k = m
          BY <1>2, <4>2
        <5>. QED  BY <4>2, <5>1
      <4>. QED  BY <4>1, <4>2
    <3> HIDE DEF f
    <3>2. k # 0 => f[k - 1] = g[k - 1]
      <4>1. k # 0 => k - 1 \in 0 .. (m - 1)
        BY <1>2
      <4>. QED  BY <2>3, <4>1
    <3>3. Walk(nxt, k, f) = Walk(nxt, k, g)
      BY <3>2 DEF Walk
    <3>. QED  BY <3>1, <3>3
  <2>5. f = [k \in 0 .. m |-> f[k]]
    OBVIOUS
  <2> HIDE DEF f
  <2>6. f = [k \in 0 .. m |-> Walk(nxt, k, f)]
    BY <2>4, <2>5
  <2>7. m \notin Bad
    BY <2>6
  <2> HIDE DEF Bad
  <2>. QED  BY <1>1, <2>7
<1>. QED  BY <1>3, <1>4

LEMMA ChainWalks ==
  ASSUME NEW nxt, NEW first
  PROVE  /\ Cardinality(Nodes) \in Nat
         /\ \E f : /\ f = [k \in 0 .. Cardinality(Nodes) |-> Walk(nxt, k, f)]
                   /\ ChainFrom(nxt, first) = f[Cardinality(Nodes)][first]
<1>1. Cardinality(Nodes) \in Nat
  BY QueueAssumption, FS_CardinalityType
<1> DEFINE f == CHOOSE f : f = [k \in 0 .. Cardinality(Nodes) |-> Walk(nxt, k, f)]
<1>2. f = [k \in 0 .. Cardinality(Nodes) |-> Walk(nxt, k, f)]
  BY <1>1, WalkExists
<1>3. ChainFrom(nxt, first) = f[Cardinality(Nodes)][first]
  BY DEF ChainFrom, Walk
<1>. QED  BY <1>1, <1>2, <1>3

(* A walk along c finds what follows each of its nodes.                     *)
IsWalk(nxt, b, f) == f = [k \in 0 .. b |-> Walk(nxt, k, f)]

IsChain(nxt, c) ==
  /\ c \in Seq(Nodes) /\ c # <<>>
  /\ \A i \in 1 .. Len(c) - 1 : nxt[c[i]].node = c[i + 1]
  /\ nxt[c[Len(c)]].node \notin Nodes

FindsRest(f, b, c) ==
  \A i \in 1 .. Len(c) : \A k \in 0 .. b :
    Len(c) - i <= k => /\ f[k][c[i]] \in Seq(Nodes)
                       /\ Len(f[k][c[i]]) = Len(c) - i
                       /\ \A j \in 1 .. Len(c) - i : f[k][c[i]][j] = c[i + j]

LEMMA WalkFollows ==
  ASSUME NEW nxt, NEW b \in Nat, NEW f, IsWalk(nxt, b, f), NEW c, IsChain(nxt, c)
  PROVE  FindsRest(f, b, c)
<1> USE DEF IsWalk, IsChain, FindsRest
<1> DEFINE Ok(i, k) == /\ f[k][c[i]] \in Seq(Nodes)
                       /\ Len(f[k][c[i]]) = Len(c) - i
                       /\ \A j \in 1 .. Len(c) - i : f[k][c[i]][j] = c[i + j]
           Good1(d) == \A i \in 1 .. Len(c) : \A k \in 0 .. b :
                         Len(c) - i = d /\ d <= k => Ok(i, k)
           Bad == {d \in Nat : ~ Good1(d)}
<1>1. Len(c) \in Nat /\ Len(c) > 0 /\ \A i \in 1 .. Len(c) : c[i] \in Nodes
  OBVIOUS
<1>2. Bad = {}
  <2> SUFFICES ASSUME Bad # {}
               PROVE  FALSE
    OBVIOUS
  <2>1. Bad \in SUBSET Nat
    OBVIOUS
  <2> HIDE DEF Bad
  <2>2. PICK d \in Bad : \A e \in Bad : d <= e
    BY <2>1, LeastNat
  <2>3. d \in Nat /\ ~ Good1(d)
    BY <2>2 DEF Bad
  <2> HIDE DEF Ok
  <2>4. PICK i \in 1 .. Len(c), k \in 0 .. b : Len(c) - i = d /\ d <= k /\ ~ Ok(i, k)
    BY <2>3
  <2>5. /\ f[k] = Walk(nxt, k, f) /\ c[i] \in Nodes /\ k \in Nat
    BY <1>1
  <2>9. d \in Nat /\ Len(c) - i = d /\ d <= k
    <3> HIDE DEF Good1
    <3>. QED  BY <2>3, <2>4
  <2>6. f[k][c[i]] = IF k = 0 \/ nxt[c[i]].node \notin Nodes THEN <<>>
                     ELSE <<nxt[c[i]].node>> \o f[k - 1][nxt[c[i]].node]
    BY <2>5 DEF Walk
  <2>7. CASE d = 0
    <3>1. i = Len(c)
      BY <1>1, <2>4, <2>7
    <3>2. f[k][c[i]] = <<>>
      BY <2>6, <3>1
    <3>3. Len(c) - i = 0 /\ 1 .. Len(c) - i = {}
      BY <1>1, <3>1
    <3>4. f[k][c[i]] \in Seq(Nodes) /\ Len(f[k][c[i]]) = Len(c) - i
      <4>1. <<>> \in Seq(Nodes) /\ Len(<<>>) = 0
        OBVIOUS
      <4>. QED  BY <3>2, <3>3, <4>1, Zenon
    <3>5. Ok(i, k)
      BY <3>3, <3>4 DEF Ok
    <3>. QED  BY <2>4, <3>5
  <2>8. CASE d # 0
    <3>1. /\ i + 1 \in 1 .. Len(c) /\ i \in 1 .. Len(c) - 1 /\ k - 1 \in 0 .. b /\ k # 0
          /\ Len(c) - (i + 1) = d - 1 /\ d - 1 <= k - 1 /\ d - 1 \in Nat /\ ~(d <= d - 1)
      <4> HIDE DEF Good1, IsWalk, IsChain
      <4>1. i \in Int /\ k \in Int /\ d \in Int /\ Len(c) \in Int /\ d > 0 /\ i > 0 /\ k <= b
        BY <1>1, <2>5, <2>8, <2>9
      <4>. QED  BY <2>9, <4>1
    <3>2. Ok(i + 1, k - 1)
      <4>1. d - 1 \notin Bad
        BY <2>2, <3>1
      <4>2. Good1(d - 1)
        BY <3>1, <4>1 DEF Bad
      <4>. QED  BY <3>1, <4>2
    <3> DEFINE rest == f[k - 1][c[i + 1]]
               all  == f[k][c[i]]
    <3>3. nxt[c[i]].node = c[i + 1] /\ c[i + 1] \in Nodes
      BY <1>1, <3>1
    <3>4. all = <<c[i + 1]>> \o rest
      BY <2>6, <3>1, <3>3
    <3>5. rest \in Seq(Nodes) /\ Len(rest) = d - 1 /\ \A j \in 1 .. d - 1 : rest[j] = c[i + 1 + j]
      BY <3>1, <3>2 DEF Ok
    <3> HIDE DEF rest, all
    <3>6. /\ all \in Seq(Nodes) /\ Len(all) = 1 + Len(rest) /\ all[1] = c[i + 1]
          /\ \A j \in 2 .. 1 + Len(rest) : all[j] = rest[j - 1]
      BY <3>3, <3>4, <3>5
    <3>7. Len(all) = d
      BY <2>3, <3>5, <3>6
    <3>8. ASSUME NEW j \in 1 .. d
          PROVE  all[j] = c[i + j]
      <4>1. CASE j = 1
        BY <3>6, <4>1
      <4>2. CASE j # 1
        <5>1. j \in 2 .. 1 + Len(rest) /\ j - 1 \in 1 .. d - 1 /\ i + 1 + (j - 1) = i + j
          BY <2>3, <3>5, <4>2
        <5>. QED  BY <3>5, <3>6, <5>1
      <4>. QED  BY <4>1, <4>2
    <3>9. Ok(i, k)
      BY <2>4, <3>6, <3>7, <3>8 DEF Ok, all
    <3>. QED  BY <2>4, <3>9
  <2>. QED  BY <2>7, <2>8
<1>3. ASSUME NEW i \in 1 .. Len(c), NEW k \in 0 .. b, Len(c) - i <= k
      PROVE  Ok(i, k)
  <2>1. Len(c) - i \in Nat
    BY <1>1
  <2>2. Good1(Len(c) - i)
    BY <1>2, <2>1
  <2> HIDE DEF Ok
  <2>. QED  BY <1>3, <2>2
<1>. QED  BY <1>3

(* A list in which no node occurs twice is no longer than there are nodes.  *)
LEMMA ListIsShort ==
  ASSUME NEW c \in Seq(Nodes), \A i, j \in 1 .. Len(c) : c[i] = c[j] => i = j
  PROVE  Len(c) <= Cardinality(Nodes)
<1>1. Len(c) \in Nat /\ c \in [1 .. Len(c) -> Nodes]
  OBVIOUS
<1>2. IsFiniteSet(1 .. Len(c)) /\ Cardinality(1 .. Len(c)) = Len(c)
  BY <1>1, FS_Interval
<1>3. IsFiniteSet(Nodes) /\ Cardinality(Nodes) \in Nat
  BY QueueAssumption, FS_CardinalityType
<1>4. ~(Cardinality(Nodes) < Cardinality(1 .. Len(c)))
  <2> SUFFICES ASSUME Cardinality(Nodes) < Cardinality(1 .. Len(c))
               PROVE  FALSE
    OBVIOUS
  <2>1. \E x, y \in 1 .. Len(c) : x # y /\ c[x] = c[y]
    BY <1>1, <1>2, <1>3, FS_PigeonHole
  <2>. QED  BY <2>1
<1>. QED  BY <1>1, <1>2, <1>3, <1>4

LEMMA ChainIsList ==
  ASSUME NEW list \in [Queues -> Seq(Nodes)], Linked(list), Apart(list), NEW q \in Queues
  PROVE  /\ Chain(q) \in Seq(Nodes) /\ Len(Chain(q)) = Len(list[q]) - 1
         /\ \A i \in 1 .. Len(list[q]) - 1 : Chain(q)[i] = list[q][i + 1]
<1> DEFINE c == list[q]
           b == Cardinality(Nodes)
<1>1. /\ c \in Seq(Nodes) /\ c # <<>> /\ Len(c) \in Nat /\ Len(c) > 0 /\ c[1] = head[q].node
      /\ \A i \in 1 .. Len(c) - 1 : next[c[i]].node = c[i + 1]
      /\ next[c[Len(c)]] = This(q)
  BY ListEnds DEF Linked
<1>2. next[c[Len(c)]].node \notin Nodes
  BY <1>1, PointerTypes, QueueAssumption
<1>3. \A i, j \in 1 .. Len(c) : c[i] = c[j] => i = j
  BY DEF Apart
<1>4. b \in Nat /\ Len(c) <= b
  BY <1>1, <1>3, ListIsShort, ChainWalks
<1>5. PICK f : /\ f = [k \in 0 .. b |-> Walk(next, k, f)]
               /\ ChainFrom(next, head[q].node) = f[b][head[q].node]
  BY ChainWalks
<1> HIDE DEF c, b
<1>6. FindsRest(f, b, c)
  <2>1. IsWalk(next, b, f)
    BY <1>5 DEF IsWalk
  <2>2. IsChain(next, c)
    BY <1>1, <1>2 DEF IsChain
  <2>. QED  BY <1>4, <2>1, <2>2, WalkFollows
<1>7. 1 \in 1 .. Len(c) /\ b \in 0 .. b /\ Len(c) - 1 <= b
  BY <1>1, <1>4
<1>8. /\ f[b][c[1]] \in Seq(Nodes) /\ Len(f[b][c[1]]) = Len(c) - 1
      /\ \A j \in 1 .. Len(c) - 1 : f[b][c[1]][j] = c[1 + j]
  BY <1>6, <1>7 DEF FindsRest
<1>9. Chain(q) = f[b][c[1]]
  BY <1>1, <1>5 DEF Chain
<1>10. \A j \in 1 .. Len(c) - 1 : c[1 + j] = c[j + 1]
  OBVIOUS
<1>. QED  BY <1>8, <1>9, <1>10 DEF c

LEMMA ContentsAre ==
  ASSUME NEW list \in [Queues -> Seq(Nodes)], Linked(list), Apart(list), NEW q \in Queues
  PROVE  Contents(q) = [i \in 1 .. (Len(list[q]) - 1) |-> data[list[q][i + 1]]]
<1> DEFINE chain == Chain(q)
<1>1. /\ chain \in Seq(Nodes) /\ Len(chain) = Len(list[q]) - 1
      /\ \A i \in 1 .. (Len(list[q]) - 1) : chain[i] = list[q][i + 1]
  BY ChainIsList
<1>2. Contents(q) = [i \in DOMAIN chain |-> data[chain[i]]]
  BY DEF Contents
<1> HIDE DEF chain
<1>3. DOMAIN chain = 1 .. (Len(list[q]) - 1)
  BY <1>1
<1>. QED  BY <1>1, <1>2, <1>3

LEMMA ContentsLength ==
  ASSUME NEW list \in [Queues -> Seq(Nodes)], Linked(list), Apart(list), NEW q \in Queues
  PROVE  Len(Contents(q)) = Len(list[q]) - 1
<1>1. Len(list[q]) - 1 \in Nat
  BY ListEnds
<1> DEFINE g == [i \in 1 .. (Len(list[q]) - 1) |-> data[list[q][i + 1]]]
<1>2. DOMAIN g = 1 .. (Len(list[q]) - 1)
  OBVIOUS
<1> HIDE DEF g
<1>3. Len(g) = Len(list[q]) - 1
  BY <1>1, <1>2
<1>. QED  BY <1>3, ContentsAre DEF g

-------------------------------------------------------------------------------
(* What the runs check.                                                     *)

(* size_ is the length of the list less the Enqueues that have linked and   *)
(* not counted and the Dequeue that has reserved, whatever the number of    *)
(* threads and queues (Enqueue and Dequeue, the Interlocked operations on   *)
(* size_).                                                                  *)
THEOREM SizeIsExact == ASSUME NoReuse PROVE Spec => []SizeCountsContents
<1>1. Inv => SizeCountsContents
  <2> SUFFICES ASSUME NEW list \in [Queues -> Seq(Nodes)], Good(list), NEW q \in Queues
               PROVE  Len(Contents(q)) = size[q] + Cardinality(Uncounted(q))
                                           + (IF deqPC[q] = "idle" THEN 0 ELSE 1)
    BY DEF Inv, SizeCountsContents
  <2>1. Len(Contents(q)) = Len(list[q]) - 1
    BY ContentsLength DEF Good
  <2>2. Len(list[q]) - 1 = size[q] + Cardinality(Uncounted(q))
                             + (IF deqPC[q] = "idle" THEN 0 ELSE 1)
    BY DEF Good, Counted
  <2>. QED  BY <2>1, <2>2
<1>. QED  BY <1>1, InvHolds, PTL

(* A consumer that has reserved an item finds it at once: the loop that     *)
(* waits for the next of the dummy node never goes round (Dequeue).         *)
THEOREM ItemIsFound == ASSUME NoReuse PROVE Spec => []DequeueFindsItem
<1>1. Inv => DequeueFindsItem
  <2> SUFFICES ASSUME TypeInv, NEW list \in [Queues -> Seq(Nodes)], Good(list),
                      NEW q \in Queues, deqPC[q] \in {"read", "take"}
               PROVE  nextOfHead(q) # This(q)
    BY DEF Inv, DequeueFindsItem
  <2>1. /\ size[q] >= 0
        /\ Len(list[q]) - 1 = size[q] + Cardinality(Uncounted(q)) + 1
    BY DEF Good, Counted
  <2>2. Cardinality(Uncounted(q)) \in Nat /\ size[q] \in Int /\ Len(list[q]) \in Nat
    BY QueueAssumption, FS_Subset, FS_CardinalityType, ListEnds DEF Uncounted, TypeInv, Good
  <2>3. Len(list[q]) > 1
    BY <2>1, <2>2
  <2>. QED  BY <2>3, SecondNode, PointerTypes DEF Good
<1>. QED  BY <1>1, InvHolds, PTL

(* No list of one queue runs into the pool or into the list of another, and *)
(* each ends at its own queue (the shared nodePool_ and the address of the  *)
(* queue object as the end of the list).                                    *)
THEOREM ListsShareNothing == ASSUME NoReuse PROVE Spec => []ListsAreApart
<1>1. Inv => ListsAreApart
  <2> SUFFICES ASSUME TypeInv, NEW list \in [Queues -> Seq(Nodes)], Good(list)
               PROVE  ListsAreApart
    BY DEF Inv
  <2>1. ASSUME NEW q \in Queues
        PROVE  /\ Chain(q) \in Seq(Nodes) /\ Len(Chain(q)) = Len(list[q]) - 1
               /\ \A i \in 1 .. Len(list[q]) - 1 : Chain(q)[i] = list[q][i + 1]
               /\ Len(list[q]) \in Nat /\ Len(list[q]) > 0 /\ list[q][1] = head[q].node
               /\ next[list[q][Len(list[q])]] = This(q) /\ head[q].node \in Nodes
    BY ChainIsList, ListEnds DEF Good
  <2>2. ASSUME NEW q \in Queues, NEW n \in ToSet(Chain(q))
        PROVE  \E i \in 1 .. Len(list[q]) : list[q][i] = n
    <3>1. PICK l \in Nat : l = Len(list[q]) /\ Len(Chain(q)) = l - 1
      BY <2>1
    <3>2. DOMAIN Chain(q) = 1 .. l - 1
      <4>1. Chain(q) \in Seq(Nodes)
        BY <2>1
      <4>. QED  BY <3>1, <4>1
    <3>3. PICK i \in 1 .. l - 1 : Chain(q)[i] = n
      BY <3>2 DEF ToSet
    <3>4. i + 1 \in 1 .. l
      BY <3>3
    <3>5. Chain(q)[i] = list[q][i + 1]
      BY <2>1, <3>1, <3>3
    <3>. QED  BY <3>1, <3>3, <3>4, <3>5
  <2>3. ASSUME NEW q \in Queues
        PROVE  (ToSet(Chain(q)) \union {head[q].node}) \intersect free = {}
    <3>1. head[q].node \notin free
      <4>1. 1 \in 1 .. Len(list[q])
        BY <2>1
      <4>. QED  BY <2>1, <4>1 DEF Good, Apart
    <3>. QED  BY <2>2, <3>1 DEF Good, Apart
  <2>4. ASSUME NEW q \in Queues, NEW r \in Queues, q # r
        PROVE  ToSet(Chain(q)) \intersect ToSet(Chain(r)) = {}
    <3>1. ASSUME NEW n \in ToSet(Chain(q)), n \in ToSet(Chain(r))
          PROVE  FALSE
      <4>1. PICK i \in 1 .. Len(list[q]) : list[q][i] = n
        BY <2>2
      <4>2. PICK j \in 1 .. Len(list[r]) : list[r][j] = n
        BY <2>2, <3>1
      <4>. QED  BY <2>4, <4>1, <4>2 DEF Good, Apart
    <3>. QED  BY <3>1
  <2>5. ASSUME NEW q \in Queues
        PROVE  next[Last(<<head[q].node>> \o Chain(q))] = This(q)
    <3> DEFINE ch  == Chain(q)
               all == <<head[q].node>> \o ch
    <3>1. ch \in Seq(Nodes) /\ <<head[q].node>> \in Seq(Nodes) /\ Len(<<head[q].node>>) = 1
      BY <2>1
    <3>0. Len(ch) = Len(list[q]) - 1 /\ Len(list[q]) \in Nat
      BY <2>1
    <3> HIDE DEF ch
    <3>2. Len(all) = Len(ch) + 1 /\ Last(all) = all[Len(ch) + 1]
      BY <3>1 DEF Last
    <3>3. Len(ch) = 0 => all[Len(ch) + 1] = head[q].node
      BY <3>1
    <3>4. Len(ch) # 0 => all[Len(ch) + 1] = ch[Len(ch)]
      BY <3>1
    <3> HIDE DEF all
    <3>5. Last(all) = list[q][Len(list[q])]
      <4>1. CASE Len(ch) = 0
        <5>1. Len(list[q]) = 1
          BY <3>0, <4>1
        <5>. QED  BY <2>1, <3>2, <3>3, <4>1, <5>1
      <4>2. CASE Len(ch) # 0
        <5>1. /\ Len(ch) \in 1 .. Len(list[q]) - 1 /\ Len(ch) + 1 = Len(list[q])
              /\ \A i \in 1 .. Len(list[q]) - 1 : ch[i] = list[q][i + 1]
          BY <2>1, <4>2 DEF ch
        <5>2. ch[Len(ch)] = list[q][Len(ch) + 1]
          BY <5>1
        <5>3. list[q][Len(ch) + 1] = list[q][Len(list[q])]
          BY <5>1
        <5>. QED  BY <3>2, <3>4, <4>2, <5>2, <5>3
      <4>. QED  BY <4>1, <4>2
    <3>. QED  BY <2>1, <3>5 DEF all, ch
  <2>. QED  BY <2>3, <2>4, <2>5 DEF ListsAreApart
<1>. QED  BY <1>1, InvHolds, PTL

-------------------------------------------------------------------------------
(* The queue refines FifoQueue.                                             *)

LEMMA AppendedIs ==
  ASSUME NEW S, NEW c \in Seq(S), NEW d \in Seq(S), NEW x \in S,
         Len(d) = Len(c) + 1, \A i \in 1 .. Len(c) : d[i] = c[i], d[Len(c) + 1] = x
  PROVE  d = Append(c, x)
<1> DEFINE e == Append(c, x)
<1>1. /\ e \in Seq(S) /\ Len(e) = Len(c) + 1
      /\ \A i \in 1 .. Len(c) : e[i] = c[i]
      /\ e[Len(c) + 1] = x /\ Len(c) \in Nat
  OBVIOUS
<1> HIDE DEF e
<1>2. \A i \in 1 .. Len(c) + 1 : i \in 1 .. Len(c) \/ i = Len(c) + 1
  BY <1>1
<1>3. \A i \in 1 .. Len(d) : d[i] = e[i]
  BY <1>1, <1>2
<1>4. d = e
  BY <1>1, <1>3, SeqEqual
<1>. QED  BY <1>4 DEF e

LEMMA TailIs ==
  ASSUME NEW S, NEW c \in Seq(S), NEW d \in Seq(S), c # <<>>,
         Len(d) = Len(c) - 1, \A i \in 1 .. Len(c) - 1 : d[i] = c[i + 1]
  PROVE  d = Tail(c)
<1> DEFINE e == Tail(c)
<1>1. /\ e \in Seq(S) /\ Len(e) = Len(c) - 1
      /\ \A i \in 1 .. Len(c) - 1 : e[i] = c[i + 1]
  OBVIOUS
<1> HIDE DEF e
<1>2. \A i \in 1 .. Len(d) : d[i] = e[i]
  BY <1>1
<1>3. d = e
  BY <1>1, <1>2, SeqEqual
<1>. QED  BY <1>3 DEF e

(* The items of q are the data of its list without the dummy.               *)
DataOfList(list) ==
  \A q \in Queues :
    /\ Contents(q) \in Seq(Items) /\ Len(Contents(q)) = Len(list[q]) - 1
    /\ \A i \in 1 .. Len(list[q]) - 1 : Contents(q)[i] = data[list[q][i + 1]]

ContentsOfLists ==
  \A list \in [Queues -> Seq(Nodes)] : Good(list) => DataOfList(list)

LEMMA ContentsFollow == ContentsOfLists
<1> SUFFICES ASSUME NEW list \in [Queues -> Seq(Nodes)], Good(list), NEW q \in Queues
             PROVE  /\ Contents(q) \in Seq(Items) /\ Len(Contents(q)) = Len(list[q]) - 1
                    /\ \A i \in 1 .. Len(list[q]) - 1 : Contents(q)[i] = data[list[q][i + 1]]
  BY DEF ContentsOfLists, DataOfList
<1>1. Len(Contents(q)) = Len(list[q]) - 1
  BY ContentsLength DEF Good
<1>2. Contents(q) = [i \in 1 .. (Len(list[q]) - 1) |-> data[list[q][i + 1]]]
  BY ContentsAre DEF Good
<1>3. Len(list[q]) - 1 \in Nat
  BY ListEnds DEF Good
<1>4. \A i \in 1 .. (Len(list[q]) - 1) : data[list[q][i + 1]] \in Items
  <2>1. \A i \in 1 .. (Len(list[q]) - 1) : i + 1 \in 2 .. Len(list[q])
    BY <1>3
  <2>. QED  BY <2>1 DEF Good, Carry
<1>5. Contents(q) \in Seq(Items)
  BY <1>2, <1>3, <1>4
<1>. QED  BY <1>1, <1>2, <1>5

LEMMA ContentsFollowNext == ContentsOfLists'
  BY ContentsFollow, PTL

(* What a step does to the data of the nodes that stay in a list.           *)
LEMMA DataStays ==
  ASSUME TypeInv, [Next]_vars, NEW n \in Nodes, n \notin free
  PROVE  data'[n] = data[n]
<1>1. CASE UNCHANGED vars
  BY <1>1 DEF vars
<1>2. ASSUME NEW p \in Producers, NEW q \in Queues, EnqueueAlloc(p, q)
      PROVE  data'[n] = data[n]
  <2>1. PICK m \in free : data' = [data EXCEPT ![m] = [producer |-> p, number |-> sent[p] + 1]]
    BY <1>2 DEF EnqueueAlloc
  <2>. QED  BY <2>1 DEF TypeInv
<1>3. ASSUME NEW p \in Producers, EnqueueStep(p)
      PROVE  data'[n] = data[n]
  BY <1>3 DEF EnqueueStep, EnqueueSetNext, EnqueueReadTail, EnqueueReadNext, EnqueueLink,
     EnqueueMoveTail, EnqueueHelp, EnqueueCount
<1>4. ASSUME NEW q \in Queues, DequeueStep(q)
      PROVE  data'[n] = data[n]
  BY <1>4 DEF DequeueStep, DequeueReserve, DequeueEmpty, DequeueRead, DequeueTake
<1>. QED  BY <1>1, <1>2, <1>3, <1>4 DEF Next

(* A queue whose list stays keeps its items.                                *)
LEMMA ListKeepsContents ==
  ASSUME TypeInv, [Next]_vars, NEW list \in [Queues -> Seq(Nodes)], Good(list),
         NEW new \in [Queues -> Seq(Nodes)], Good(new)', NEW q \in Queues, new[q] = list[q]
  PROVE  Contents(q)' = Contents(q)
<1> DEFINE c == Contents(q)
           d == Contents(q)'
<1>1. /\ c \in Seq(Items) /\ Len(c) = Len(list[q]) - 1
      /\ \A i \in 1 .. Len(list[q]) - 1 : c[i] = data[list[q][i + 1]]
  BY ContentsFollow DEF ContentsOfLists, DataOfList
<1>2. /\ d \in Seq(Items) /\ Len(d) = Len(new[q]) - 1
      /\ \A i \in 1 .. Len(new[q]) - 1 : d[i] = data'[new[q][i + 1]]
  BY ContentsFollowNext DEF ContentsOfLists, DataOfList, Items
<1> HIDE DEF c, d
<1>3. \A i \in 1 .. Len(list[q]) - 1 : data'[list[q][i + 1]] = data[list[q][i + 1]]
  <2>1. \A i \in 1 .. Len(list[q]) - 1 : i + 1 \in 1 .. Len(list[q])
    BY ListEnds DEF Good
  <2>2. \A i \in 1 .. Len(list[q]) : list[q][i] \in Nodes /\ list[q][i] \notin free
    BY ListEnds DEF Good, Apart
  <2>. QED  BY <2>1, <2>2, DataStays
<1>4. Len(c) = Len(d) /\ \A i \in 1 .. Len(c) : c[i] = d[i]
  BY <1>1, <1>2, <1>3
<1>5. c = d
  BY <1>1, <1>2, <1>4, SeqEqual
<1>. QED  BY <1>5 DEF c, d

(* The exchange that links a node is the Enqueue of the item in it.         *)
LEMMA LinkIsEnqueue ==
  ASSUME TypeInv, [Next]_vars, NEW list \in [Queues -> Seq(Nodes)], Good(list),
         NEW new \in [Queues -> Seq(Nodes)], Good(new)',
         NEW p \in Producers, EnqueueLink(p),
         Appended(list, new, local[p].queue, local[p].newNode)
  PROVE  Fifo!Next
<1>1. /\ local[p].queue \in Queues /\ local[p].newNode \in Nodes
      /\ data[local[p].newNode] \in Items /\ local[p].newNode \notin free
  BY DEF EnqueueLink, Good, LocalInv, NewNodeInv, Private, PrivateSteps
<1>2. PICK s \in Queues : s = local[p].queue
  BY <1>1
<1>3. PICK n \in Nodes : n = local[p].newNode
  BY <1>1
<1>4. PICK x \in Items : x = data[n]
  BY <1>1, <1>3
<1>5. data'[n] = x
  BY <1>1, <1>3, <1>4, DataStays
<1>6. Appended(list, new, s, n)
  BY <1>2, <1>3
<1>7. ASSUME NEW q \in Queues, q # s
      PROVE  Contents(q)' = Contents(q)
  <2>1. new[q] = list[q]
    BY <1>6, <1>7 DEF Appended
  <2>. QED  BY <2>1, ListKeepsContents
<1>8. Contents(s)' = Append(Contents(s), x)
  <2> DEFINE c == Contents(s)
             d == Contents(s)'
  <2>1. /\ c \in Seq(Items) /\ Len(c) = Len(list[s]) - 1
        /\ \A i \in 1 .. Len(list[s]) - 1 : c[i] = data[list[s][i + 1]]
    BY ContentsFollow DEF ContentsOfLists, DataOfList
  <2>2. /\ d \in Seq(Items) /\ Len(d) = Len(new[s]) - 1
        /\ \A i \in 1 .. Len(new[s]) - 1 : d[i] = data'[new[s][i + 1]]
    BY ContentsFollowNext DEF ContentsOfLists, DataOfList, Items
  <2> HIDE DEF c, d
  <2>3. /\ Len(new[s]) = Len(list[s]) + 1
        /\ \A i \in 1 .. Len(list[s]) : new[s][i] = list[s][i]
        /\ new[s][Len(list[s]) + 1] = n
    BY <1>6 DEF Appended
  <2>4. Len(list[s]) \in Nat /\ Len(list[s]) > 0
    BY ListEnds DEF Good
  <2>5. ASSUME NEW i \in 1 .. Len(list[s]) - 1
        PROVE  d[i] = c[i]
    <3>1. i + 1 \in 1 .. Len(list[s]) /\ i \in 1 .. Len(new[s]) - 1
      BY <2>3, <2>4
    <3>2. d[i] = data'[list[s][i + 1]]
      BY <2>2, <2>3, <3>1
    <3>3. list[s][i + 1] \in Nodes /\ list[s][i + 1] \notin free
      BY <3>1, ListEnds DEF Good, Apart
    <3>4. data'[list[s][i + 1]] = data[list[s][i + 1]]
      BY <3>3, DataStays
    <3>. QED  BY <2>1, <3>2, <3>4
  <2>6. d[Len(c) + 1] = x
    <3>1. Len(c) + 1 = Len(list[s]) /\ Len(list[s]) \in 1 .. Len(new[s]) - 1
      BY <2>1, <2>3, <2>4
    <3>2. d[Len(list[s])] = data'[new[s][Len(list[s]) + 1]]
      BY <2>2, <3>1
    <3>. QED  BY <1>5, <2>3, <3>1, <3>2
  <2>7. Len(d) = Len(c) + 1 /\ \A i \in 1 .. Len(c) : d[i] = c[i]
    BY <2>1, <2>2, <2>3, <2>4, <2>5
  <2>8. d = Append(c, x)
    <3>1. c \in Seq(Items) /\ d \in Seq(Items)
      BY <2>1, <2>2
    <3>. QED  BY <2>6, <2>7, <3>1, AppendedIs
  <2>. QED  BY <2>8 DEF c, d
<1>9. [q \in Queues |-> Contents(q)]' =
        [[q \in Queues |-> Contents(q)] EXCEPT ![s] = Append(@, x)]
  BY <1>7, <1>8
<1>10. UNCHANGED taken
  BY DEF EnqueueLink, consumer
<1>. QED  BY <1>9, <1>10 DEF Fifo!Next, Fifo!Enqueue

(* The update of head_ is the Dequeue of the oldest item.                   *)
LEMMA TakeIsDequeue ==
  ASSUME TypeInv, [Next]_vars, NEW list \in [Queues -> Seq(Nodes)], Good(list),
         NEW new \in [Queues -> Seq(Nodes)], Good(new)',
         NEW s \in Queues, DequeueTake(s), Shifted(list, new, s)
  PROVE  Fifo!Next
<1>1. UNCHANGED data /\ deqPC[s] = "take"
      /\ taken' = [taken EXCEPT ![s] = Append(@, data[nextOfHead(s).node])]
  BY DEF DequeueTake
<1>2. Len(list[s]) \in Nat /\ Len(list[s]) > 1 /\ nextOfHead(s).node = list[s][2]
  BY <1>1, SecondNode, ListEnds DEF Good, TailIsIn
<1>3. ASSUME NEW q \in Queues, q # s
      PROVE  Contents(q)' = Contents(q)
  <2>1. new[q] = list[q]
    BY <1>3 DEF Shifted
  <2>. QED  BY <2>1, ListKeepsContents
<1> DEFINE c == Contents(s)
           d == Contents(s)'
<1>4. /\ c \in Seq(Items) /\ Len(c) = Len(list[s]) - 1
      /\ \A i \in 1 .. Len(list[s]) - 1 : c[i] = data[list[s][i + 1]]
  BY ContentsFollow DEF ContentsOfLists, DataOfList
<1>5. /\ d \in Seq(Items) /\ Len(d) = Len(new[s]) - 1
      /\ \A i \in 1 .. Len(new[s]) - 1 : d[i] = data'[new[s][i + 1]]
  BY ContentsFollowNext DEF ContentsOfLists, DataOfList, Items
<1> HIDE DEF c, d
<1>6. /\ Len(new[s]) = Len(list[s]) - 1
      /\ \A i \in 1 .. Len(list[s]) - 1 : new[s][i] = list[s][i + 1]
  BY DEF Shifted
<1>7. ASSUME NEW i \in 1 .. Len(c) - 1
      PROVE  d[i] = c[i + 1]
  <2>1. i \in 1 .. Len(new[s]) - 1 /\ i + 1 \in 1 .. Len(list[s]) - 1
    BY <1>2, <1>4, <1>6
  <2>2. d[i] = data[new[s][i + 1]]
    BY <1>1, <1>5, <2>1
  <2>3. new[s][i + 1] = list[s][(i + 1) + 1]
    BY <1>6, <2>1
  <2>4. c[i + 1] = data[list[s][(i + 1) + 1]]
    BY <1>4, <2>1
  <2>. QED  BY <2>2, <2>3, <2>4
<1>8. c # <<>> /\ Len(d) = Len(c) - 1
  BY <1>2, <1>4, <1>5, <1>6
<1>9. d = Tail(c)
  BY <1>4, <1>5, <1>7, <1>8, TailIs
<1>10. data[nextOfHead(s).node] = Head(c)
  <2>1. 1 \in 1 .. Len(list[s]) - 1
    BY <1>2
  <2>2. c[1] = data[list[s][1 + 1]]
    BY <1>4, <2>1
  <2>3. c[1] = data[list[s][2]]
    BY <2>2
  <2>4. Head(c) = c[1]
    BY <1>4, <1>8
  <2>. QED  BY <1>2, <2>3, <2>4
<1>11. /\ Contents(s) # <<>> /\ Contents(s)' = Tail(Contents(s))
       /\ taken' = [taken EXCEPT ![s] = Append(@, Head(Contents(s)))]
  BY <1>1, <1>8, <1>9, <1>10 DEF c, d
<1>12. [q \in Queues |-> Contents(q)]' =
         [[q \in Queues |-> Contents(q)] EXCEPT ![s] = Tail(@)]
  BY <1>3, <1>11
<1>13. [q \in Queues |-> Contents(q)][s] = Contents(s)
  OBVIOUS
<1>14. Fifo!Dequeue(s)
  BY <1>11, <1>12, <1>13 DEF Fifo!Dequeue
<1>. QED  BY <1>14 DEF Fifo!Next

(* Linearizability (Enqueue, Dequeue): each step of the code on a queue is  *)
(* an Enqueue or a Dequeue of an abstract first-in first-out queue, or does *)
(* not show.  With any number of queues, producers, nodes and items, in any *)
(* interleaving, no item is lost, doubled, taken from another queue or out  *)
(* of order.                                                                *)
THEOREM RefinesFifo == ASSUME NoReuse PROVE Spec => ImplementsFifo
<1>1. Init => Fifo!Init
  <2> SUFFICES ASSUME Init
               PROVE  Fifo!Init
    OBVIOUS
  <2>1. PICK list \in [Queues -> Seq(Nodes)] : Good(list)
    BY InitHolds DEF Inv
  <2>2. ASSUME NEW q \in Queues
        PROVE  Contents(q) = <<>>
    <3>1. Uncounted(q) = {}
      BY DEF Init, Uncounted
    <3>2. Cardinality(Uncounted(q)) = 0
      BY <3>1, FS_EmptySet
    <3>3. size[q] = 0 /\ deqPC[q] = "idle"
      BY DEF Init
    <3>4. Len(list[q]) - 1 = size[q] + Cardinality(Uncounted(q)) + 0
      BY <2>1, <3>3 DEF Good, Counted
    <3>5. Len(list[q]) - 1 = 0
      BY <3>2, <3>3, <3>4
    <3>6. Contents(q) \in Seq(Items) /\ Len(Contents(q)) = 0
      BY <2>1, <3>5, ContentsFollow DEF ContentsOfLists, DataOfList
    <3>. QED  BY <3>6, EmptySeq
  <2>3. taken = [q \in Queues |-> <<>>]
    BY DEF Init
  <2>. QED  BY <2>2, <2>3 DEF Fifo!Init
<1>2. Inv /\ [Next]_vars => [Fifo!Next]_(Fifo!vars)
  <2> SUFFICES ASSUME TypeInv, [Next]_vars,
                      NEW list \in [Queues -> Seq(Nodes)], Good(list)
               PROVE  [Fifo!Next]_(Fifo!vars)
    BY DEF Inv
  <2>1. PICK new \in [Queues -> Seq(Nodes)] : Good(new)' /\ Follows(list, new)
    BY GoodStep
  <2>2. CASE new = list /\ UNCHANGED taken
    <3>1. \A q \in Queues : Contents(q)' = Contents(q)
      BY <2>1, <2>2, ListKeepsContents
    <3>2. [q \in Queues |-> Contents(q)]' = [q \in Queues |-> Contents(q)]
      BY <3>1
    <3>. QED  BY <2>2, <3>2 DEF Fifo!vars
  <2>3. CASE ~(new = list /\ UNCHANGED taken)
    BY <2>1, <2>3, LinkIsEnqueue, TakeIsDequeue DEF Follows
  <2>. QED  BY <2>2, <2>3
<1>. QED  BY <1>1, <1>2, InvHolds, PTL DEF Spec, ImplementsFifo, Fifo!Spec

===============================================================================
