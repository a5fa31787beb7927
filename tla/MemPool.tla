-------------------------------- MODULE MemPool --------------------------------
(***************************************************************************)
(* The memory pools (MemTLS, SizedMemTLS, ChunkLockFree).  Every thread    *)
(* has a list of free blocks of its own; it takes a chunk of blocks from a *)
(* shared stack when the list is empty, and gives a chunk back when it has *)
(* two.  The stack is lock free: its top is an address with a stamp, and   *)
(* the header of a chunk is freed once the chunk is taken, so a thread may *)
(* read a header that is freed or is another chunk's by now.  The blocks   *)
(* of threads that end are gathered under a lock; a garbage collection     *)
(* takes chunks off the stack and frees their blocks.                      *)
(*                                                                         *)
(* A list of blocks that one thread can reach is a sequence.               *)
(***************************************************************************)
EXTENDS Integers, Sequences, FiniteSets

CONSTANTS
  Threads,
  Blocks,        (* bound: blocks the heap can hold                        *)
  Headers,       (* bound: addresses for the headers of chunks             *)
  chunkSize,     (* chunkSize_                                             *)
  InitialChunks, (* chunkCapacity_ at the start: three times chunkCount    *)
  STAMPS,        (* values of a stamp; 2^16, the bits above 48             *)
  MaxEnds,       (* bound: threads that end                                *)
  NULL

(* A heap that cannot hold the first chunks ends the program (Error).       *)
ASSUME PoolAssumption ==
  /\ chunkSize \in Nat \ {0} /\ InitialChunks \in Nat /\ MaxEnds \in Nat
  /\ STAMPS \in Nat \ {0}
  /\ IsFiniteSet(Threads) /\ IsFiniteSet(Blocks)
  /\ InitialChunks * chunkSize <= Cardinality(Blocks)
  /\ NULL \notin Headers \union Threads

VARIABLES
  topChunk,       (* topChunk_: an address and a stamp                     *)
  header,         (* per address: its blocks and nextChunk                 *)
  live,           (* headers that are allocated                            *)
  heap,           (* blocks that are not allocated                         *)
  chunkCapacity, chunkUsed,
  freeChunk,      (* freeChunk_: blocks of threads that ended              *)
  freeChunkLock,  (* the thread that holds freeChunkLock_                  *)
  tls,            (* per thread: the list of its Top                       *)
  inUse,          (* blocks the program has                                *)
  ends,           (* threads that ended                                    *)
  pc,             (* per thread: its next step                             *)
  then,           (* per thread: where a call of Alloc or Free returns to  *)
  local           (* per thread: localTop, next, the chunk in its hands,   *)
                  (* and diff and i of GarbageCollect                      *)

stack  == <<topChunk, header, live>>
counts == <<chunkCapacity, chunkUsed>>
ending == <<freeChunk, freeChunkLock, ends>>
vars   == <<stack, heap, counts, ending, tls, inUse, pc, then, local>>

NoChunk == [blocks |-> <<>>, next |-> NULL]
NoLocal == [top |-> NULL, next |-> NULL, chunk |-> NULL, blocks |-> <<>>, diff |-> 0, i |-> 0]

Values(list) == {list[n] : n \in DOMAIN list}

(* Blocks new from the heap, one per position: which of the free ones makes *)
(* no difference.                                                           *)
CreateNewData(free, positions) ==
  CHOOSE list \in [positions -> free] : \A m, n \in positions : list[m] = list[n] => m = n

(* The stack as Initialize builds it: chunk n on top of chunk n + 1.        *)
FirstBlocks == CreateNewData(Blocks, (1 .. InitialChunks) \X (1 .. chunkSize))

FirstChunk(n, place, list) ==
  [blocks |-> [k \in 1 .. chunkSize |-> list[<<n, k>>]],
   next   |-> IF n = InitialChunks THEN NULL ELSE place[n + 1]]

FirstHeader(h, place, list) ==
  IF h \in Values(place)
  THEN FirstChunk(CHOOSE n \in DOMAIN place : place[n] = h, place, list) ELSE NoChunk

Init ==
  \E place \in [1 .. InitialChunks -> Headers] :
    /\ \A m, n \in DOMAIN place : place[m] = place[n] => m = n
    /\ topChunk = [at |-> IF InitialChunks = 0 THEN NULL ELSE place[1], stamp |-> 0]
    /\ header = [h \in Headers |-> FirstHeader(h, place, FirstBlocks)]
    /\ live = Values(place)
    /\ heap = Blocks \ Values(FirstBlocks)
    /\ chunkCapacity = InitialChunks /\ chunkUsed = 0
    /\ freeChunk = <<>> /\ freeChunkLock = NULL /\ ends = 0
    /\ tls = [t \in Threads |-> <<>>] /\ inUse = {}
    /\ pc = [t \in Threads |-> "idle"] /\ then = [t \in Threads |-> "idle"]
    /\ local = [t \in Threads |-> NoLocal]

Goto(t, where)    == pc' = [pc EXCEPT ![t] = where]
Call(t, op, back) == Goto(t, op) /\ then' = [then EXCEPT ![t] = back]
Forgotten(l)      == [l EXCEPT !.top = NULL, !.next = NULL, !.chunk = NULL, !.blocks = <<>>]
Forget(t)         == local' = [local EXCEPT ![t] = Forgotten(local[t])]

-------------------------------------------------------------------------------
(* ChunkLockFree::Alloc.                                                    *)

(* Variant: the exchange compares the address without its stamp.            *)
IsTop_Unstamped(old) == topChunk.at = old.at

(* What InterlockedCompareExchangePointer compares.                         *)
IsTop(old) == topChunk = old

(* MaskAndIncrementStamp: the next value of the top.                        *)
Stamped(address, old) == [at |-> address, stamp |-> (old.stamp + 1) % STAMPS]

(* Bound: no thread sleeps in a loop while the stamps come round to the one *)
(* it has read.                                                             *)
NotComeRound(top) ==
  \A t \in Threads : pc[t] \in {"next", "pop", "push"} => local[t].top.stamp # top.stamp

CreateNewChunk(t) ==
  /\ Cardinality(heap) >= chunkSize
  /\ LET list == CreateNewData(heap, 1 .. chunkSize) IN
       /\ local' = [local EXCEPT ![t].blocks = list]
       /\ heap' = heap \ Values(list)

(* An empty stack makes a new chunk, which never gets on the stack.         *)
AllocTop(t) ==
  /\ pc[t] = "alloc"
  /\ \/ /\ topChunk.at = NULL
        /\ chunkCapacity' = chunkCapacity + 1
        /\ CreateNewChunk(t)
        /\ Goto(t, "take")
     \/ /\ topChunk.at # NULL
        /\ local' = [local EXCEPT ![t].top = topChunk]
        /\ Goto(t, "next")
        /\ UNCHANGED <<chunkCapacity, heap>>
  /\ UNCHANGED <<stack, chunkUsed, ending, tls, inUse, then>>

(* What a freed header holds is unknown.                                    *)
AllocNext(t) ==
  /\ pc[t] = "next"
  /\ \E next \in IF local[t].top.at \in live THEN {header[local[t].top.at].next}
                 ELSE Headers \union {NULL} :
       local' = [local EXCEPT ![t].next = next]
  /\ Goto(t, "pop")
  /\ UNCHANGED <<stack, heap, counts, ending, tls, inUse, then>>

AllocPop(t) ==
  LET old == local[t].top IN
  /\ pc[t] = "pop"
  /\ \/ /\ IsTop(old)
        /\ topChunk' = Stamped(local[t].next, old) /\ NotComeRound(topChunk')
        /\ local' = [local EXCEPT ![t] = [local[t] EXCEPT !.chunk = old.at,
                                                           !.blocks = header[old.at].blocks]]
        /\ Goto(t, "take")
     \/ /\ ~IsTop(old)
        /\ Forget(t)
        /\ Goto(t, "alloc")
        /\ UNCHANGED topChunk
  /\ UNCHANGED <<header, live, heap, counts, ending, tls, inUse, then>>

(* The chunk is counted and its header freed.  MemTLS::Alloc gives the      *)
(* program the first block; GarbageCollect frees them all.                  *)
AllocTake(t) ==
  LET blocks == local[t].blocks  h == local[t].chunk IN
  /\ pc[t] = "take"
  /\ chunkUsed' = chunkUsed + 1
  /\ live' = live \ {h}
  /\ header' = [a \in Headers |-> IF a = h THEN NoChunk ELSE header[a]]
  /\ \/ /\ then[t] = "idle"
        /\ tls' = [tls EXCEPT ![t] = Tail(blocks)]
        /\ inUse' = inUse \union {Head(blocks)}
        /\ Goto(t, "idle")
        /\ Forget(t)
        /\ UNCHANGED heap
     \/ /\ then[t] = "collect"
        /\ heap' = heap \union Values(blocks)
        /\ local' = [local EXCEPT ![t] = [NoLocal EXCEPT !.diff = local[t].diff,
                                                         !.i = local[t].i + 1]]
        /\ Goto(t, "collect")
        /\ UNCHANGED <<tls, inUse>>
  /\ UNCHANGED <<topChunk, chunkCapacity, ending, then>>

-------------------------------------------------------------------------------
(* ChunkLockFree::Free.                                                     *)

Free(t, blocks, back) ==
  /\ \E h \in Headers \ live :
       /\ live' = live \union {h}
       /\ header' = [header EXCEPT ![h] = [blocks |-> blocks, next |-> NULL]]
       /\ local' = [local EXCEPT ![t].chunk = h]
  /\ chunkUsed' = chunkUsed - 1
  /\ Call(t, "link", back)

FreeLink(t) ==
  /\ pc[t] = "link"
  /\ local' = [local EXCEPT ![t].top = topChunk]
  /\ header' = [header EXCEPT ![local[t].chunk].next = topChunk.at]
  /\ Goto(t, "push")
  /\ UNCHANGED <<topChunk, live, heap, counts, ending, tls, inUse, then>>

FreePush(t) ==
  LET old == local[t].top IN
  /\ pc[t] = "push"
  /\ \/ /\ IsTop(old)
        /\ topChunk' = Stamped(local[t].chunk, old) /\ NotComeRound(topChunk')
        /\ Forget(t)
        /\ Goto(t, then[t])
     \/ /\ ~IsTop(old)
        /\ Goto(t, "link")
        /\ UNCHANGED <<topChunk, local>>
  /\ UNCHANGED <<header, live, heap, counts, ending, tls, inUse, then>>

-------------------------------------------------------------------------------
(* MemTLS.                                                                  *)

TlsAlloc(t) ==
  /\ pc[t] = "idle"
  /\ \/ /\ tls[t] # <<>>
        /\ inUse' = inUse \union {Head(tls[t])}
        /\ tls' = [tls EXCEPT ![t] = Tail(@)]
        /\ UNCHANGED <<pc, then>>
     \/ /\ tls[t] = <<>>
        /\ Call(t, "alloc", "idle")
        /\ UNCHANGED <<inUse, tls>>
  /\ UNCHANGED <<stack, heap, counts, ending, local>>

(* Any thread may free a block; with two chunks it returns one.             *)
TlsFree(t, block) ==
  LET list == <<block>> \o tls[t] IN
  /\ pc[t] = "idle" /\ block \in inUse
  /\ inUse' = inUse \ {block}
  /\ \/ /\ Len(list) < 2 * chunkSize
        /\ tls' = [tls EXCEPT ![t] = list]
        /\ UNCHANGED <<header, live, chunkUsed, pc, then, local>>
     \/ /\ Len(list) >= 2 * chunkSize
        /\ tls' = [tls EXCEPT ![t] = SubSeq(list, chunkSize + 1, Len(list))]
        /\ Free(t, SubSeq(list, 1, chunkSize), "idle")
  /\ UNCHANGED <<topChunk, heap, chunkCapacity, ending>>

(* A thread that ends gives its blocks away: a full chunk to the stack,     *)
(* else to freeChunk_.                                                      *)
RemoveRemainders(t) ==
  /\ pc[t] = "idle" /\ tls[t] # <<>> /\ ends < MaxEnds
  /\ ends' = ends + 1
  /\ \/ /\ Len(tls[t]) = chunkSize
        /\ Free(t, tls[t], "idle")
        /\ tls' = [tls EXCEPT ![t] = <<>>]
     \/ /\ Len(tls[t]) # chunkSize
        /\ Goto(t, "gather")
        /\ UNCHANGED <<header, live, chunkUsed, then, local, tls>>
  /\ UNCHANGED <<topChunk, heap, chunkCapacity, freeChunk, freeChunkLock, inUse>>

(* Variant: what is gathered beyond a chunk is dropped.                     *)
Kept_Dropped(list) == <<>>

(* The blocks left in freeChunk_ when its first chunk is returned.          *)
Kept(list) == SubSeq(list, chunkSize + 1, Len(list))

(* freeChunk_ is extended at its tail; a whole chunk is returned, and the   *)
(* lock is held until it is on the stack.                                   *)
FreeFromTLSDestruction(t) ==
  LET list == freeChunk \o tls[t] IN
  /\ pc[t] = "gather" /\ freeChunkLock = NULL
  /\ tls' = [tls EXCEPT ![t] = <<>>]
  /\ \/ /\ Len(list) < chunkSize
        /\ freeChunk' = list
        /\ Goto(t, "compare")
        /\ UNCHANGED <<header, live, chunkUsed, then, local, freeChunkLock>>
     \/ /\ Len(list) >= chunkSize
        /\ freeChunk' = Kept(list)
        /\ freeChunkLock' = t
        /\ Free(t, SubSeq(list, 1, chunkSize), "unlock")
  /\ UNCHANGED <<topChunk, heap, chunkCapacity, inUse, ends>>

Unlock(t) ==
  /\ pc[t] = "unlock"
  /\ freeChunkLock' = NULL
  /\ Goto(t, "compare")
  /\ UNCHANGED <<stack, heap, counts, freeChunk, ends, tls, inUse, then, local>>

-------------------------------------------------------------------------------
(* ChunkLockFree::GarbageCollect, at the end of a thread or of its own.     *)

Collect(t) ==
  /\ pc[t] \in {"idle", "compare"}
  /\ LET diff == chunkCapacity - chunkUsed * 3 IN
     \/ /\ diff > 0
        /\ local' = [local EXCEPT ![t].diff = diff]
        /\ Goto(t, "collect")
     \/ /\ diff <= 0 /\ pc[t] = "compare"
        /\ Goto(t, "idle")
        /\ UNCHANGED local
  /\ UNCHANGED <<stack, heap, counts, ending, tls, inUse, then>>

(* diff chunks, made for it if need be, are freed, then subtracted.         *)
CollectNext(t) ==
  /\ pc[t] = "collect"
  /\ \/ /\ local[t].i < local[t].diff
        /\ Call(t, "alloc", "collect")
        /\ UNCHANGED <<local, chunkUsed>>
     \/ /\ local[t].i = local[t].diff
        /\ chunkUsed' = chunkUsed - local[t].diff
        /\ Goto(t, "collected")
        /\ UNCHANGED <<then, local>>
  /\ UNCHANGED <<stack, heap, chunkCapacity, ending, tls, inUse>>

(* Variant: the capacity is left as it was.                                 *)
Shrunk_Not(diff) == chunkCapacity

Shrunk(diff) == chunkCapacity - diff

Collected(t) ==
  /\ pc[t] = "collected"
  /\ chunkCapacity' = Shrunk(local[t].diff)
  /\ local' = [local EXCEPT ![t] = NoLocal]
  /\ Call(t, "idle", "idle")
  /\ UNCHANGED <<stack, heap, chunkUsed, ending, tls, inUse>>

-------------------------------------------------------------------------------
Next == \E t \in Threads :
  \/ AllocTop(t) \/ AllocNext(t) \/ AllocPop(t) \/ AllocTake(t)
  \/ FreeLink(t) \/ FreePush(t)
  \/ TlsAlloc(t) \/ RemoveRemainders(t) \/ FreeFromTLSDestruction(t) \/ Unlock(t)
  \/ \E block \in Blocks : TlsFree(t, block)
  \/ Collect(t) \/ CollectNext(t) \/ Collected(t)

Spec == Init /\ [][Next]_vars

-------------------------------------------------------------------------------
(* The headers that can be reached from the top of the stack.               *)
OnStack ==
  {h \in Headers : \A S \in SUBSET Headers :
     /\ topChunk.at \in S \union {NULL}
     /\ \A x \in S : header[x].next \in S \union {NULL}
     => h \in S}

(* The chunk that a thread has popped or has yet to push.                   *)
InHand(t) == IF pc[t] = "take" THEN local[t].blocks
             ELSE IF pc[t] \in {"link", "push"} THEN header[local[t].chunk].blocks ELSE <<>>

(* The lists that blocks can be in.                                         *)
Lists ==
  ({"tls", "hand"} \X Threads) \union ({"stack"} \X OnStack) \union {<<"freeChunk", NULL>>}
ListOf(l) ==
  CASE l[1] = "tls"   -> tls[l[2]]            [] l[1] = "hand"      -> InHand(l[2])
    [] l[1] = "stack" -> header[l[2]].blocks  [] l[1] = "freeChunk" -> freeChunk

(* Every block is in one place: on one list once, or with the program, or   *)
(* freed; none is lost and none is handed out twice, however the stamped    *)
(* exchanges of the threads interleave.                                     *)
BlockHasOnePlace ==
  /\ \A l \in Lists : Len(ListOf(l)) = Cardinality(Values(ListOf(l)))
  /\ \A l, k \in Lists : l # k => Values(ListOf(l)) \intersect Values(ListOf(k)) = {}
  /\ \A l \in Lists : Values(ListOf(l)) \intersect (inUse \union heap) = {}
  /\ inUse \intersect heap = {}
  /\ (UNION {Values(ListOf(l)) : l \in Lists}) \union inUse \union heap = Blocks

(* The stack holds whole chunks in headers that are allocated, in no        *)
(* thread's hands and reached once.                                         *)
StackIsSound ==
  /\ OnStack \subseteq live
  /\ \A h \in OnStack : Len(header[h].blocks) = chunkSize
  /\ \A h, k \in OnStack : header[h].next = header[k].next => h = k
  /\ \A h \in OnStack : header[h].next # topChunk.at
  /\ \A t \in Threads : pc[t] \in {"take", "link", "push"} => local[t].chunk \notin OnStack

(* When no thread is inside the pool, chunkCapacity_ and chunkUsed_ tell    *)
(* how many chunks of blocks there are and how many are off the stack.      *)
CountersAgree ==
  (\A t \in Threads : pc[t] = "idle") =>
    /\ chunkCapacity * chunkSize = Cardinality(Blocks \ heap)
    /\ chunkCapacity - chunkUsed = Cardinality(OnStack)
===============================================================================
