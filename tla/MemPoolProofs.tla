------------------------------ MODULE MemPoolProofs ------------------------------
(***************************************************************************)
(* Theorems about MemPool, for any number of threads, blocks, headers and  *)
(* chunks of any size, and for runs of any length, as long as no thread    *)
(* sleeps in a loop while the stamps come round.                           *)
(*                                                                         *)
(* The invariant speaks of the stack as a sequence of headers that exists, *)
(* of the places where blocks are as a partition of all blocks, and of the *)
(* counters as sums over the threads.  OnStack and the number of blocks    *)
(* come back at the end.                                                   *)
(***************************************************************************)
EXTENDS MemPool, FiniteSetTheorems, FunctionTheorems, SequenceTheorems, WellFoundedInduction,
        TLAPS

Steps ==
  {"idle", "alloc", "next", "pop", "take", "link", "push", "gather", "compare", "unlock",
   "collect", "collected"}

(* A thread holds a chunk, has read the top, and is in Alloc.               *)
HandSteps  == {"take", "link", "push"}
TopSteps   == {"next", "pop", "push"}
AllocSteps == {"alloc", "next", "pop", "take"}

Tops    == [at : Headers \union {NULL}, stamp : 0 .. STAMPS - 1]
Chunks  == [blocks : Seq(Blocks), next : Headers \union {NULL}]
Locals  == [top : Tops \union {NULL}, next : Headers \union {NULL}, chunk : Headers \union {NULL},
            blocks : Seq(Blocks), diff : Nat, i : Nat]

TypeInv ==
  /\ topChunk \in Tops /\ header \in [Headers -> Chunks] /\ live \subseteq Headers
  /\ heap \subseteq Blocks /\ inUse \subseteq Blocks
  /\ chunkCapacity \in Int /\ chunkUsed \in Int
  /\ freeChunk \in Seq(Blocks) /\ tls \in [Threads -> Seq(Blocks)]
  /\ pc \in [Threads -> Steps] /\ then \in [Threads -> {"idle", "collect", "unlock"}]
  /\ local \in [Threads -> Locals]

(* In GarbageCollect, and in the Alloc that it calls.                       *)
Collecting(t) ==
  pc[t] \in {"collect", "collected"} \/ (pc[t] \in AllocSteps /\ then[t] = "collect")

(***************************************************************************)
(* What a thread knows, wherever the others are.                           *)
(***************************************************************************)
ThreadInv(t) ==
  /\ pc[t] \in TopSteps => local[t].top \in Tops
  /\ pc[t] \in {"next", "pop"} => local[t].top.at \in Headers
  /\ pc[t] \notin HandSteps => local[t].chunk = NULL
  /\ local[t].chunk \in live \union {NULL}
  /\ pc[t] \in {"link", "push"} => local[t].chunk # NULL /\ then[t] # "collect"
  /\ pc[t] \in HandSteps => Len(InHand(t)) = chunkSize
  /\ pc[t] \in AllocSteps => then[t] # "unlock" /\ (then[t] = "idle" => tls[t] = <<>>)
  /\ pc[t] = "push" => header[local[t].chunk].next = local[t].top.at
  /\ ~Collecting(t) => local[t].i = 0
  /\ local[t].i <= local[t].diff
  /\ pc[t] \in AllocSteps /\ then[t] = "collect" => local[t].i < local[t].diff
  /\ pc[t] = "collected" => local[t].i = local[t].diff

(* A thread that has read the top as it is has read what the chunk under it *)
(* is, too: until the stamp changes nobody writes to the header.            *)
TopInv(t) ==
  /\ pc[t] \in TopSteps /\ local[t].top.stamp = topChunk.stamp => local[t].top = topChunk
  /\ pc[t] = "pop" /\ local[t].top = topChunk => local[t].next = header[topChunk.at].next

(* stk are the headers on the stack, from the top.                          *)
Stacked(stk) ==
  /\ topChunk.at = IF stk = <<>> THEN NULL ELSE stk[1]
  /\ \A n \in DOMAIN stk :
       /\ stk[n] \in live
       /\ header[stk[n]].next = IF n = Len(stk) THEN NULL ELSE stk[n + 1]
       /\ Len(header[stk[n]].blocks) = chunkSize
       /\ \A m \in DOMAIN stk : stk[m] = stk[n] => m = n

(* The chunk of a thread is neither on the stack nor in other hands.        *)
HandsApart(stk) ==
  \A t \in Threads : local[t].chunk # NULL =>
    /\ local[t].chunk \notin Values(stk)
    /\ \A u \in Threads : local[u].chunk = local[t].chunk => u = t

(***************************************************************************)
(* Where the blocks are: every block has one place, and occurs once there. *)
(***************************************************************************)
Keys == ({"tls", "hand"} \X Threads) \union ({"stack"} \X Headers)
        \union {<<"freeChunk", NULL>>, <<"inUse", NULL>>, <<"heap", NULL>>}

Held(stk, k) ==
  CASE k[1] = "tls"       -> Values(tls[k[2]])
    [] k[1] = "hand"      -> Values(InHand(k[2]))
    [] k[1] = "stack"     -> IF k[2] \in Values(stk) THEN Values(header[k[2]].blocks) ELSE {}
    [] k[1] = "freeChunk" -> Values(freeChunk)
    [] k[1] = "inUse"     -> inUse
    [] k[1] = "heap"      -> heap

View(stk) == [k \in Keys |-> Held(stk, k)]

Parted(F) ==
  /\ F \in [Keys -> SUBSET Blocks]
  /\ \A b \in Blocks : \E k \in Keys : b \in F[k] /\ \A j \in Keys : b \in F[j] => j = k

Distinct(list) == \A m, n \in DOMAIN list : list[m] = list[n] => m = n

AllDistinct(stk) ==
  /\ \A t \in Threads : Distinct(tls[t]) /\ Distinct(InHand(t))
  /\ \A h \in Values(stk) : Distinct(header[h].blocks)
  /\ Distinct(freeChunk)

(***************************************************************************)
(* The counters: chunks that are freed and not subtracted yet, and chunks  *)
(* that are on no stack and not counted as used yet, or on their way back. *)
(***************************************************************************)
Units(f) == {x \in Threads \X Nat : 1 <= x[2] /\ x[2] <= f[x[1]]}
Sum(f)   == Cardinality(Units(f))

PendingOf(t) == IF pc[t] \in HandSteps THEN 1
                ELSE IF pc[t] = "collected" THEN local[t].diff ELSE 0

Freed   == [t \in Threads |-> local[t].i]
Pending == [t \in Threads |-> PendingOf(t)]

Counted(stk) ==
  /\ Cardinality(Blocks \ heap) = (chunkCapacity - Sum(Freed)) * chunkSize
  /\ chunkCapacity - chunkUsed = Len(stk) + Sum(Pending)

Good(stk) ==
  /\ Stacked(stk) /\ HandsApart(stk)
  /\ Parted(View(stk)) /\ AllDistinct(stk)
  /\ Counted(stk)

Inv ==
  /\ TypeInv
  /\ \A t \in Threads : ThreadInv(t) /\ TopInv(t)
  /\ \E stk \in Seq(Headers) : Good(stk)

-------------------------------------------------------------------------------
(***************************************************************************)
(* Sums over the threads.                                                  *)
(***************************************************************************)
LEMMA UnitsOfOne ==
  ASSUME NEW f \in [Threads -> Nat], NEW t \in Threads
  PROVE  /\ IsFiniteSet({x \in Units(f) : x[1] = t})
         /\ Cardinality({x \in Units(f) : x[1] = t}) = f[t]
<1> DEFINE A == 1 .. f[t]
           B == {x \in Units(f) : x[1] = t}
           g == [n \in A |-> <<t, n>>]
<1>1. f[t] \in Nat
  OBVIOUS
<1>2. IsFiniteSet(A) /\ Cardinality(A) = f[t]
  BY <1>1, FS_Interval
<1>3. g \in Bijection(A, B)
  <2>1. g \in [A -> B]
    BY <1>1 DEF Units
  <2>2. \A m, n \in A : g[m] = g[n] => m = n
    OBVIOUS
  <2>3. ASSUME NEW b \in B PROVE \E n \in A : g[n] = b
    <3>1. b = <<t, b[2]>> /\ b[2] \in A
      BY <1>1 DEF Units
    <3>. QED  BY <3>1
  <2>. QED  BY <2>1, <2>2, <2>3 DEF Bijection, Injection, Surjection, IsInjective
<1>4. ExistsBijection(A, B)
  BY <1>3 DEF ExistsBijection
<1>. QED  BY <1>2, <1>4, FS_Bijection

LEMMA UnitsFinite ==
  ASSUME NEW f \in [Threads -> Nat]
  PROVE  IsFiniteSet(Units(f)) /\ Sum(f) \in Nat
<1> DEFINE U == {{x \in Units(f) : x[1] = t} : t \in Threads}
           g == [t \in Threads |-> {x \in Units(f) : x[1] = t}]
<1>1. g \in Surjection(Threads, U)
  BY DEF Surjection
<1>2. IsFiniteSet(U)
  BY <1>1, FS_Surjection, PoolAssumption
<1>3. ASSUME NEW V \in U PROVE IsFiniteSet(V)
  BY UnitsOfOne
<1>4. IsFiniteSet(UNION U)
  BY <1>2, <1>3, FS_UNION
<1>5. Units(f) \subseteq UNION U
  BY DEF Units
<1>6. IsFiniteSet(Units(f))
  BY <1>4, <1>5, FS_Subset
<1>. QED  BY <1>6, FS_CardinalityType DEF Sum

LEMMA DisjointUnion ==
  ASSUME NEW A, NEW B, IsFiniteSet(A), IsFiniteSet(B), A \intersect B = {}
  PROVE  /\ IsFiniteSet(A \union B)
         /\ Cardinality(A \union B) = Cardinality(A) + Cardinality(B)
         /\ Cardinality(A) \in Nat /\ Cardinality(B) \in Nat
<1>1. /\ IsFiniteSet(A \union B)
      /\ Cardinality(A \union B) = Cardinality(A) + Cardinality(B) - Cardinality(A \intersect B)
  BY FS_Union
<1>2. Cardinality(A \intersect B) = 0
  BY FS_EmptySet
<1>3. Cardinality(A) \in Nat /\ Cardinality(B) \in Nat
  BY FS_CardinalityType
<1>. QED  BY <1>1, <1>2, <1>3

LEMMA SumSplit ==
  ASSUME NEW f \in [Threads -> Nat], NEW t \in Threads
  PROVE  /\ Sum(f) = Cardinality({x \in Units(f) : x[1] # t}) + f[t]
         /\ Cardinality({x \in Units(f) : x[1] # t}) \in Nat
<1> DEFINE A == {x \in Units(f) : x[1] # t}
           B == {x \in Units(f) : x[1] = t}
<1>1. IsFiniteSet(A)
  BY UnitsFinite, FS_Subset
<1>2. IsFiniteSet(B) /\ Cardinality(B) = f[t]
  BY UnitsOfOne
<1>3. Units(f) = A \union B /\ A \intersect B = {}
  OBVIOUS
<1>. QED  BY <1>1, <1>2, <1>3, DisjointUnion DEF Sum

(* One thread's part changes.                                               *)
LEMMA SumChange ==
  ASSUME NEW f \in [Threads -> Nat], NEW g \in [Threads -> Nat], NEW t \in Threads,
         \A u \in Threads : u # t => g[u] = f[u]
  PROVE  Sum(g) + f[t] = Sum(f) + g[t] /\ Sum(f) \in Nat /\ Sum(g) \in Nat
<1>1. {x \in Units(f) : x[1] # t} = {x \in Units(g) : x[1] # t}
  BY DEF Units
<1>2. PICK c \in Nat : c = Cardinality({x \in Units(f) : x[1] # t})
  BY SumSplit
<1>3. Sum(f) = c + f[t]
  BY <1>2, SumSplit
<1>4. Sum(g) = c + g[t]
  BY <1>1, <1>2, SumSplit
<1>5. f[t] \in Nat /\ g[t] \in Nat
  OBVIOUS
<1>. QED  BY <1>3, <1>4, <1>5

LEMMA SumZero ==
  ASSUME NEW f \in [Threads -> Nat], \A t \in Threads : f[t] = 0
  PROVE  Sum(f) = 0
<1>1. Units(f) = {}
  BY DEF Units
<1>. QED  BY <1>1, FS_EmptySet DEF Sum

-------------------------------------------------------------------------------
(***************************************************************************)
(* Lists of blocks.                                                        *)
(***************************************************************************)
LEMMA ListValues ==
  ASSUME NEW q \in Seq(Blocks)
  PROVE  Values(q) \subseteq Blocks /\ Len(q) \in Nat /\ DOMAIN q = 1 .. Len(q)
         /\ (q = <<>> <=> Len(q) = 0) /\ (q = <<>> <=> Values(q) = {})
<1>1. Len(q) \in Nat /\ DOMAIN q = 1 .. Len(q) /\ (q = <<>> <=> Len(q) = 0)
  OBVIOUS
<1>2. \A n \in DOMAIN q : q[n] \in Blocks
  OBVIOUS
<1>3. q # <<>> => q[1] \in Values(q)
  BY <1>1 DEF Values
<1>4. q = <<>> => Values(q) = {}
  BY DEF Values
<1>. QED  BY <1>1, <1>2, <1>3, <1>4 DEF Values

LEMMA Nothing == <<>> \in Seq(Blocks) /\ Values(<<>>) = {} /\ Distinct(<<>>) /\ Len(<<>>) = 0
BY DEF Values, Distinct

(* A list in which nothing occurs twice is as long as it has elements.      *)
LEMMA DistinctLength ==
  ASSUME NEW q \in Seq(Blocks), Distinct(q)
  PROVE  IsFiniteSet(Values(q)) /\ Cardinality(Values(q)) = Len(q)
<1>1. Len(q) \in Nat /\ DOMAIN q = 1 .. Len(q)
  OBVIOUS
<1>2. q \in Bijection(1 .. Len(q), Values(q))
  <2>1. q \in [1 .. Len(q) -> Values(q)]
    BY <1>1 DEF Values
  <2>2. \A m, n \in 1 .. Len(q) : q[m] = q[n] => m = n
    BY <1>1 DEF Distinct
  <2>3. \A b \in Values(q) : \E n \in 1 .. Len(q) : q[n] = b
    BY <1>1 DEF Values
  <2>. QED  BY <2>1, <2>2, <2>3 DEF Bijection, Injection, Surjection, IsInjective
<1>3. IsFiniteSet(1 .. Len(q)) /\ Cardinality(1 .. Len(q)) = Len(q)
  BY <1>1, FS_Interval
<1>4. ExistsBijection(1 .. Len(q), Values(q))
  BY <1>2 DEF ExistsBijection
<1>. QED  BY <1>3, <1>4, FS_Bijection

(* p and q have nothing in common, and make up the set S.                   *)
Makes(p, q, S) ==
  /\ p \in Seq(Blocks) /\ q \in Seq(Blocks) /\ Distinct(p) /\ Distinct(q)
  /\ Values(p) \intersect Values(q) = {} /\ Values(p) \union Values(q) = S

(* A list is cut after n blocks.                                            *)
LEMMA Cut ==
  ASSUME NEW q \in Seq(Blocks), Distinct(q), NEW n \in Nat, n <= Len(q)
  PROVE  /\ Makes(SubSeq(q, 1, n), SubSeq(q, n + 1, Len(q)), Values(q))
         /\ Len(SubSeq(q, 1, n)) = n
<1>1. PICK l \in Nat : l = Len(q) /\ DOMAIN q = 1 .. l /\ \A k \in 1 .. l : q[k] \in Blocks
  OBVIOUS
<1>2. PICK a : a = SubSeq(q, 1, n)
  OBVIOUS
<1>3. PICK b : b = SubSeq(q, n + 1, l)
  OBVIOUS
<1>4. a \in Seq(Blocks) /\ Len(a) = n /\ DOMAIN a = 1 .. n /\ \A k \in 1 .. n : a[k] = q[k]
  BY <1>1, <1>2
<1>5. /\ b \in Seq(Blocks) /\ DOMAIN b = 1 .. l - n
      /\ \A k \in 1 .. l - n : b[k] = q[n + k]
  BY <1>1, <1>3
<1>6. \A k \in 1 .. n : k \in 1 .. l
  BY <1>1
<1>7. \A k \in 1 .. l - n : n + k \in 1 .. l /\ n + k \notin 1 .. n
  BY <1>1
<1>8. \A k \in 1 .. l : k \in 1 .. n \/ (k - n \in 1 .. l - n /\ n + (k - n) = k)
  BY <1>1
<1>9. Distinct(a)
  BY <1>1, <1>4, <1>6 DEF Distinct
<1>10. Distinct(b)
  <2> SUFFICES ASSUME NEW k \in 1 .. l - n, NEW m \in 1 .. l - n, b[k] = b[m]
               PROVE  k = m
    BY <1>5 DEF Distinct
  <2>1. q[n + k] = q[n + m] /\ n + k \in DOMAIN q /\ n + m \in DOMAIN q
    BY <1>1, <1>5, <1>7
  <2>2. n + k = n + m
    BY <2>1 DEF Distinct
  <2>. QED  BY <2>2
<1>11. Values(a) \intersect Values(b) = {}
  <2> SUFFICES ASSUME NEW x \in Values(a), x \in Values(b) PROVE FALSE
    OBVIOUS
  <2>1. PICK k \in 1 .. n : x = q[k]
    BY <1>4 DEF Values
  <2>2. PICK m \in 1 .. l - n : x = q[n + m]
    BY <1>5 DEF Values
  <2>3. k = n + m
    BY <1>1, <1>6, <1>7, <2>1, <2>2 DEF Distinct
  <2>. QED  BY <1>7, <2>3
<1>12. Values(a) \union Values(b) = Values(q)
  <2>1. Values(a) \subseteq Values(q) /\ Values(b) \subseteq Values(q)
    BY <1>1, <1>4, <1>5, <1>6, <1>7 DEF Values
  <2>2. ASSUME NEW x \in Values(q) PROVE x \in Values(a) \union Values(b)
    <3>1. PICK k \in 1 .. l : x = q[k]
      BY <1>1 DEF Values
    <3>2. CASE k \in 1 .. n
      BY <1>4, <3>1, <3>2 DEF Values
    <3>3. CASE k \notin 1 .. n
      <4>1. PICK m \in 1 .. l - n : n + m = k
        BY <1>8, <3>3
      <4>. QED  BY <1>5, <3>1, <4>1 DEF Values
    <3>. QED  BY <3>2, <3>3
  <2>. QED  BY <2>1, <2>2
<1>. QED  BY <1>1, <1>2, <1>3, <1>4, <1>5, <1>9, <1>10, <1>11, <1>12 DEF Makes

(* Two lists are joined.                                                    *)
LEMMA Joined ==
  ASSUME NEW p \in Seq(Blocks), NEW q \in Seq(Blocks), Distinct(p), Distinct(q),
         Values(p) \intersect Values(q) = {}
  PROVE  /\ p \o q \in Seq(Blocks) /\ Distinct(p \o q)
         /\ Values(p \o q) = Values(p) \union Values(q)
<1>1. PICK k \in Nat : k = Len(p) /\ DOMAIN p = 1 .. k
  OBVIOUS
<1>2. PICK l \in Nat : l = Len(q) /\ DOMAIN q = 1 .. l
  OBVIOUS
<1>3. PICK r : r = p \o q
  OBVIOUS
<1>4. /\ r \in Seq(Blocks) /\ DOMAIN r = 1 .. k + l
      /\ \A n \in 1 .. k : r[n] = p[n]
      /\ \A n \in k + 1 .. k + l : r[n] = q[n - k]
  BY <1>1, <1>2, <1>3
<1>5. \A n \in 1 .. k + l : n \in 1 .. k \/ (n \in k + 1 .. k + l /\ n - k \in 1 .. l)
  OBVIOUS
<1>6. \A n \in 1 .. l : n + k \in k + 1 .. k + l /\ (n + k) - k = n /\ n + k \in 1 .. k + l
  OBVIOUS
<1>7. \A n \in 1 .. k : n \in 1 .. k + l
  OBVIOUS
<1>8. /\ \A n \in 1 .. k : r[n] \in Values(p)
      /\ \A n \in k + 1 .. k + l : r[n] \in Values(q)
  <2>1. ASSUME NEW n \in 1 .. k PROVE r[n] \in Values(p)
    BY <1>1, <1>4 DEF Values
  <2>2. ASSUME NEW n \in k + 1 .. k + l PROVE r[n] \in Values(q)
    <3>1. n - k \in 1 .. l
      OBVIOUS
    <3>. QED  BY <1>2, <1>4, <3>1 DEF Values
  <2>. QED  BY <2>1, <2>2
<1>9. Values(r) = Values(p) \union Values(q)
  <2>1. Values(r) \subseteq Values(p) \union Values(q)
    BY <1>4, <1>5, <1>8 DEF Values
  <2>2. Values(p) \subseteq Values(r)
    BY <1>1, <1>4, <1>7 DEF Values
  <2>3. ASSUME NEW n \in 1 .. l PROVE q[n] \in Values(r)
    <3>1. r[n + k] = q[n] /\ n + k \in DOMAIN r
      BY <1>4, <1>6
    <3>. QED  BY <3>1 DEF Values
  <2>. QED  BY <1>2, <2>1, <2>2, <2>3 DEF Values
<1>10. Distinct(r)
  <2> SUFFICES ASSUME NEW m \in 1 .. k + l, NEW n \in 1 .. k + l, r[m] = r[n]
               PROVE  m = n
    BY <1>4 DEF Distinct
  <2>1. CASE m \in 1 .. k /\ n \in 1 .. k
    BY <1>1, <1>4, <2>1 DEF Distinct
  <2>2. CASE m \notin 1 .. k /\ n \notin 1 .. k
    <3>1. r[m] = q[m - k] /\ r[n] = q[n - k] /\ m - k \in 1 .. l /\ n - k \in 1 .. l
      BY <1>4, <1>5, <2>2
    <3>2. m - k = n - k
      BY <1>2, <3>1 DEF Distinct
    <3>. QED  BY <3>2
  <2>3. CASE m \in 1 .. k /\ n \notin 1 .. k
    BY <1>5, <1>8, <2>3
  <2>4. CASE m \notin 1 .. k /\ n \in 1 .. k
    BY <1>5, <1>8, <2>4
  <2>. QED  BY <2>1, <2>2, <2>3, <2>4
<1>. QED  BY <1>3, <1>4, <1>9, <1>10

(* The first block, and the others.                                         *)
LEMMA HeadAndTail ==
  ASSUME NEW q \in Seq(Blocks), Distinct(q), q # <<>>
  PROVE  /\ Head(q) \in Blocks /\ Tail(q) \in Seq(Blocks) /\ Distinct(Tail(q))
         /\ Head(q) \notin Values(Tail(q)) /\ Values(q) = {Head(q)} \union Values(Tail(q))
<1>1. PICK l \in Nat : l = Len(q) /\ DOMAIN q = 1 .. l /\ l > 0
  OBVIOUS
<1>2. PICK r : r = Tail(q)
  OBVIOUS
<1>3. r \in Seq(Blocks) /\ DOMAIN r = 1 .. l - 1 /\ \A n \in 1 .. l - 1 : r[n] = q[n + 1]
  BY <1>1, <1>2
<1>4. Head(q) = q[1] /\ q[1] \in Blocks /\ 1 \in 1 .. l
  BY <1>1
<1>5. \A n \in 1 .. l - 1 : n + 1 \in 1 .. l /\ n + 1 # 1
  BY <1>1
<1>6. Distinct(r)
  <2> SUFFICES ASSUME NEW m \in 1 .. l - 1, NEW n \in 1 .. l - 1, r[m] = r[n]
               PROVE  m = n
    BY <1>3 DEF Distinct
  <2>1. q[m + 1] = q[n + 1] /\ m + 1 \in DOMAIN q /\ n + 1 \in DOMAIN q
    BY <1>1, <1>3, <1>5
  <2>2. m + 1 = n + 1
    BY <2>1 DEF Distinct
  <2>. QED  BY <2>2
<1>7. q[1] \notin Values(r)
  BY <1>1, <1>3, <1>4, <1>5 DEF Distinct, Values
<1>8. Values(q) = {q[1]} \union Values(r)
  <2>1. Values(r) \subseteq Values(q) /\ q[1] \in Values(q)
    BY <1>1, <1>3, <1>4, <1>5 DEF Values
  <2>2. ASSUME NEW n \in 1 .. l PROVE q[n] \in {q[1]} \union Values(r)
    <3>1. CASE n = 1
      BY <3>1
    <3>2. CASE n # 1
      <4>1. n - 1 \in 1 .. l - 1 /\ (n - 1) + 1 = n
        BY <3>2
      <4>2. r[n - 1] = q[n]
        BY <1>3, <4>1
      <4>. QED  BY <1>3, <4>1, <4>2 DEF Values
    <3>. QED  BY <3>1, <3>2
  <2>. QED  BY <1>1, <2>1, <2>2 DEF Values
<1>. QED  BY <1>2, <1>3, <1>4, <1>6, <1>7, <1>8

-------------------------------------------------------------------------------
(***************************************************************************)
(* The places of blocks.                                                   *)
(***************************************************************************)
Tls(t)  == <<"tls", t>>
Hand(t) == <<"hand", t>>
Top(h)  == <<"stack", h>>
FreeKey == <<"freeChunk", NULL>>
UseKey  == <<"inUse", NULL>>
HeapKey == <<"heap", NULL>>

LEMMA KeysAre ==
  /\ \A t \in Threads : Tls(t) \in Keys /\ Hand(t) \in Keys
  /\ \A h \in Headers : Top(h) \in Keys
  /\ FreeKey \in Keys /\ UseKey \in Keys /\ HeapKey \in Keys
  /\ \A k \in Keys :
       \/ \E t \in Threads : k = Tls(t) \/ k = Hand(t)
       \/ \E h \in Headers : k = Top(h)
       \/ k \in {FreeKey, UseKey, HeapKey}
BY DEF Keys, Tls, Hand, Top, FreeKey, UseKey, HeapKey

LEMMA KeysDiffer ==
  /\ \A t, u : /\ Tls(t) # Hand(u) /\ Tls(t) # Top(u) /\ Hand(t) # Top(u)
               /\ (Tls(t) = Tls(u) => t = u) /\ (Hand(t) = Hand(u) => t = u)
               /\ (Top(t) = Top(u) => t = u)
  /\ \A t : \A k \in {FreeKey, UseKey, HeapKey} : Tls(t) # k /\ Hand(t) # k /\ Top(t) # k
  /\ FreeKey # UseKey /\ FreeKey # HeapKey /\ UseKey # HeapKey
BY DEF Tls, Hand, Top, FreeKey, UseKey, HeapKey

LEMMA HeldIs ==
  ASSUME NEW stk
  PROVE  /\ \A t : Held(stk, Tls(t)) = Values(tls[t]) /\ Held(stk, Hand(t)) = Values(InHand(t))
         /\ \A h : Held(stk, Top(h)) = IF h \in Values(stk) THEN Values(header[h].blocks) ELSE {}
         /\ Held(stk, FreeKey) = Values(freeChunk)
         /\ Held(stk, UseKey) = inUse /\ Held(stk, HeapKey) = heap
BY DEF Held, Tls, Hand, Top, FreeKey, UseKey, HeapKey

(* What the keys of D hold is held by keys of D again.                      *)
Reparted(stk, stk2, D) ==
  /\ \A k \in Keys \ D : Held(stk2, k)' = Held(stk, k)
  /\ \A k \in D : Held(stk2, k)' \subseteq Blocks
  /\ \A k, j \in D : k # j => Held(stk2, k)' \intersect Held(stk2, j)' = {}
  /\ \A b \in Blocks : (\E k \in D : b \in Held(stk, k)) <=> (\E k \in D : b \in Held(stk2, k)')

LEMMA Repart ==
  ASSUME NEW stk, NEW stk2, Parted(View(stk)), NEW D \in SUBSET Keys, Reparted(stk, stk2, D)
  PROVE  Parted(View(stk2))'
<1>1. PICK F : F = View(stk)
  OBVIOUS
<1>2. PICK G : G = [k \in Keys |-> Held(stk2, k)']
  OBVIOUS
<1>3. /\ F \in [Keys -> SUBSET Blocks]
      /\ \A b \in Blocks : \E k \in Keys : b \in F[k] /\ \A j \in Keys : b \in F[j] => j = k
  BY <1>1 DEF Parted
<1>4. \A k \in Keys : F[k] = Held(stk, k) /\ G[k] = Held(stk2, k)'
  BY <1>1, <1>2 DEF View
<1>5. /\ \A k \in Keys \ D : G[k] = F[k]
      /\ \A k \in D : G[k] \subseteq Blocks
      /\ \A k, j \in D : k # j => G[k] \intersect G[j] = {}
      /\ \A b \in Blocks : (\E k \in D : b \in F[k]) <=> (\E k \in D : b \in G[k])
  BY <1>4 DEF Reparted
<1>6. G \in [Keys -> SUBSET Blocks]
  BY <1>2, <1>3, <1>5
<1>7. ASSUME NEW b \in Blocks
      PROVE  \E k \in Keys : b \in G[k] /\ \A j \in Keys : b \in G[j] => j = k
  <2>1. PICK k \in Keys : b \in F[k] /\ \A j \in Keys : b \in F[j] => j = k
    BY <1>3
  <2>2. CASE k \in D
    <3>1. PICK i \in D : b \in G[i]
      BY <1>5, <2>1, <2>2
    <3>2. ASSUME NEW j \in Keys, b \in G[j] PROVE j = i
      <4>1. CASE j \in D
        BY <1>5, <3>1, <3>2, <4>1
      <4>2. CASE j \notin D
        BY <1>5, <2>1, <2>2, <3>2, <4>2
      <4>. QED  BY <4>1, <4>2
    <3>. QED  BY <3>1, <3>2
  <2>3. CASE k \notin D
    <3>1. b \in G[k]
      BY <1>5, <2>1, <2>3
    <3>2. ASSUME NEW j \in Keys, b \in G[j] PROVE j = k
      <4>1. CASE j \in D
        BY <1>5, <2>1, <2>3, <3>2, <4>1
      <4>2. CASE j \notin D
        BY <1>5, <2>1, <3>2, <4>2
      <4>. QED  BY <4>1, <4>2
    <3>. QED  BY <3>1, <3>2
  <2>. QED  BY <2>2, <2>3
<1>8. Parted(G)
  BY <1>6, <1>7 DEF Parted
<1>9. View(stk2)' = G
  BY <1>2 DEF View
<1>10. Parted(View(stk2)') = Parted(View(stk2))'
  BY DEF Parted
<1>. QED  BY <1>8, <1>9, <1>10

(* No block is held by two keys.                                            *)
LEMMA PartsApart ==
  ASSUME NEW stk, Parted(View(stk)), NEW k \in Keys, NEW j \in Keys, k # j
  PROVE  /\ Held(stk, k) \intersect Held(stk, j) = {}
         /\ Held(stk, k) \subseteq Blocks
<1>1. View(stk)[k] = Held(stk, k) /\ View(stk)[j] = Held(stk, j)
  BY DEF View
<1>2. View(stk)[k] \subseteq Blocks
  BY DEF Parted
<1>. QED  BY <1>1, <1>2 DEF Parted

-------------------------------------------------------------------------------
(***************************************************************************)
(* The records of the threads.                                             *)
(***************************************************************************)
Is(r, top, next, chunk, blocks, diff, i) ==
  /\ r \in Locals
  /\ r.top = top /\ r.next = next /\ r.chunk = chunk /\ r.blocks = blocks
  /\ r.diff = diff /\ r.i = i

LEMMA LocalIs ==
  ASSUME NEW l \in Locals
  PROVE  /\ l.top \in Tops \union {NULL} /\ l.next \in Headers \union {NULL}
         /\ l.chunk \in Headers \union {NULL} /\ l.blocks \in Seq(Blocks)
         /\ l.diff \in Nat /\ l.i \in Nat
         /\ Is(l, l.top, l.next, l.chunk, l.blocks, l.diff, l.i)
BY DEF Is, Locals

LEMMA TopIs ==
  ASSUME NEW l \in Locals, NEW x \in Tops
  PROVE  Is([l EXCEPT !.top = x], x, l.next, l.chunk, l.blocks, l.diff, l.i)
BY LocalIs DEF Is, Locals

LEMMA NextIs ==
  ASSUME NEW l \in Locals, NEW x \in Headers \union {NULL}
  PROVE  Is([l EXCEPT !.next = x], l.top, x, l.chunk, l.blocks, l.diff, l.i)
BY LocalIs DEF Is, Locals

LEMMA ChunkIs ==
  ASSUME NEW l \in Locals, NEW x \in Headers
  PROVE  Is([l EXCEPT !.chunk = x], l.top, l.next, x, l.blocks, l.diff, l.i)
BY LocalIs DEF Is, Locals

LEMMA BlocksAre ==
  ASSUME NEW l \in Locals, NEW x \in Seq(Blocks)
  PROVE  Is([l EXCEPT !.blocks = x], l.top, l.next, l.chunk, x, l.diff, l.i)
BY LocalIs DEF Is, Locals

LEMMA PoppedIs ==
  ASSUME NEW l \in Locals, NEW x \in Headers, NEW y \in Seq(Blocks)
  PROVE  Is([l EXCEPT !.chunk = x, !.blocks = y], l.top, l.next, x, y, l.diff, l.i)
BY LocalIs DEF Is, Locals

LEMMA DiffIs ==
  ASSUME NEW l \in Locals, NEW x \in Nat
  PROVE  Is([l EXCEPT !.diff = x], l.top, l.next, l.chunk, l.blocks, x, l.i)
BY LocalIs DEF Is, Locals

LEMMA ForgottenIs ==
  ASSUME NEW l \in Locals
  PROVE  Is(Forgotten(l), NULL, NULL, NULL, <<>>, l.diff, l.i)
BY LocalIs, Nothing DEF Is, Locals, Forgotten

LEMMA NoLocalIs ==
  ASSUME NEW x \in Nat, NEW y \in Nat
  PROVE  /\ Is([NoLocal EXCEPT !.diff = x, !.i = y], NULL, NULL, NULL, <<>>, x, y)
         /\ Is(NoLocal, NULL, NULL, NULL, <<>>, 0, 0)
BY Nothing DEF Is, Locals, NoLocal

LEMMA ChunksAre ==
  ASSUME NEW c \in Chunks, NEW x \in Headers \union {NULL}, NEW q \in Seq(Blocks)
  PROVE  /\ c.blocks \in Seq(Blocks) /\ c.next \in Headers \union {NULL}
         /\ [c EXCEPT !.next = x] \in Chunks
         /\ [c EXCEPT !.next = x].blocks = c.blocks /\ [c EXCEPT !.next = x].next = x
         /\ NoChunk \in Chunks /\ [blocks |-> q, next |-> NULL] \in Chunks
BY Nothing DEF Chunks, NoChunk

LEMMA HandTyped ==
  ASSUME TypeInv, NEW t \in Threads, ThreadInv(t)
  PROVE  InHand(t) \in Seq(Blocks)
<1>1. local[t] \in Locals
  BY DEF TypeInv
<1>2. pc[t] \in {"link", "push"} => local[t].chunk \in Headers
  BY <1>1, LocalIs DEF ThreadInv
<1>3. \A h \in Headers : header[h].blocks \in Seq(Blocks)
  BY DEF TypeInv, Chunks
<1>. QED  BY <1>1, <1>2, <1>3, LocalIs, Nothing DEF InHand

-------------------------------------------------------------------------------
(***************************************************************************)
(* A step of one thread, t.  It writes to no header but h, which no other  *)
(* thread can reach and which is not on the stack.                         *)
(***************************************************************************)
Framed(t, h) ==
  /\ \A u \in Threads \ {t} :
       pc'[u] = pc[u] /\ then'[u] = then[u] /\ tls'[u] = tls[u] /\ local'[u] = local[u]
  /\ \A a \in Headers \ {h} : header'[a] = header[a]
  /\ live \ {h} \subseteq live'

Foreign(stk, t, h) ==
  /\ h \notin Values(stk)
  /\ \A u \in Threads \ {t} : local[u].chunk # NULL => local[u].chunk # h

LEMMA StackedAre ==
  ASSUME NEW stk \in Seq(Headers), Stacked(stk)
  PROVE  /\ Values(stk) \subseteq Headers /\ Values(stk) \subseteq live
         /\ Len(stk) \in Nat /\ DOMAIN stk = 1 .. Len(stk)
         /\ topChunk.at # NULL => stk # <<>> /\ topChunk.at = stk[1] /\ stk[1] \in Values(stk)
         /\ topChunk.at = NULL => stk = <<>>
<1>1. Len(stk) \in Nat /\ DOMAIN stk = 1 .. Len(stk) /\ \A n \in DOMAIN stk : stk[n] \in Headers
  OBVIOUS
<1>2. stk # <<>> => 1 \in DOMAIN stk
  OBVIOUS
<1>. QED  BY <1>1, <1>2, PoolAssumption DEF Stacked, Values

LEMMA OthersKept ==
  ASSUME TypeInv, NEW stk \in Seq(Headers), Stacked(stk), NEW t \in Threads, NEW h,
         Framed(t, h), Foreign(stk, t, h), topChunk' = topChunk \/ NotComeRound(topChunk'),
         NEW u \in Threads \ {t}, ThreadInv(u), TopInv(u)
  PROVE  /\ ThreadInv(u)' /\ TopInv(u)' /\ InHand(u)' = InHand(u)
         /\ PendingOf(u)' = PendingOf(u) /\ local'[u].i = local[u].i
<1>1. pc'[u] = pc[u] /\ then'[u] = then[u] /\ tls'[u] = tls[u] /\ local'[u] = local[u]
  BY DEF Framed
<1>2. local[u].chunk \in Headers \union {NULL}
  BY LocalIs DEF TypeInv
<1>3. local[u].chunk # NULL => header'[local[u].chunk] = header[local[u].chunk]
                               /\ local[u].chunk \in live'
  BY <1>2 DEF Framed, Foreign, ThreadInv
<1>4. InHand(u)' = InHand(u)
  BY <1>1, <1>3 DEF InHand, ThreadInv
<1>5. ThreadInv(u)'
  BY <1>1, <1>3, <1>4 DEF ThreadInv, Collecting
<1>6. TopInv(u)'
  <2>1. CASE topChunk' = topChunk
    <3>1. pc[u] = "pop" /\ local[u].top = topChunk => topChunk.at \in Headers
      BY DEF ThreadInv
    <3>2. pc[u] = "pop" /\ local[u].top = topChunk => header'[topChunk.at] = header[topChunk.at]
      BY <3>1, StackedAre, PoolAssumption DEF Framed, Foreign
    <3>. QED  BY <1>1, <2>1, <3>2 DEF TopInv
  <2>2. CASE NotComeRound(topChunk')
    BY <1>1, <2>2 DEF TopInv, NotComeRound, TopSteps
  <2>. QED  BY <2>1, <2>2
<1>. QED  BY <1>1, <1>4, <1>5, <1>6 DEF PendingOf

(* The stack when its top stays.                                            *)
LEMMA QuietStack ==
  ASSUME NEW stk \in Seq(Headers), Stacked(stk), HandsApart(stk), NEW t \in Threads, NEW h,
         Framed(t, h), Foreign(stk, t, h), topChunk' = topChunk,
         local'[t].chunk \in {NULL, local[t].chunk, h}
  PROVE  /\ Stacked(stk)' /\ HandsApart(stk)'
         /\ \A a \in Values(stk) : header'[a] = header[a]
<1>1. \A a \in Values(stk) : a # h /\ header'[a] = header[a] /\ a \in live'
  BY StackedAre DEF Framed, Foreign
<1>2. \A n \in DOMAIN stk : stk[n] \in Values(stk)
  BY DEF Values
<1>3. Stacked(stk)'
  BY <1>1, <1>2 DEF Stacked
<1>4. ASSUME NEW u \in Threads, local'[u].chunk # NULL
      PROVE  /\ local'[u].chunk \notin Values(stk)
             /\ \A w \in Threads : local'[w].chunk = local'[u].chunk => w = u
  <2>1. \A w \in Threads \ {t} : local'[w].chunk = local[w].chunk
    BY DEF Framed
  <2>. QED  BY <1>4, <2>1 DEF HandsApart, Foreign
<1>5. HandsApart(stk)'
  BY <1>4 DEF HandsApart, Values
<1>. QED  BY <1>1, <1>3, <1>5

(* The places that a thread moves blocks between.                           *)
Near(t) == {Tls(t), Hand(t), FreeKey, UseKey, HeapKey}

Five(a, b, c, d, e) ==
  /\ a \intersect (b \union c \union d \union e) = {}
  /\ b \intersect (c \union d \union e) = {}
  /\ c \intersect (d \union e) = {} /\ d \intersect e = {}

Apart(t) == Five(Values(tls[t]), Values(InHand(t)), Values(freeChunk), inUse, heap)
All(t)   == Values(tls[t]) \union Values(InHand(t)) \union Values(freeChunk) \union inUse
            \union heap

LEMMA NearAre ==
  ASSUME NEW t \in Threads, NEW F
  PROVE  /\ Near(t) \in SUBSET Keys
         /\ \A b : (\E k \in Near(t) : b \in F[k])
                 <=> b \in F[Tls(t)] \union F[Hand(t)] \union F[FreeKey] \union F[UseKey]
                          \union F[HeapKey]
         /\ Five(F[Tls(t)], F[Hand(t)], F[FreeKey], F[UseKey], F[HeapKey])
            <=> \A k, j \in Near(t) : k # j => F[k] \intersect F[j] = {}
<1>1. Near(t) \in SUBSET Keys
  BY KeysAre DEF Near
<1>2. \A b : (\E k \in Near(t) : b \in F[k])
           <=> b \in F[Tls(t)] \union F[Hand(t)] \union F[FreeKey] \union F[UseKey]
                    \union F[HeapKey]
  BY DEF Near
<1>3. Five(F[Tls(t)], F[Hand(t)], F[FreeKey], F[UseKey], F[HeapKey])
      <=> \A k, j \in Near(t) : k # j => F[k] \intersect F[j] = {}
  <2>1. PICK a : a = F[Tls(t)]
    OBVIOUS
  <2>2. PICK b : b = F[Hand(t)]
    OBVIOUS
  <2>3. PICK c : c = F[FreeKey]
    OBVIOUS
  <2>4. PICK d : d = F[UseKey]
    OBVIOUS
  <2>5. PICK e : e = F[HeapKey]
    OBVIOUS
  <2>6. (\A k, j \in Near(t) : k # j => F[k] \intersect F[j] = {})
        <=> /\ a \intersect b = {} /\ a \intersect c = {} /\ a \intersect d = {}
            /\ a \intersect e = {} /\ b \intersect c = {} /\ b \intersect d = {}
            /\ b \intersect e = {} /\ c \intersect d = {} /\ c \intersect e = {}
            /\ d \intersect e = {}
    BY <2>1, <2>2, <2>3, <2>4, <2>5, KeysDiffer DEF Near
  <2>. QED  BY <2>1, <2>2, <2>3, <2>4, <2>5, <2>6 DEF Five
<1>. QED  BY <1>1, <1>2, <1>3

LEMMA HeldNext ==
  ASSUME NEW stk
  PROVE  /\ \A t : /\ Held(stk, Tls(t))' = Values(tls'[t])
                   /\ Held(stk, Hand(t))' = Values(InHand(t)')
         /\ \A h : Held(stk, Top(h))'
                  = IF h \in Values(stk) THEN Values(header'[h].blocks) ELSE {}
         /\ Held(stk, FreeKey)' = Values(freeChunk')
         /\ Held(stk, UseKey)' = inUse' /\ Held(stk, HeapKey)' = heap'
BY DEF Held, Tls, Hand, Top, FreeKey, UseKey, HeapKey, Values

LEMMA ApartNow ==
  ASSUME NEW stk, Parted(View(stk)), NEW t \in Threads
  PROVE  Apart(t) /\ All(t) \subseteq Blocks
<1>1. PICK F : F = View(stk)
  OBVIOUS
<1>2. \A k, j \in Near(t) : k # j => F[k] \intersect F[j] = {}
  BY <1>1, NearAre DEF Parted
<1>3. \A k \in Near(t) : F[k] \subseteq Blocks /\ F[k] = Held(stk, k)
  BY <1>1, NearAre DEF Parted, View
<1>4. Five(F[Tls(t)], F[Hand(t)], F[FreeKey], F[UseKey], F[HeapKey])
  BY <1>2, NearAre
<1>5. /\ F[Tls(t)] = Values(tls[t]) /\ F[Hand(t)] = Values(InHand(t))
      /\ F[FreeKey] = Values(freeChunk) /\ F[UseKey] = inUse /\ F[HeapKey] = heap
  BY <1>3, HeldIs DEF Near
<1>6. All(t) \subseteq Blocks
  BY <1>3, <1>5 DEF All, Near
<1>. QED  BY <1>4, <1>5, <1>6 DEF Apart

(* What a step that leaves the top of the stack alone must keep.            *)
Moved(t) ==
  /\ Apart(t)' /\ All(t)' \subseteq Blocks /\ All(t)' = All(t)
  /\ Distinct(tls'[t]) /\ Distinct(InHand(t)') /\ Distinct(freeChunk')

LEMMA QuietParts ==
  ASSUME NEW stk, Parted(View(stk)), NEW t \in Threads,
         \A a \in Values(stk) : header'[a] = header[a],
         \A u \in Threads \ {t} : tls'[u] = tls[u] /\ InHand(u)' = InHand(u),
         AllDistinct(stk), Moved(t)
  PROVE  Parted(View(stk))' /\ AllDistinct(stk)'
<1>1. ASSUME NEW k \in Keys \ Near(t) PROVE Held(stk, k)' = Held(stk, k)
  <2>1. CASE \E u \in Threads : k = Tls(u) \/ k = Hand(u)
    <3>1. PICK u \in Threads : k = Tls(u) \/ k = Hand(u)
      BY <2>1
    <3>2. u # t
      BY <3>1 DEF Near
    <3>3. tls'[u] = tls[u] /\ InHand(u)' = InHand(u)
      BY <3>2
    <3>4. CASE k = Tls(u)
      BY <3>3, <3>4, HeldNext, HeldIs
    <3>5. CASE k = Hand(u)
      BY <3>3, <3>5, HeldNext, HeldIs
    <3>. QED  BY <3>1, <3>4, <3>5
  <2>2. CASE \E h \in Headers : k = Top(h)
    <3>1. PICK h \in Headers : k = Top(h)
      BY <2>2
    <3>2. CASE h \in Values(stk)
      <4>1. Held(stk, Top(h))' = Values(header'[h].blocks)
        BY <3>2, HeldNext
      <4>2. Held(stk, Top(h)) = Values(header[h].blocks)
        BY <3>2, HeldIs
      <4>. QED  BY <3>1, <3>2, <4>1, <4>2
    <3>3. CASE h \notin Values(stk)
      <4>1. Held(stk, Top(h))' = {}
        BY <3>3, HeldNext
      <4>2. Held(stk, Top(h)) = {}
        BY <3>3, HeldIs
      <4>. QED  BY <3>1, <4>1, <4>2
    <3>. QED  BY <3>2, <3>3
  <2>. QED  BY <2>1, <2>2, KeysAre DEF Near
<1>2. PICK G : G = [k \in Keys |-> Held(stk, k)']
  OBVIOUS
<1>3. \A k \in Near(t) : G[k] = Held(stk, k)'
  BY <1>2, NearAre
<1>4. /\ G[Tls(t)] = Values(tls'[t]) /\ G[Hand(t)] = Values(InHand(t)')
      /\ G[FreeKey] = Values(freeChunk') /\ G[UseKey] = inUse' /\ G[HeapKey] = heap'
  BY <1>3, HeldNext DEF Near
<1>5. PICK F : F = View(stk)
  OBVIOUS
<1>6. \A k \in Near(t) : F[k] = Held(stk, k)
  BY <1>5, NearAre DEF View
<1>7. /\ F[Tls(t)] = Values(tls[t]) /\ F[Hand(t)] = Values(InHand(t))
      /\ F[FreeKey] = Values(freeChunk) /\ F[UseKey] = inUse /\ F[HeapKey] = heap
  BY <1>6, HeldIs DEF Near
<1>8. /\ Five(Values(tls'[t]), Values(InHand(t)'), Values(freeChunk'), inUse', heap')
      /\ All(t)' = Values(tls'[t]) \union Values(InHand(t)') \union Values(freeChunk')
                   \union inUse' \union heap'
  BY DEF Moved, Apart, All, Values
<1>9. \A k, j \in Near(t) : k # j => G[k] \intersect G[j] = {}
  BY <1>4, <1>8, NearAre
<1>10. \A b : (\E k \in Near(t) : b \in G[k]) <=> b \in All(t)'
  BY <1>4, <1>8, NearAre
<1>11. \A b : (\E k \in Near(t) : b \in F[k]) <=> b \in All(t)
  BY <1>7, NearAre DEF All
<1>12. \A k \in Near(t) : G[k] \subseteq Blocks
  BY <1>10 DEF Moved
<1>13. Reparted(stk, stk, Near(t))
  <2>1. \A k \in Near(t) : Held(stk, k)' \subseteq Blocks
    BY <1>3, <1>12
  <2>2. \A k, j \in Near(t) : k # j => Held(stk, k)' \intersect Held(stk, j)' = {}
    BY <1>3, <1>9
  <2>3. \A b : (\E k \in Near(t) : b \in Held(stk, k))
             <=> (\E k \in Near(t) : b \in Held(stk, k)')
    BY <1>3, <1>6, <1>10, <1>11 DEF Moved
  <2>. QED  BY <1>1, <2>1, <2>2, <2>3 DEF Reparted
<1>14. Parted(View(stk))'
  BY <1>13, NearAre, Repart
<1>15. AllDistinct(stk)'
  <2>1. \A h \in Values(stk) : Distinct(header'[h].blocks)
    BY DEF AllDistinct
  <2>2. \A u \in Threads : Distinct(tls'[u]) /\ Distinct(InHand(u)')
    BY DEF AllDistinct, Moved
  <2>. QED  BY <2>1, <2>2 DEF AllDistinct, Distinct, Values, Moved
<1>. QED  BY <1>14, <1>15

(* The sums when one thread's part changes.  d chunks more are made of      *)
(* blocks from the heap, e more are on the stack.                           *)
Balanced(t, d, e) ==
  /\ d \in Int /\ e \in Int
  /\ chunkCapacity' - local'[t].i = (chunkCapacity - local[t].i) + d
  /\ Cardinality(Blocks \ heap') = Cardinality(Blocks \ heap) + d * chunkSize
  /\ (chunkCapacity' - chunkUsed') - PendingOf(t)'
       = ((chunkCapacity - chunkUsed) - PendingOf(t)) + e

LEMMA SumsTyped ==
  ASSUME TypeInv
  PROVE  /\ Freed \in [Threads -> Nat] /\ Pending \in [Threads -> Nat]
         /\ \A t \in Threads : Freed[t] = local[t].i /\ Pending[t] = PendingOf(t)
<1>1. \A t \in Threads : local[t].i \in Nat /\ local[t].diff \in Nat
  BY LocalIs DEF TypeInv
<1>2. \A t \in Threads : PendingOf(t) \in Nat
  BY <1>1 DEF PendingOf
<1>. QED  BY <1>1, <1>2 DEF Freed, Pending

LEMMA SumsTypedNext ==
  ASSUME TypeInv'
  PROVE  /\ Freed' \in [Threads -> Nat] /\ Pending' \in [Threads -> Nat]
         /\ \A t \in Threads : Freed'[t] = local'[t].i /\ Pending'[t] = PendingOf(t)'
<1>1. \A t \in Threads : local'[t].i \in Nat /\ local'[t].diff \in Nat
  BY LocalIs DEF TypeInv
<1>2. \A t \in Threads : PendingOf(t)' \in Nat
  BY <1>1 DEF PendingOf
<1>. QED  BY <1>1, <1>2 DEF Freed, Pending

LEMMA Differences ==
  /\ \A x, c, d, m, n, a, b \in Int :
       x - n = (c - m) + d /\ b + m = a + n => x - b = (c - a) + d
  /\ \A c, u, x, v, e, l, m, n, a, b \in Int :
       (x - v) - n = ((c - u) - m) + e /\ b + m = a + n /\ c - u = l + a => x - v = (l + e) + b
OBVIOUS

LEMMA CountsKept ==
  ASSUME TypeInv, TypeInv', NEW t \in Threads,
         \A u \in Threads \ {t} : local'[u].i = local[u].i /\ PendingOf(u)' = PendingOf(u),
         NEW stk, NEW stk2, Len(stk) \in Nat, NEW d \in Int, NEW e \in Int, Balanced(t, d, e),
         Len(stk2) = Len(stk) + e, Counted(stk)
  PROVE  Counted(stk2)'
<1>1. PICK f \in [Threads -> Nat] : f = Freed
  BY SumsTyped
<1>2. PICK g \in [Threads -> Nat] : g = Freed'
  BY SumsTypedNext
<1>3. PICK p \in [Threads -> Nat] : p = Pending
  BY SumsTyped
<1>4. PICK q \in [Threads -> Nat] : q = Pending'
  BY SumsTypedNext
<1>5. \A u \in Threads \ {t} : g[u] = f[u] /\ q[u] = p[u]
  BY <1>1, <1>2, <1>3, <1>4, SumsTyped, SumsTypedNext
<1>6. Sum(g) + f[t] = Sum(f) + g[t] /\ Sum(f) \in Nat /\ Sum(g) \in Nat
  <2>1. \A u \in Threads : u # t => g[u] = f[u]
    BY <1>5
  <2>. QED  BY <2>1, SumChange
<1>7. Sum(q) + p[t] = Sum(p) + q[t] /\ Sum(p) \in Nat /\ Sum(q) \in Nat
  <2>1. \A u \in Threads : u # t => q[u] = p[u]
    BY <1>5
  <2>. QED  BY <2>1, SumChange
<1>8. f[t] = local[t].i /\ g[t] = local'[t].i /\ p[t] = PendingOf(t) /\ q[t] = PendingOf(t)'
  BY <1>1, <1>2, <1>3, <1>4, SumsTyped, SumsTypedNext
<1>9. PICK c \in Int : c = chunkCapacity
  BY DEF TypeInv
<1>10. PICK x \in Int : x = chunkCapacity'
  BY DEF TypeInv
<1>11. PICK u \in Int : u = chunkUsed
  BY DEF TypeInv
<1>12. PICK v \in Int : v = chunkUsed'
  BY DEF TypeInv
<1>13. chunkSize \in Nat
  BY PoolAssumption
<1>14. (x - Sum(g)) = (c - Sum(f)) + d
  <2>1. PICK m \in Nat : m = f[t]
    OBVIOUS
  <2>2. PICK n \in Nat : n = g[t]
    OBVIOUS
  <2>3. PICK a \in Nat : a = Sum(f)
    BY <1>6
  <2>4. PICK b \in Nat : b = Sum(g)
    BY <1>6
  <2>5. x - n = (c - m) + d
    BY <1>8, <1>9, <1>10, <2>1, <2>2 DEF Balanced
  <2>6. b + m = a + n
    BY <1>6, <2>1, <2>2, <2>3, <2>4
  <2>7. x - b = (c - a) + d
    BY <2>5, <2>6, Differences
  <2>. QED  BY <2>3, <2>4, <2>7
<1>15. (x - Sum(g)) * chunkSize = (c - Sum(f)) * chunkSize + d * chunkSize
  <2>1. c - Sum(f) \in Int
    BY <1>6, <1>9
  <2>. QED  BY <1>13, <1>14, <2>1
<1>16. Cardinality(Blocks \ heap') = (x - Sum(g)) * chunkSize
  BY <1>1, <1>9, <1>15 DEF Balanced, Counted
<1>17. c - u = Len(stk) + Sum(p)
  BY <1>3, <1>9, <1>11 DEF Counted
<1>18. (x - v) - q[t] = ((c - u) - p[t]) + e
  BY <1>8, <1>9, <1>10, <1>11, <1>12 DEF Balanced
<1>19. x - v = Len(stk2) + Sum(q)
  <2>1. PICK l \in Nat : l = Len(stk)
    OBVIOUS
  <2>2. PICK m \in Nat : m = p[t]
    OBVIOUS
  <2>3. PICK n \in Nat : n = q[t]
    OBVIOUS
  <2>4. PICK a \in Nat : a = Sum(p)
    BY <1>7
  <2>5. PICK b \in Nat : b = Sum(q)
    BY <1>7
  <2>6. b + m = a + n /\ c - u = l + a /\ (x - v) - n = ((c - u) - m) + e
    BY <1>7, <1>17, <1>18, <2>1, <2>2, <2>3, <2>4, <2>5
  <2>7. x - v = (l + e) + b
    BY <2>6, Differences
  <2>. QED  BY <2>1, <2>5, <2>7
<1>20. Sum(g) = Sum(Freed)' /\ Sum(q) = Sum(Pending)'
  BY <1>2, <1>4 DEF Sum, Units
<1>. QED  BY <1>10, <1>12, <1>16, <1>19, <1>20 DEF Counted

(* A step that leaves the top of the stack alone.                           *)
LEMMA QuietStep ==
  ASSUME TypeInv, TypeInv', NEW stk \in Seq(Headers), Good(stk),
         \A u \in Threads : ThreadInv(u) /\ TopInv(u),
         NEW t \in Threads, NEW h, Framed(t, h), Foreign(stk, t, h), topChunk' = topChunk,
         local'[t].chunk \in {NULL, local[t].chunk, h}, ThreadInv(t)', TopInv(t)', Moved(t),
         NEW d \in Int, Balanced(t, d, 0)
  PROVE  Inv'
<1>1. \A u \in Threads \ {t} :
        /\ ThreadInv(u)' /\ TopInv(u)' /\ InHand(u)' = InHand(u)
        /\ PendingOf(u)' = PendingOf(u) /\ local'[u].i = local[u].i
  BY OthersKept DEF Good
<1>2. /\ Stacked(stk)' /\ HandsApart(stk)' /\ \A a \in Values(stk) : header'[a] = header[a]
  BY QuietStack DEF Good
<1>3. Parted(View(stk))' /\ AllDistinct(stk)'
  BY <1>1, <1>2, QuietParts DEF Good, Framed
<1>4. Counted(stk)'
  <2>1. Len(stk) \in Nat /\ Len(stk) = Len(stk) + 0
    OBVIOUS
  <2>. QED  BY <1>1, <2>1, CountsKept DEF Good
<1>5. Good(stk)'
  BY <1>2, <1>3, <1>4 DEF Good
<1>6. \A u \in Threads : ThreadInv(u)' /\ TopInv(u)'
  BY <1>1
<1>. QED  BY <1>5, <1>6 DEF Inv

LEMMA NothingForeign ==
  ASSUME NEW stk \in Seq(Headers), NEW t \in Threads
  PROVE  Foreign(stk, t, NULL)
<1>1. \A n \in DOMAIN stk : stk[n] \in Headers
  OBVIOUS
<1>. QED  BY <1>1, PoolAssumption DEF Foreign, Values

LEMMA HandForeign ==
  ASSUME NEW stk \in Seq(Headers), HandsApart(stk), NEW t \in Threads
  PROVE  Foreign(stk, t, local[t].chunk)
<1>1. CASE local[t].chunk = NULL
  BY <1>1, NothingForeign
<1>2. CASE local[t].chunk # NULL
  BY <1>2 DEF Foreign, HandsApart
<1>. QED  BY <1>1, <1>2

LEMMA FreshForeign ==
  ASSUME NEW stk \in Seq(Headers), Stacked(stk), \A u \in Threads : ThreadInv(u),
         NEW t \in Threads, NEW h \in Headers \ live
  PROVE  Foreign(stk, t, h)
BY StackedAre DEF Foreign, ThreadInv

LEMMA HeapCounted == Cardinality(Blocks \ heap) \in Nat
<1>1. IsFiniteSet(Blocks \ heap)
  BY PoolAssumption, FS_Subset
<1>. QED  BY <1>1, FS_CardinalityType

LEMMA Steady ==
  ASSUME heap' = heap, NEW t,
         chunkCapacity' - local'[t].i = chunkCapacity - local[t].i, chunkCapacity \in Int,
         chunkUsed \in Int, PendingOf(t) \in Nat, local[t].i \in Nat,
         (chunkCapacity' - chunkUsed') - PendingOf(t)'
           = (chunkCapacity - chunkUsed) - PendingOf(t)
  PROVE  Balanced(t, 0, 0)
<1>1. PICK c \in Nat : c = Cardinality(Blocks \ heap)
  BY HeapCounted
<1>2. c = c + 0 * chunkSize
  BY PoolAssumption
<1>. QED  BY <1>1, <1>2 DEF Balanced

LEMMA Still ==
  ASSUME NEW stk, Parted(View(stk)), AllDistinct(stk), NEW t \in Threads, tls'[t] = tls[t],
         InHand(t)' = InHand(t), freeChunk' = freeChunk, inUse' = inUse, heap' = heap
  PROVE  Moved(t)
<1>1. Apart(t) /\ All(t) \subseteq Blocks
  BY ApartNow
<1>2. Apart(t)' /\ All(t)' = All(t)
  BY <1>1 DEF Apart, All, Five, Values
<1>. QED  BY <1>1, <1>2 DEF Moved, AllDistinct

(* A step that moves the thread, and no blocks.                             *)
LEMMA LocalStep ==
  ASSUME Inv, NEW t \in Threads, NEW c \in Steps, pc' = [pc EXCEPT ![t] = c],
         then' \in [Threads -> {"idle", "collect", "unlock"}],
         \A u \in Threads \ {t} : then'[u] = then[u],
         NEW l \in Locals, local' = [local EXCEPT ![t] = l],
         UNCHANGED <<stack, heap, freeChunk, tls, inUse>>,
         chunkCapacity' \in Int, chunkUsed' \in Int,
         l.chunk = local[t].chunk, ThreadInv(t)', TopInv(t)', InHand(t)' = InHand(t),
         chunkCapacity' - l.i = chunkCapacity - local[t].i,
         (chunkCapacity' - chunkUsed') - PendingOf(t)'
           = (chunkCapacity - chunkUsed) - PendingOf(t)
  PROVE  Inv'
<1>1. PICK stk \in Seq(Headers) : Good(stk)
  BY DEF Inv
<1>2. TypeInv'
  BY DEF TypeInv, Inv, stack
<1>3. local'[t] = l
  BY DEF TypeInv, Inv
<1>4. Framed(t, NULL) /\ topChunk' = topChunk
  BY DEF Framed, TypeInv, Inv, stack
<1>5. Moved(t)
  BY <1>1, Still DEF Good
<1>6. Balanced(t, 0, 0)
  BY <1>3, Steady, SumsTyped, LocalIs DEF TypeInv, Inv
<1>. QED  BY <1>1, <1>2, <1>3, <1>4, <1>5, <1>6, NothingForeign, QuietStep DEF Inv

-------------------------------------------------------------------------------
(***************************************************************************)
(* The steps that move no blocks.                                          *)
(***************************************************************************)
LEMMA AllocNextStep == ASSUME Inv, NEW t \in Threads, AllocNext(t) PROVE Inv'
<1>1. pc[t] = "next" /\ local[t] \in Locals /\ ThreadInv(t) /\ TopInv(t)
  BY DEF AllocNext, Inv, TypeInv
<1>2. \A h \in Headers : header[h].next \in Headers \union {NULL}
  BY DEF Inv, TypeInv, Chunks
<1>3. PICK x \in Headers \union {NULL} :
        /\ local' = [local EXCEPT ![t].next = x]
        /\ local[t].top.at \in live => x = header[local[t].top.at].next
  BY <1>1, <1>2 DEF AllocNext, ThreadInv
<1>4. PICK l : l = [local[t] EXCEPT !.next = x]
  OBVIOUS
<1>5. Is(l, local[t].top, x, local[t].chunk, local[t].blocks, local[t].diff, local[t].i)
  BY <1>1, <1>4, NextIs
<1>6. l \in Locals /\ local' = [local EXCEPT ![t] = l] /\ local'[t] = l
  BY <1>3, <1>4, <1>5 DEF Is, Inv, TypeInv
<1>7. /\ pc' = [pc EXCEPT ![t] = "pop"] /\ pc'[t] = "pop" /\ then' = then
      /\ UNCHANGED <<stack, heap, counts, freeChunk, tls, inUse>> /\ header' = header
      /\ live' = live /\ topChunk' = topChunk /\ tls' = tls
  BY DEF AllocNext, Goto, ending, stack, Inv, TypeInv
<1>8. InHand(t)' = InHand(t) /\ PendingOf(t)' = PendingOf(t)
  BY <1>1, <1>7 DEF InHand, PendingOf, HandSteps
<1>9. ThreadInv(t)'
  BY <1>1, <1>5, <1>6, <1>7 DEF ThreadInv, Is, TopSteps, HandSteps, AllocSteps, Collecting
<1>10. TopInv(t)'
  <2>1. ASSUME local[t].top = topChunk PROVE x = header[topChunk.at].next
    <3>1. topChunk.at \in live
      <4>1. PICK stk \in Seq(Headers) : Stacked(stk)
        BY DEF Inv, Good
      <4>. QED  BY <1>1, <2>1, <4>1, StackedAre, PoolAssumption DEF ThreadInv
    <3>. QED  BY <1>3, <2>1, <3>1
  <2>. QED  BY <1>1, <1>5, <1>6, <1>7, <2>1 DEF TopInv, Is, TopSteps
<1>. QED
  BY <1>5, <1>6, <1>7, <1>8, <1>9, <1>10, LocalStep DEF Is, counts, Inv, TypeInv, Steps

LEMMA UnlockStep == ASSUME Inv, NEW t \in Threads, Unlock(t) PROVE Inv'
<1>1. pc[t] = "unlock" /\ local[t] \in Locals /\ ThreadInv(t) /\ TopInv(t)
  BY DEF Unlock, Inv, TypeInv
<1>2. /\ pc' = [pc EXCEPT ![t] = "compare"] /\ pc'[t] = "compare" /\ then' = then
      /\ UNCHANGED <<stack, heap, counts, freeChunk, tls, inUse>> /\ header' = header
      /\ live' = live /\ topChunk' = topChunk /\ tls' = tls
      /\ local' = [local EXCEPT ![t] = local[t]] /\ local' = local
  BY DEF Unlock, Goto, ending, stack, Inv, TypeInv
<1>3. InHand(t)' = InHand(t) /\ PendingOf(t)' = PendingOf(t)
  BY <1>1, <1>2 DEF InHand, PendingOf, HandSteps
<1>4. ThreadInv(t)'
  BY <1>1, <1>2 DEF ThreadInv, TopSteps, HandSteps, AllocSteps, Collecting
<1>5. TopInv(t)'
  BY <1>1, <1>2 DEF TopInv, TopSteps
<1>. QED  BY <1>1, <1>2, <1>3, <1>4, <1>5, LocalStep DEF counts, Inv, TypeInv, Steps

LEMMA CollectStep == ASSUME Inv, NEW t \in Threads, Collect(t) PROVE Inv'
<1> DEFINE x == chunkCapacity - chunkUsed * 3
<1>1. pc[t] \in {"idle", "compare"} /\ local[t] \in Locals /\ ThreadInv(t) /\ TopInv(t)
  BY DEF Collect, Inv, TypeInv
<1>2. /\ then' = then
      /\ UNCHANGED <<stack, heap, counts, freeChunk, tls, inUse>> /\ header' = header
      /\ live' = live /\ topChunk' = topChunk /\ tls' = tls
  BY DEF Collect, Goto, ending, stack
<1>3. CASE x > 0 /\ local' = [local EXCEPT ![t].diff = x] /\ Goto(t, "collect")
  <2>1. PICK n \in Nat : n = x /\ n > 0
    BY <1>3 DEF Inv, TypeInv
  <2>2. PICK l : l = [local[t] EXCEPT !.diff = n]
    OBVIOUS
  <2>3. Is(l, local[t].top, local[t].next, local[t].chunk, local[t].blocks, n, local[t].i)
    BY <1>1, <2>2, DiffIs
  <2>4. l \in Locals /\ local' = [local EXCEPT ![t] = l] /\ local'[t] = l
    BY <1>3, <2>1, <2>2, <2>3 DEF Is, Inv, TypeInv
  <2>5. pc' = [pc EXCEPT ![t] = "collect"] /\ pc'[t] = "collect"
    BY <1>3 DEF Goto, Inv, TypeInv
  <2>6. InHand(t)' = InHand(t) /\ PendingOf(t)' = PendingOf(t)
    BY <1>1, <2>5 DEF InHand, PendingOf, HandSteps
  <2>7. local[t].i = 0
    BY <1>1 DEF ThreadInv, Collecting, AllocSteps
  <2>8. ThreadInv(t)'
    BY <1>1, <1>2, <2>1, <2>3, <2>4, <2>5, <2>7
    DEF ThreadInv, Is, TopSteps, HandSteps, AllocSteps, Collecting
  <2>9. TopInv(t)'
    BY <2>5 DEF TopInv, TopSteps
  <2>. QED  BY <1>2, <2>3, <2>4, <2>5, <2>6, <2>8, <2>9, LocalStep
            DEF Is, counts, Inv, TypeInv, Steps
<1>4. CASE pc[t] = "compare" /\ Goto(t, "idle") /\ local' = local
  <2>1. /\ pc' = [pc EXCEPT ![t] = "idle"] /\ pc'[t] = "idle"
        /\ local' = [local EXCEPT ![t] = local[t]]
    BY <1>4 DEF Goto, Inv, TypeInv
  <2>2. InHand(t)' = InHand(t) /\ PendingOf(t)' = PendingOf(t)
    BY <1>1, <2>1 DEF InHand, PendingOf, HandSteps
  <2>3. ThreadInv(t)' /\ TopInv(t)'
    BY <1>1, <1>2, <1>4, <2>1
    DEF ThreadInv, TopInv, TopSteps, HandSteps, AllocSteps, Collecting
  <2>. QED  BY <1>1, <1>2, <2>1, <2>2, <2>3, LocalStep DEF counts, Inv, TypeInv, Steps
<1>. QED  BY <1>3, <1>4 DEF Collect

LEMMA CollectNextStep == ASSUME Inv, NEW t \in Threads, CollectNext(t) PROVE Inv'
<1>1. /\ pc[t] = "collect" /\ local[t] \in Locals /\ ThreadInv(t) /\ TopInv(t)
      /\ chunkUsed \in Int /\ chunkCapacity \in Int
  BY DEF CollectNext, Inv, TypeInv
<1>2. local[t].diff \in Nat /\ local[t].i \in Nat
  BY <1>1, LocalIs
<1>3. /\ UNCHANGED <<stack, heap, freeChunk, tls, inUse>> /\ header' = header
      /\ live' = live /\ topChunk' = topChunk /\ tls' = tls /\ chunkCapacity' = chunkCapacity
      /\ local' = [local EXCEPT ![t] = local[t]] /\ local' = local
  BY DEF CollectNext, Call, Goto, ending, stack, Inv, TypeInv
<1>4. CASE local[t].i < local[t].diff /\ Call(t, "alloc", "collect") /\ chunkUsed' = chunkUsed
  <2>1. /\ pc' = [pc EXCEPT ![t] = "alloc"] /\ pc'[t] = "alloc"
        /\ then' \in [Threads -> {"idle", "collect", "unlock"}] /\ then'[t] = "collect"
        /\ \A u \in Threads \ {t} : then'[u] = then[u]
    BY <1>4 DEF Call, Goto, Inv, TypeInv
  <2>2. InHand(t)' = InHand(t) /\ PendingOf(t)' = PendingOf(t)
    BY <1>1, <2>1 DEF InHand, PendingOf, HandSteps
  <2>3. ThreadInv(t)' /\ TopInv(t)'
    BY <1>1, <1>3, <1>4, <2>1
    DEF ThreadInv, TopInv, TopSteps, HandSteps, AllocSteps, Collecting
  <2>. QED  BY <1>1, <1>3, <1>4, <2>1, <2>2, <2>3, LocalStep DEF Steps
<1>5. CASE /\ local[t].i = local[t].diff /\ chunkUsed' = chunkUsed - local[t].diff
           /\ Goto(t, "collected") /\ then' = then
  <2>1. /\ pc' = [pc EXCEPT ![t] = "collected"] /\ pc'[t] = "collected"
        /\ then' \in [Threads -> {"idle", "collect", "unlock"}]
    BY <1>5 DEF Goto, Inv, TypeInv
  <2>2. InHand(t)' = InHand(t) /\ PendingOf(t)' = local[t].diff /\ PendingOf(t) = 0
    BY <1>1, <1>3, <2>1 DEF InHand, PendingOf, HandSteps
  <2>3. ThreadInv(t)' /\ TopInv(t)'
    BY <1>1, <1>3, <1>5, <2>1
    DEF ThreadInv, TopInv, TopSteps, HandSteps, AllocSteps, Collecting
  <2>4. (chunkCapacity' - chunkUsed') - PendingOf(t)'
          = (chunkCapacity - chunkUsed) - PendingOf(t)
    BY <1>1, <1>2, <1>3, <1>5, <2>2
  <2>5. chunkUsed' \in Int
    BY <1>1, <1>2, <1>5
  <2>. QED  BY <1>1, <1>3, <1>5, <2>1, <2>2, <2>3, <2>4, <2>5, LocalStep DEF Steps
<1>. QED  BY <1>4, <1>5 DEF CollectNext

LEMMA CollectedStep == ASSUME Inv, NEW t \in Threads, Collected(t) PROVE Inv'
<1>1. /\ pc[t] = "collected" /\ local[t] \in Locals /\ ThreadInv(t) /\ TopInv(t)
      /\ chunkUsed \in Int /\ chunkCapacity \in Int
  BY DEF Collected, Inv, TypeInv
<1>2. local[t].diff \in Nat /\ local[t].i = local[t].diff /\ local[t].chunk = NULL
  BY <1>1, LocalIs DEF ThreadInv, HandSteps
<1>3. /\ UNCHANGED <<stack, heap, freeChunk, tls, inUse>> /\ header' = header
      /\ live' = live /\ topChunk' = topChunk /\ tls' = tls /\ chunkUsed' = chunkUsed
      /\ chunkCapacity' = chunkCapacity - local[t].diff
      /\ local' = [local EXCEPT ![t] = NoLocal]
  BY DEF Collected, Shrunk, ending, stack
<1>4. Is(NoLocal, NULL, NULL, NULL, <<>>, 0, 0)
  BY NoLocalIs
<1>5. NoLocal \in Locals /\ local'[t] = NoLocal
  BY <1>3, <1>4 DEF Is, Inv, TypeInv
<1>6. /\ pc' = [pc EXCEPT ![t] = "idle"] /\ pc'[t] = "idle"
      /\ then' \in [Threads -> {"idle", "collect", "unlock"}]
      /\ \A u \in Threads \ {t} : then'[u] = then[u]
  BY DEF Collected, Call, Goto, Inv, TypeInv
<1>7. InHand(t)' = InHand(t) /\ PendingOf(t) = local[t].diff /\ PendingOf(t)' = 0
  BY <1>1, <1>6 DEF InHand, PendingOf, HandSteps
<1>8. ThreadInv(t)' /\ TopInv(t)'
  BY <1>1, <1>3, <1>4, <1>5, <1>6
  DEF ThreadInv, TopInv, Is, TopSteps, HandSteps, AllocSteps, Collecting
<1>9. /\ (chunkCapacity' - chunkUsed') - PendingOf(t)'
           = (chunkCapacity - chunkUsed) - PendingOf(t)
      /\ chunkCapacity' - 0 = chunkCapacity - local[t].i
      /\ chunkCapacity' \in Int /\ chunkUsed' \in Int
  BY <1>1, <1>2, <1>3, <1>7
<1>. QED  BY <1>2, <1>3, <1>4, <1>5, <1>6, <1>7, <1>8, <1>9, LocalStep DEF Is, Steps

-------------------------------------------------------------------------------
(***************************************************************************)
(* Blocks from the heap, and back to it.                                   *)
(***************************************************************************)
LEMMA DataAre ==
  ASSUME NEW free, NEW positions, IsFiniteSet(free), IsFiniteSet(positions),
         Cardinality(positions) <= Cardinality(free)
  PROVE  LET list == CreateNewData(free, positions) IN
         /\ list \in [positions -> free] /\ Distinct(list)
         /\ Values(list) \subseteq free /\ IsFiniteSet(Values(list))
         /\ Cardinality(Values(list)) = Cardinality(positions)
<1>1. ExistsInjection(positions, free)
  <2>1. PICK m \in Nat : m = Cardinality(positions) /\ ExistsBijection(1 .. m, positions)
    BY FS_CardinalityType
  <2>2. PICK n \in Nat : n = Cardinality(free) /\ ExistsBijection(1 .. n, free)
    BY FS_CardinalityType
  <2>3. ExistsInjection(positions, 1 .. m)
    BY <2>1, Fun_ExistsBijEquiv
  <2>4. ExistsInjection(1 .. m, 1 .. n)
    BY <2>1, <2>2, Fun_NatInjLeq
  <2>5. ExistsInjection(1 .. n, free)
    BY <2>2, Fun_ExistsBijEquiv
  <2>. QED  BY <2>3, <2>4, <2>5, Fun_ExistsInjTransitive
<1>2. \E list \in [positions -> free] : \A m, n \in positions : list[m] = list[n] => m = n
  <2>1. PICK f : f \in Injection(positions, free)
    BY <1>1 DEF ExistsInjection
  <2>. QED  BY <2>1 DEF Injection, IsInjective
<1>3. PICK list : list = CreateNewData(free, positions)
  OBVIOUS
<1>4. list \in [positions -> free] /\ \A m, n \in positions : list[m] = list[n] => m = n
  BY <1>2, <1>3 DEF CreateNewData
<1>5. list \in Bijection(positions, Values(list))
  <2>1. list \in [positions -> Values(list)]
    BY <1>4 DEF Values
  <2>2. \A b \in Values(list) : \E n \in positions : list[n] = b
    BY <1>4 DEF Values
  <2>. QED  BY <1>4, <2>1, <2>2 DEF Bijection, Injection, Surjection, IsInjective
<1>6. IsFiniteSet(Values(list)) /\ Cardinality(Values(list)) = Cardinality(positions)
  <2>1. ExistsBijection(positions, Values(list))
    BY <1>5 DEF ExistsBijection
  <2>. QED  BY <2>1, FS_Bijection
<1>7. Distinct(list) /\ Values(list) \subseteq free
  BY <1>4 DEF Distinct, Values
<1>. QED  BY <1>3, <1>4, <1>6, <1>7

LEMMA HeapGives ==
  ASSUME TypeInv, NEW V \in SUBSET heap, NEW n \in Nat, Cardinality(V) = n
  PROVE  Cardinality(Blocks \ (heap \ V)) = Cardinality(Blocks \ heap) + n
<1>1. Blocks \ (heap \ V) = (Blocks \ heap) \union V /\ (Blocks \ heap) \intersect V = {}
  BY DEF TypeInv
<1>2. IsFiniteSet(Blocks \ heap) /\ IsFiniteSet(V)
  BY PoolAssumption, FS_Subset DEF TypeInv
<1>. QED  BY <1>1, <1>2, DisjointUnion

LEMMA HeapTakes ==
  ASSUME TypeInv, NEW V \in SUBSET Blocks, V \intersect heap = {}, NEW n \in Nat,
         Cardinality(V) = n
  PROVE  Cardinality(Blocks \ (heap \union V)) = Cardinality(Blocks \ heap) + (-1) * n
<1>1. /\ Blocks \ heap = (Blocks \ (heap \union V)) \union V
      /\ (Blocks \ (heap \union V)) \intersect V = {}
  BY DEF TypeInv
<1>2. IsFiniteSet(Blocks \ (heap \union V)) /\ IsFiniteSet(V)
  BY PoolAssumption, FS_Subset
<1>3. PICK a \in Nat : a = Cardinality(Blocks \ (heap \union V))
  BY <1>2, FS_CardinalityType
<1>4. PICK b \in Nat : b = Cardinality(Blocks \ heap)
  BY HeapCounted
<1>5. b = a + n
  BY <1>1, <1>2, <1>3, <1>4, DisjointUnion
<1>6. a = b + (-1) * n
  BY <1>5
<1>. QED  BY <1>3, <1>4, <1>6

(***************************************************************************)
(* The steps of Alloc that leave the stack alone.                          *)
(***************************************************************************)
LEMMA AllocTopStep == ASSUME Inv, NEW t \in Threads, AllocTop(t) PROVE Inv'
<1>1. /\ pc[t] = "alloc" /\ local[t] \in Locals /\ ThreadInv(t) /\ TopInv(t)
      /\ chunkUsed \in Int /\ chunkCapacity \in Int /\ topChunk \in Tops
  BY DEF AllocTop, Inv, TypeInv
<1>2. /\ UNCHANGED <<stack, freeChunk, tls, inUse>> /\ header' = header
      /\ live' = live /\ topChunk' = topChunk /\ tls' = tls /\ chunkUsed' = chunkUsed
      /\ then' = then /\ then \in [Threads -> {"idle", "collect", "unlock"}]
      /\ freeChunk' = freeChunk /\ inUse' = inUse
  BY DEF AllocTop, ending, stack, Inv, TypeInv
<1>3. local[t].chunk = NULL
  BY <1>1 DEF ThreadInv, HandSteps
<1>4. CASE /\ topChunk.at # NULL /\ local' = [local EXCEPT ![t].top = topChunk]
           /\ Goto(t, "next") /\ UNCHANGED <<chunkCapacity, heap>>
  <2>1. PICK l : l = [local[t] EXCEPT !.top = topChunk]
    OBVIOUS
  <2>2. Is(l, topChunk, local[t].next, local[t].chunk, local[t].blocks, local[t].diff,
           local[t].i)
    BY <1>1, <2>1, TopIs
  <2>3. l \in Locals /\ local' = [local EXCEPT ![t] = l] /\ local'[t] = l
    BY <1>4, <2>1, <2>2 DEF Is, Inv, TypeInv
  <2>4. pc' = [pc EXCEPT ![t] = "next"] /\ pc'[t] = "next"
    BY <1>4 DEF Goto, Inv, TypeInv
  <2>5. InHand(t)' = InHand(t) /\ PendingOf(t)' = PendingOf(t)
    BY <1>1, <2>4 DEF InHand, PendingOf, HandSteps
  <2>6. topChunk.at \in Headers
    BY <1>1, <1>4 DEF Tops
  <2>7. ThreadInv(t)'
    BY <1>1, <1>2, <2>2, <2>3, <2>4, <2>6
    DEF ThreadInv, Is, TopSteps, HandSteps, AllocSteps, Collecting
  <2>8. TopInv(t)'
    BY <1>2, <2>2, <2>3, <2>4 DEF TopInv, Is, TopSteps
  <2>. QED  BY <1>1, <1>2, <1>4, <2>2, <2>3, <2>4, <2>5, <2>7, <2>8, LocalStep DEF Is, Steps
<1>5. CASE CreateNewChunk(t) /\ chunkCapacity' = chunkCapacity + 1 /\ Goto(t, "take")
  <2>1. PICK n \in Nat : n = chunkSize
    BY PoolAssumption
  <2>2. PICK list : list = CreateNewData(heap, 1 .. chunkSize)
    OBVIOUS
  <2>3. /\ list \in [1 .. n -> heap] /\ Distinct(list) /\ Values(list) \subseteq heap
        /\ IsFiniteSet(Values(list)) /\ Cardinality(Values(list)) = n
    <3>1. IsFiniteSet(heap) /\ Cardinality(heap) \in Nat
      BY PoolAssumption, FS_Subset, FS_CardinalityType DEF Inv, TypeInv
    <3>2. IsFiniteSet(1 .. n) /\ Cardinality(1 .. n) = n
      BY FS_Interval
    <3>3. n <= Cardinality(heap)
      BY <1>5, <2>1, <3>1 DEF CreateNewChunk
    <3>. QED  BY <2>1, <2>2, <3>1, <3>2, <3>3, DataAre
  <2>4. list \in Seq(Blocks) /\ Len(list) = n
    BY <2>3 DEF Inv, TypeInv
  <2>5. PICK l : l = [local[t] EXCEPT !.blocks = list]
    OBVIOUS
  <2>6. Is(l, local[t].top, local[t].next, NULL, list, local[t].diff, local[t].i)
    BY <1>1, <1>3, <2>4, <2>5, BlocksAre
  <2>7. l \in Locals /\ local' = [local EXCEPT ![t] = l] /\ local'[t] = l
    BY <1>5, <2>2, <2>5, <2>6 DEF CreateNewChunk, Is, Inv, TypeInv
  <2>8. pc' = [pc EXCEPT ![t] = "take"] /\ pc'[t] = "take"
    BY <1>5 DEF Goto, Inv, TypeInv
  <2>9. InHand(t)' = list /\ InHand(t) = <<>> /\ PendingOf(t)' = 1 /\ PendingOf(t) = 0
    BY <1>1, <2>6, <2>7, <2>8 DEF InHand, PendingOf, HandSteps, Is
  <2>10. ThreadInv(t)' /\ TopInv(t)'
    BY <1>1, <1>2, <2>1, <2>4, <2>6, <2>7, <2>8, <2>9
    DEF ThreadInv, TopInv, Is, TopSteps, HandSteps, AllocSteps, Collecting
  <2>11. heap' = heap \ Values(list) /\ chunkCapacity' = chunkCapacity + 1
    BY <1>5, <2>2 DEF CreateNewChunk
  <2>12. TypeInv'
    BY <1>1, <1>2, <2>7, <2>8, <2>11 DEF Inv, TypeInv, Steps
  <2>13. PICK stk \in Seq(Headers) : Good(stk)
    BY DEF Inv
  <2>14. Framed(t, NULL)
    BY <1>2, <2>7, <2>8 DEF Framed, Inv, TypeInv
  <2>15. Apart(t) /\ All(t) \subseteq Blocks
    BY <2>13, ApartNow DEF Good
  <2>16. Moved(t)
    <3>1. Values(<<>>) = {} /\ Distinct(tls[t]) /\ Distinct(freeChunk)
      BY <2>13, Nothing DEF Good, AllDistinct
    <3>2. PICK V : V = Values(list) /\ V \subseteq heap
      BY <2>3
    <3>3. Apart(t)'
      <4>1. Five(Values(tls[t]), V, Values(freeChunk), inUse, heap \ V)
        BY <2>15, <3>2 DEF Apart, Five
      <4>2. Apart(t)' = Five(Values(tls'[t]), Values(InHand(t)'), Values(freeChunk'), inUse', heap')
        BY DEF Apart, Five, Values
      <4>. QED  BY <1>2, <2>9, <2>11, <3>2, <4>1, <4>2
    <3>4. All(t)' = All(t)
      <4>1. All(t)' = Values(tls'[t]) \union Values(InHand(t)') \union Values(freeChunk')
                      \union inUse' \union heap'
        BY DEF All, Values
      <4>. QED  BY <1>2, <2>9, <2>11, <3>1, <3>2, <4>1 DEF All
    <3>. QED  BY <1>2, <2>3, <2>9, <2>15, <3>1, <3>3, <3>4 DEF Moved
  <2>17. Balanced(t, 1, 0)
    <3>1. Cardinality(Blocks \ heap') = Cardinality(Blocks \ heap) + n
      BY <2>3, <2>11, HeapGives DEF Inv
    <3>2. local'[t].i = local[t].i /\ local[t].i \in Nat
      BY <1>1, <2>6, <2>7, LocalIs DEF Is
    <3>3. chunkCapacity' - local'[t].i = (chunkCapacity - local[t].i) + 1
      BY <1>1, <2>11, <3>2
    <3>4. (chunkCapacity' - chunkUsed') - PendingOf(t)'
            = ((chunkCapacity - chunkUsed) - PendingOf(t)) + 0
      BY <1>1, <1>2, <2>9, <2>11
    <3>. QED  BY <2>1, <3>1, <3>3, <3>4 DEF Balanced
  <2>. QED  BY <1>2, <2>6, <2>7, <2>10, <2>12, <2>13, <2>14, <2>16, <2>17, NothingForeign,
               QuietStep DEF Is, Inv
<1>. QED  BY <1>4, <1>5 DEF AllocTop

-------------------------------------------------------------------------------
(***************************************************************************)
(* The steps that move blocks, and leave the stack alone.                  *)
(***************************************************************************)
LEMMA MovedIs ==
  ASSUME NEW t \in Threads, NEW a, NEW b, NEW c, NEW d, NEW e, Five(a, b, c, d, e),
         Values(tls'[t]) = a, Values(InHand(t)') = b, Values(freeChunk') = c, inUse' = d,
         heap' = e, a \union b \union c \union d \union e = All(t), All(t) \subseteq Blocks,
         Distinct(tls'[t]), Distinct(InHand(t)'), Distinct(freeChunk')
  PROVE  Moved(t)
<1>1. Apart(t)' = Five(Values(tls'[t]), Values(InHand(t)'), Values(freeChunk'), inUse', heap')
  BY DEF Apart, Five, Values
<1>2. All(t)' = Values(tls'[t]) \union Values(InHand(t)') \union Values(freeChunk')
                \union inUse' \union heap'
  BY DEF All, Values
<1>. QED  BY <1>1, <1>2 DEF Moved

(* No blocks in hand before: a, c, d, e are where the others are.           *)
LEMMA FourNow ==
  ASSUME NEW stk, Good(stk), NEW t \in Threads, InHand(t) = <<>>
  PROVE  /\ Five(Values(tls[t]), {}, Values(freeChunk), inUse, heap)
         /\ All(t) = Values(tls[t]) \union {} \union Values(freeChunk) \union inUse \union heap
         /\ All(t) \subseteq Blocks
         /\ Distinct(tls[t]) /\ Distinct(freeChunk)
<1>1. Apart(t) /\ All(t) \subseteq Blocks
  BY ApartNow DEF Good
<1>2. Values(InHand(t)) = {}
  BY Nothing
<1>. QED  BY <1>1, <1>2 DEF Apart, All, Good, AllDistinct

(* What a thread leaves behind that has the blocks of q in hand.             *)
Leaves(t, q) ==
  /\ tls' \in [Threads -> Seq(Blocks)] /\ \A u \in Threads \ {t} : tls'[u] = tls[u]
  /\ freeChunk' \in Seq(Blocks) /\ inUse' \subseteq Blocks /\ heap' = heap
  /\ Distinct(tls'[t]) /\ Distinct(q) /\ Distinct(freeChunk')
  /\ Five(Values(tls'[t]), Values(q), Values(freeChunk'), inUse', heap)
  /\ Values(tls'[t]) \union Values(q) \union Values(freeChunk') \union inUse' \union heap
       = All(t)

LEMMA FreeStep ==
  ASSUME Inv, NEW t \in Threads, pc[t] \in {"idle", "gather"},
         NEW q \in Seq(Blocks), Len(q) = chunkSize, NEW back \in {"idle", "unlock"},
         Free(t, q, back), topChunk' = topChunk, chunkCapacity' = chunkCapacity,
         Leaves(t, q)
  PROVE  Inv'
<1>1. /\ local[t] \in Locals /\ ThreadInv(t) /\ TopInv(t)
      /\ chunkUsed \in Int /\ chunkCapacity \in Int
  BY DEF Inv, TypeInv
<1>2. local[t].i = 0 /\ local[t].chunk = NULL /\ PendingOf(t) = 0
  BY <1>1 DEF ThreadInv, HandSteps, Collecting, AllocSteps, PendingOf
<1>3. PICK h \in Headers \ live :
        /\ live' = live \union {h}
        /\ header' = [header EXCEPT ![h] = [blocks |-> q, next |-> NULL]]
        /\ local' = [local EXCEPT ![t].chunk = h]
  BY DEF Free
<1>4. h # NULL
  BY PoolAssumption
<1>5. PICK l : l = [local[t] EXCEPT !.chunk = h]
  OBVIOUS
<1>6. Is(l, local[t].top, local[t].next, h, local[t].blocks, local[t].diff, 0)
  BY <1>1, <1>2, <1>5, ChunkIs
<1>7. l \in Locals /\ local' = [local EXCEPT ![t] = l] /\ local'[t] = l
  BY <1>3, <1>5, <1>6 DEF Is, Inv, TypeInv
<1>8. /\ pc' = [pc EXCEPT ![t] = "link"] /\ pc'[t] = "link"
      /\ then' = [then EXCEPT ![t] = back] /\ then'[t] = back
  BY DEF Free, Call, Goto, Inv, TypeInv
<1>9. PICK c \in Chunks : c = [blocks |-> q, next |-> NULL]
  BY DEF Chunks
<1>10. header' \in [Headers -> Chunks] /\ header'[h] = c /\ c.blocks = q
       /\ \A a \in Headers \ {h} : header'[a] = header[a]
  BY <1>3, <1>9 DEF Inv, TypeInv
<1>11. InHand(t)' = q /\ PendingOf(t)' = 1
  BY <1>6, <1>7, <1>8, <1>9, <1>10 DEF InHand, PendingOf, HandSteps, Is
<1>12. chunkUsed' = chunkUsed - 1
  BY DEF Free
<1>13. TypeInv'
  <2>1. pc' \in [Threads -> Steps] /\ then' \in [Threads -> {"idle", "collect", "unlock"}]
    BY <1>8 DEF Inv, TypeInv, Steps
  <2>2. local' \in [Threads -> Locals] /\ live' \subseteq Headers
    BY <1>3, <1>7 DEF Inv, TypeInv
  <2>. QED  BY <1>1, <1>10, <1>12, <2>1, <2>2 DEF Inv, TypeInv, Leaves
<1>14. PICK stk \in Seq(Headers) : Good(stk)
  BY DEF Inv
<1>15. Framed(t, h) /\ Foreign(stk, t, h)
  <2>1. Foreign(stk, t, h)
    BY <1>14, FreshForeign DEF Inv, Good
  <2>. QED  BY <1>3, <1>7, <1>8, <1>10, <2>1 DEF Framed, Inv, TypeInv, Leaves
<1>16. ThreadInv(t)' /\ TopInv(t)'
  BY <1>1, <1>3, <1>4, <1>6, <1>7, <1>8, <1>11
  DEF ThreadInv, TopInv, Is, TopSteps, HandSteps, AllocSteps, Collecting
<1>17. Moved(t)
  <2>1. All(t) \subseteq Blocks
    BY <1>14, ApartNow DEF Good
  <2>. QED  BY <1>11, <2>1, MovedIs DEF Leaves
<1>18. Balanced(t, 0, 0)
  <2>1. /\ chunkCapacity' - local'[t].i = chunkCapacity - local[t].i
        /\ (chunkCapacity' - chunkUsed') - PendingOf(t)'
             = (chunkCapacity - chunkUsed) - PendingOf(t)
    BY <1>1, <1>2, <1>6, <1>7, <1>11, <1>12 DEF Is
  <2>2. heap' = heap
    BY DEF Leaves
  <2>3. PendingOf(t) \in Nat /\ local[t].i \in Nat
    BY <1>2
  <2>. QED  BY <1>1, <2>1, <2>2, <2>3, Steady
<1>. QED  BY <1>6, <1>7, <1>13, <1>14, <1>15, <1>16, <1>17, <1>18, QuietStep DEF Is, Inv

(* The steps that leave counters, headers and stack alone.                  *)
LEMMA BlocksStep ==
  ASSUME Inv, NEW t \in Threads, pc[t] \in {"idle", "gather"},
         NEW c \in {"idle", "alloc", "gather", "compare"}, pc' = [pc EXCEPT ![t] = c],
         then' \in [Threads -> {"idle", "collect", "unlock"}],
         \A u \in Threads \ {t} : then'[u] = then[u],
         c = "alloc" => then'[t] = "idle" /\ tls'[t] = <<>>,
         UNCHANGED <<topChunk, header, live, local, chunkCapacity, chunkUsed>>,
         Leaves(t, <<>>)
  PROVE  Inv'
<1>1. /\ local[t] \in Locals /\ ThreadInv(t) /\ TopInv(t)
      /\ chunkUsed \in Int /\ chunkCapacity \in Int
  BY DEF Inv, TypeInv
<1>2. local[t].i = 0 /\ local[t].chunk = NULL /\ PendingOf(t) = 0 /\ local[t].i \in Nat
  BY <1>1, LocalIs DEF ThreadInv, HandSteps, Collecting, AllocSteps, PendingOf
<1>3. pc'[t] = c /\ pc' \in [Threads -> Steps]
  BY DEF Inv, TypeInv, Steps
<1>4. InHand(t)' = <<>> /\ PendingOf(t)' = 0
  BY <1>3 DEF InHand, PendingOf, HandSteps
<1>5. TypeInv'
  BY <1>3 DEF Inv, TypeInv, Leaves
<1>6. PICK stk \in Seq(Headers) : Good(stk)
  BY DEF Inv
<1>7. Framed(t, NULL)
  BY DEF Framed, Inv, TypeInv, Leaves
<1>8. ThreadInv(t)' /\ TopInv(t)'
  BY <1>1, <1>2, <1>3, <1>4
  DEF ThreadInv, TopInv, TopSteps, HandSteps, AllocSteps, Collecting
<1>9. Moved(t)
  <2>1. All(t) \subseteq Blocks
    BY <1>6, ApartNow DEF Good
  <2>2. Values(InHand(t)') = {} /\ Distinct(InHand(t)')
    BY <1>4, Nothing
  <2>. QED  BY <2>1, <2>2, Nothing, MovedIs DEF Leaves
<1>10. Balanced(t, 0, 0)
  BY <1>1, <1>2, <1>4, Steady DEF Leaves
<1>. QED  BY <1>2, <1>5, <1>6, <1>7, <1>8, <1>9, <1>10, NothingForeign, QuietStep DEF Inv

LEMMA TlsAllocStep == ASSUME Inv, NEW t \in Threads, TlsAlloc(t) PROVE Inv'
<1>1. /\ pc[t] = "idle" /\ InHand(t) = <<>> /\ tls \in [Threads -> Seq(Blocks)]
      /\ inUse \subseteq Blocks /\ freeChunk \in Seq(Blocks)
      /\ then \in [Threads -> {"idle", "collect", "unlock"}] /\ pc = [pc EXCEPT ![t] = "idle"]
  BY DEF TlsAlloc, InHand, Inv, TypeInv
<1>2. /\ UNCHANGED <<topChunk, header, live, local, chunkCapacity, chunkUsed>>
      /\ heap' = heap /\ freeChunk' = freeChunk
  BY DEF TlsAlloc, stack, counts, ending
<1>3. PICK stk \in Seq(Headers) : Good(stk)
  BY DEF Inv
<1>4. /\ Five(Values(tls[t]), {}, Values(freeChunk), inUse, heap)
      /\ All(t) = Values(tls[t]) \union {} \union Values(freeChunk) \union inUse \union heap
      /\ All(t) \subseteq Blocks /\ Distinct(tls[t]) /\ Distinct(freeChunk)
  BY <1>1, <1>3, FourNow
<1>5. PICK q \in Seq(Blocks) : q = tls[t]
  BY <1>1
<1>6. CASE /\ q # <<>> /\ inUse' = inUse \union {Head(q)} /\ UNCHANGED <<pc, then>>
           /\ tls' = [tls EXCEPT ![t] = Tail(q)]
  <2>1. PICK b \in Blocks : b = Head(q)
    BY <1>4, <1>5, <1>6, HeadAndTail
  <2>2. PICK r \in Seq(Blocks) : r = Tail(q)
    BY <1>4, <1>5, <1>6, HeadAndTail
  <2>3. Distinct(r) /\ b \notin Values(r) /\ Values(q) = {b} \union Values(r)
    BY <1>4, <1>5, <1>6, <2>1, <2>2, HeadAndTail
  <2>4. /\ tls' \in [Threads -> Seq(Blocks)] /\ tls'[t] = r
        /\ \A u \in Threads \ {t} : tls'[u] = tls[u]
    BY <1>1, <1>6, <2>2
  <2>5. Leaves(t, <<>>)
    <3>1. inUse' = inUse \union {b}
      BY <1>6, <2>1
    <3>2. Five(Values(r), {}, Values(freeChunk), inUse \union {b}, heap)
      BY <1>4, <1>5, <2>3 DEF Five
    <3>3. Values(r) \union {} \union Values(freeChunk) \union (inUse \union {b}) \union heap
          = All(t)
      BY <1>4, <1>5, <2>3
    <3>. QED  BY <1>1, <1>2, <1>4, <2>1, <2>3, <2>4, <3>1, <3>2, <3>3, Nothing DEF Leaves
  <2>6. pc' = [pc EXCEPT ![t] = "idle"] /\ then' = then
    BY <1>1, <1>6
  <2>. QED  BY <1>1, <1>2, <2>5, <2>6, BlocksStep
<1>7. CASE q = <<>> /\ Call(t, "alloc", "idle") /\ UNCHANGED <<inUse, tls>>
  <2>1. /\ pc' = [pc EXCEPT ![t] = "alloc"] /\ then'[t] = "idle"
        /\ then' \in [Threads -> {"idle", "collect", "unlock"}]
        /\ \A u \in Threads \ {t} : then'[u] = then[u]
    BY <1>1, <1>7 DEF Call, Goto
  <2>2. Leaves(t, <<>>)
    BY <1>1, <1>2, <1>4, <1>5, <1>7, Nothing DEF Leaves
  <2>. QED  BY <1>1, <1>2, <1>5, <1>7, <2>1, <2>2, BlocksStep
<1>. QED  BY <1>5, <1>6, <1>7 DEF TlsAlloc

LEMMA TlsFreeStep == ASSUME Inv, NEW t \in Threads, NEW b \in Blocks, TlsFree(t, b) PROVE Inv'
<1>1. /\ pc[t] = "idle" /\ InHand(t) = <<>> /\ tls \in [Threads -> Seq(Blocks)]
      /\ inUse \subseteq Blocks /\ freeChunk \in Seq(Blocks)
      /\ then \in [Threads -> {"idle", "collect", "unlock"}] /\ pc = [pc EXCEPT ![t] = "idle"]
  BY DEF TlsFree, InHand, Inv, TypeInv
<1>2. /\ topChunk' = topChunk /\ chunkCapacity' = chunkCapacity
      /\ heap' = heap /\ freeChunk' = freeChunk
      /\ b \in inUse /\ inUse' = inUse \ {b}
  BY DEF TlsFree, ending
<1>3. PICK stk \in Seq(Headers) : Good(stk)
  BY DEF Inv
<1>4. /\ Five(Values(tls[t]), {}, Values(freeChunk), inUse, heap)
      /\ All(t) = Values(tls[t]) \union {} \union Values(freeChunk) \union inUse \union heap
      /\ All(t) \subseteq Blocks /\ Distinct(tls[t]) /\ Distinct(freeChunk)
  BY <1>1, <1>3, FourNow
<1>5. PICK q \in Seq(Blocks) : q = tls[t]
  BY <1>1
<1>6. <<b>> \in Seq(Blocks) /\ Values(<<b>>) = {b} /\ Distinct(<<b>>)
  <2>1. <<b>> \in Seq(Blocks) /\ DOMAIN <<b>> = {1} /\ <<b>>[1] = b
    OBVIOUS
  <2>. QED  BY <2>1 DEF Values, Distinct
<1>7. b \notin Values(q)
  BY <1>2, <1>4, <1>5 DEF Five
<1>8. /\ <<b>> \o q \in Seq(Blocks) /\ Distinct(<<b>> \o q)
      /\ Values(<<b>> \o q) = Values(<<b>>) \union Values(q)
  <2>1. PICK one \in Seq(Blocks) : one = <<b>>
    BY <1>6
  <2>2. Distinct(one) /\ Values(one) \intersect Values(q) = {} /\ Distinct(q)
    BY <1>4, <1>5, <1>6, <1>7, <2>1
  <2>3. /\ one \o q \in Seq(Blocks) /\ Distinct(one \o q)
        /\ Values(one \o q) = Values(one) \union Values(q)
    BY <2>2, Joined
  <2>. QED  BY <2>1, <2>3
<1>9. PICK list \in Seq(Blocks) :
        list = <<b>> \o q /\ Distinct(list) /\ Values(list) = {b} \union Values(q)
  BY <1>6, <1>8
<1>10. CASE /\ tls' = [tls EXCEPT ![t] = list]
            /\ UNCHANGED <<header, live, chunkUsed, pc, then, local>>
  <2>1. /\ tls' \in [Threads -> Seq(Blocks)] /\ tls'[t] = list
        /\ \A u \in Threads \ {t} : tls'[u] = tls[u]
    BY <1>1, <1>10
  <2>2. Five(Values(list), {}, Values(freeChunk), inUse \ {b}, heap)
    BY <1>2, <1>4, <1>5, <1>7, <1>9 DEF Five
  <2>3. Values(list) \union {} \union Values(freeChunk) \union (inUse \ {b}) \union heap = All(t)
    BY <1>2, <1>4, <1>5, <1>9
  <2>4. Leaves(t, <<>>)
    BY <1>1, <1>2, <1>4, <1>9, <2>1, <2>2, <2>3, Nothing DEF Leaves
  <2>5. pc' = [pc EXCEPT ![t] = "idle"] /\ then' = then
    BY <1>1, <1>10
  <2>. QED  BY <1>1, <1>2, <1>10, <2>4, <2>5, BlocksStep
<1>11. CASE /\ Len(list) >= 2 * chunkSize
            /\ tls' = [tls EXCEPT ![t] = SubSeq(list, chunkSize + 1, Len(list))]
            /\ Free(t, SubSeq(list, 1, chunkSize), "idle")
  <2>1. PICK n \in Nat : n = chunkSize /\ n <= Len(list)
    BY <1>11, PoolAssumption
  <2>2. PICK x : x = SubSeq(list, 1, n)
    OBVIOUS
  <2>3. PICK y : y = SubSeq(list, n + 1, Len(list))
    OBVIOUS
  <2>4. Makes(x, y, Values(list)) /\ Len(x) = n
    BY <1>9, <2>1, <2>2, <2>3, Cut
  <2>5. /\ x \in Seq(Blocks) /\ y \in Seq(Blocks) /\ Distinct(x) /\ Distinct(y)
        /\ Values(x) \intersect Values(y) = {} /\ Values(x) \union Values(y) = Values(list)
    BY <2>4 DEF Makes
  <2>6. /\ tls' \in [Threads -> Seq(Blocks)] /\ tls'[t] = y
        /\ \A u \in Threads \ {t} : tls'[u] = tls[u]
    BY <1>1, <1>11, <2>1, <2>3, <2>5
  <2>7. Five(Values(y), Values(x), Values(freeChunk), inUse \ {b}, heap)
    BY <1>2, <1>4, <1>5, <1>7, <1>9, <2>5 DEF Five
  <2>8. Values(y) \union Values(x) \union Values(freeChunk) \union (inUse \ {b}) \union heap
          = All(t)
    BY <1>2, <1>4, <1>5, <1>9, <2>5
  <2>9. Leaves(t, x)
    BY <1>1, <1>2, <1>4, <2>5, <2>6, <2>7, <2>8 DEF Leaves
  <2>. QED  BY <1>1, <1>2, <1>11, <2>1, <2>2, <2>4, <2>5, <2>9, FreeStep
<1>. QED  BY <1>5, <1>9, <1>10, <1>11 DEF TlsFree

LEMMA RemoveRemaindersStep == ASSUME Inv, NEW t \in Threads, RemoveRemainders(t) PROVE Inv'
<1>1. /\ pc[t] = "idle" /\ InHand(t) = <<>> /\ tls \in [Threads -> Seq(Blocks)]
      /\ inUse \subseteq Blocks /\ freeChunk \in Seq(Blocks)
      /\ then \in [Threads -> {"idle", "collect", "unlock"}]
  BY DEF RemoveRemainders, InHand, Inv, TypeInv
<1>2. /\ topChunk' = topChunk /\ chunkCapacity' = chunkCapacity
      /\ heap' = heap /\ freeChunk' = freeChunk /\ inUse' = inUse
  BY DEF RemoveRemainders
<1>3. PICK stk \in Seq(Headers) : Good(stk)
  BY DEF Inv
<1>4. /\ Five(Values(tls[t]), {}, Values(freeChunk), inUse, heap)
      /\ All(t) = Values(tls[t]) \union {} \union Values(freeChunk) \union inUse \union heap
      /\ All(t) \subseteq Blocks /\ Distinct(tls[t]) /\ Distinct(freeChunk)
  BY <1>1, <1>3, FourNow
<1>5. PICK q \in Seq(Blocks) : q = tls[t]
  BY <1>1
<1>6. CASE Len(q) = chunkSize /\ Free(t, q, "idle") /\ tls' = [tls EXCEPT ![t] = <<>>]
  <2>1. /\ tls' \in [Threads -> Seq(Blocks)] /\ tls'[t] = <<>>
        /\ \A u \in Threads \ {t} : tls'[u] = tls[u]
    BY <1>1, <1>6, Nothing
  <2>2. Five({}, Values(q), Values(freeChunk), inUse, heap)
    BY <1>4, <1>5 DEF Five
  <2>3. {} \union Values(q) \union Values(freeChunk) \union inUse \union heap = All(t)
    BY <1>4, <1>5
  <2>4. Leaves(t, q)
    BY <1>1, <1>2, <1>4, <1>5, <2>1, <2>2, <2>3, Nothing DEF Leaves
  <2>. QED  BY <1>1, <1>2, <1>6, <2>4, FreeStep
<1>7. CASE Goto(t, "gather") /\ UNCHANGED <<header, live, chunkUsed, then, local, tls>>
  <2>1. Leaves(t, <<>>)
    BY <1>1, <1>2, <1>4, <1>7, Nothing DEF Leaves
  <2>. QED  BY <1>1, <1>2, <1>7, <2>1, BlocksStep DEF Goto
<1>. QED  BY <1>5, <1>6, <1>7 DEF RemoveRemainders

LEMMA DestructionStep ==
  ASSUME Inv, NEW t \in Threads, FreeFromTLSDestruction(t) PROVE Inv'
<1>1. /\ pc[t] = "gather" /\ InHand(t) = <<>> /\ tls \in [Threads -> Seq(Blocks)]
      /\ inUse \subseteq Blocks /\ freeChunk \in Seq(Blocks)
      /\ then \in [Threads -> {"idle", "collect", "unlock"}]
  BY DEF FreeFromTLSDestruction, InHand, Inv, TypeInv
<1>2. /\ topChunk' = topChunk /\ chunkCapacity' = chunkCapacity
      /\ heap' = heap /\ inUse' = inUse /\ tls' = [tls EXCEPT ![t] = <<>>]
  BY DEF FreeFromTLSDestruction
<1>3. PICK stk \in Seq(Headers) : Good(stk)
  BY DEF Inv
<1>4. /\ Five(Values(tls[t]), {}, Values(freeChunk), inUse, heap)
      /\ All(t) = Values(tls[t]) \union {} \union Values(freeChunk) \union inUse \union heap
      /\ All(t) \subseteq Blocks /\ Distinct(tls[t]) /\ Distinct(freeChunk)
  BY <1>1, <1>3, FourNow
<1>5. /\ tls' \in [Threads -> Seq(Blocks)] /\ tls'[t] = <<>>
      /\ \A u \in Threads \ {t} : tls'[u] = tls[u]
  BY <1>1, <1>2, Nothing
<1>6. PICK q \in Seq(Blocks) : q = tls[t]
  BY <1>1
<1>7. PICK list \in Seq(Blocks) :
        /\ list = freeChunk \o q /\ Distinct(list)
        /\ Values(list) = Values(freeChunk) \union Values(q)
  <2>1. Values(freeChunk) \intersect Values(q) = {}
    BY <1>4, <1>6 DEF Five
  <2>. QED  BY <1>1, <1>4, <1>6, <2>1, Joined
<1>8. Distinct(list) /\ Values(list) = Values(freeChunk) \union Values(q)
  BY <1>7
<1>9. CASE /\ freeChunk' = list /\ Goto(t, "compare")
           /\ UNCHANGED <<header, live, chunkUsed, then, local>>
  <2>1. Five({}, {}, Values(list), inUse, heap)
    BY <1>4, <1>6, <1>8 DEF Five
  <2>2. {} \union {} \union Values(list) \union inUse \union heap = All(t)
    BY <1>4, <1>6, <1>8
  <2>3. Leaves(t, <<>>)
    BY <1>1, <1>2, <1>5, <1>8, <1>9, <2>1, <2>2, Nothing DEF Leaves
  <2>. QED  BY <1>1, <1>2, <1>9, <2>3, BlocksStep DEF Goto
<1>10. CASE /\ Len(list) >= chunkSize /\ freeChunk' = Kept(list)
            /\ Free(t, SubSeq(list, 1, chunkSize), "unlock")
  <2>1. PICK n \in Nat : n = chunkSize /\ n <= Len(list)
    BY <1>10, PoolAssumption
  <2>2. PICK x : x = SubSeq(list, 1, n)
    OBVIOUS
  <2>3. PICK y : y = SubSeq(list, n + 1, Len(list))
    OBVIOUS
  <2>4. Makes(x, y, Values(list)) /\ Len(x) = n
    BY <1>8, <2>1, <2>2, <2>3, Cut
  <2>5. /\ x \in Seq(Blocks) /\ y \in Seq(Blocks) /\ Distinct(x) /\ Distinct(y)
        /\ Values(x) \intersect Values(y) = {} /\ Values(x) \union Values(y) = Values(list)
    BY <2>4 DEF Makes
  <2>6. freeChunk' = y
    BY <1>10, <2>1, <2>3 DEF Kept
  <2>7. Five({}, Values(x), Values(y), inUse, heap)
    BY <1>4, <1>6, <1>8, <2>5 DEF Five
  <2>8. {} \union Values(x) \union Values(y) \union inUse \union heap = All(t)
    BY <1>4, <1>6, <1>8, <2>5
  <2>9. Leaves(t, x)
    BY <1>1, <1>2, <1>5, <2>5, <2>6, <2>7, <2>8, Nothing DEF Leaves
  <2>. QED  BY <1>1, <1>2, <1>5, <1>10, <2>1, <2>2, <2>4, <2>5, <2>9, FreeStep
<1>. QED  BY <1>6, <1>7, <1>9, <1>10 DEF FreeFromTLSDestruction

LEMMA AllocTakeStep == ASSUME Inv, NEW t \in Threads, AllocTake(t) PROVE Inv'
<1>1. /\ pc[t] = "take" /\ local[t] \in Locals /\ ThreadInv(t) /\ TopInv(t)
      /\ chunkUsed \in Int /\ chunkCapacity \in Int /\ tls \in [Threads -> Seq(Blocks)]
      /\ inUse \subseteq Blocks /\ freeChunk \in Seq(Blocks) /\ heap \subseteq Blocks
      /\ header \in [Headers -> Chunks] /\ live \subseteq Headers /\ topChunk \in Tops
      /\ pc \in [Threads -> Steps] /\ local \in [Threads -> Locals]
      /\ then \in [Threads -> {"idle", "collect", "unlock"}]
  BY DEF AllocTake, Inv, TypeInv
<1>2. PICK h : h = local[t].chunk
  OBVIOUS
<1>3. /\ chunkUsed' = chunkUsed + 1 /\ live' = live \ {h} /\ topChunk' = topChunk
      /\ chunkCapacity' = chunkCapacity
      /\ freeChunk' = freeChunk /\ then' = then
  BY <1>2 DEF AllocTake, ending
<1>4. PICK q \in Seq(Blocks) : q = local[t].blocks
  BY <1>1, LocalIs
<1>5. PICK stk \in Seq(Headers) : Good(stk)
  BY DEF Inv
<1>6. /\ Five(Values(tls[t]), Values(q), Values(freeChunk), inUse, heap)
      /\ All(t) = Values(tls[t]) \union Values(q) \union Values(freeChunk) \union inUse
                  \union heap
      /\ All(t) \subseteq Blocks
      /\ Distinct(tls[t]) /\ Distinct(q) /\ Distinct(freeChunk)
  <2>1. InHand(t) = q
    BY <1>1, <1>4 DEF InHand
  <2>2. Apart(t) /\ All(t) \subseteq Blocks
    BY <1>5, ApartNow DEF Good
  <2>. QED  BY <1>5, <2>1, <2>2 DEF Apart, All, Good, AllDistinct
<1>7. Len(q) = chunkSize /\ local[t].i \in Nat /\ local[t].diff \in Nat /\ PendingOf(t) = 1
  BY <1>1, <1>4, LocalIs DEF ThreadInv, HandSteps, InHand, PendingOf
<1>8. /\ header' \in [Headers -> Chunks] /\ live' \subseteq Headers
      /\ \A a \in Headers \ {h} : header'[a] = header[a]
  <2>1. header' = [a \in Headers |-> IF a = h THEN NoChunk ELSE header[a]]
    BY <1>2 DEF AllocTake
  <2>. QED  BY <1>1, <1>3, <2>1, Nothing DEF NoChunk, Chunks
<1>9. Foreign(stk, t, h)
  BY <1>2, <1>5, HandForeign DEF Good
<1>10. CASE /\ then[t] = "idle" /\ tls' = [tls EXCEPT ![t] = Tail(q)]
            /\ inUse' = inUse \union {Head(q)} /\ Goto(t, "idle") /\ Forget(t) /\ heap' = heap
  <2>1. q # <<>> /\ tls[t] = <<>> /\ local[t].i = 0
    BY <1>1, <1>7, <1>10, PoolAssumption DEF ThreadInv, AllocSteps, Collecting
  <2>2. PICK b \in Blocks : b = Head(q)
    BY <1>6, <2>1, HeadAndTail
  <2>3. PICK r \in Seq(Blocks) : r = Tail(q)
    BY <1>6, <2>1, HeadAndTail
  <2>4. Distinct(r) /\ b \notin Values(r) /\ Values(q) = {b} \union Values(r)
    BY <1>6, <2>1, <2>2, <2>3, HeadAndTail
  <2>5. PICK l : l = Forgotten(local[t])
    OBVIOUS
  <2>6. Is(l, NULL, NULL, NULL, <<>>, local[t].diff, 0)
    BY <1>1, <2>1, <2>5, ForgottenIs
  <2>7. l \in Locals /\ local' = [local EXCEPT ![t] = l] /\ local'[t] = l
    BY <1>1, <1>10, <2>5, <2>6 DEF Is, Forget
  <2>8. /\ pc' \in [Threads -> Steps] /\ pc'[t] = "idle"
        /\ \A u \in Threads \ {t} : pc'[u] = pc[u]
    BY <1>1, <1>10 DEF Goto, Steps
  <2>9. InHand(t)' = <<>> /\ PendingOf(t)' = 0
    BY <2>8 DEF InHand, PendingOf, HandSteps
  <2>10. /\ tls' \in [Threads -> Seq(Blocks)] /\ tls'[t] = r
         /\ \A u \in Threads \ {t} : tls'[u] = tls[u]
    BY <1>1, <1>10, <2>3
  <2>11. inUse' = inUse \union {b} /\ heap' = heap
    BY <1>10, <2>2
  <2>12. local' \in [Threads -> Locals] /\ \A u \in Threads \ {t} : local'[u] = local[u]
    BY <1>1, <2>7
  <2>13. TypeInv'
    BY <1>1, <1>3, <1>8, <2>8, <2>10, <2>11, <2>12 DEF TypeInv
  <2>14. Framed(t, h)
    BY <1>3, <1>8, <2>8, <2>10, <2>12 DEF Framed
  <2>15. ThreadInv(t)' /\ TopInv(t)'
    BY <1>1, <1>3, <1>7, <2>6, <2>7, <2>8, <2>9
    DEF ThreadInv, TopInv, Is, TopSteps, HandSteps, AllocSteps, Collecting
  <2>16. Moved(t)
    <3>1. Five(Values(r), {}, Values(freeChunk), inUse \union {b}, heap)
      BY <1>6, <2>4 DEF Five
    <3>2. Values(r) \union {} \union Values(freeChunk) \union (inUse \union {b}) \union heap
            = All(t)
      BY <1>6, <2>1, <2>4, Nothing
    <3>. QED  BY <1>3, <1>6, <1>10, <2>4, <2>9, <2>10, <2>11, <3>1, <3>2, Nothing, MovedIs
  <2>17. Balanced(t, 0, 0)
    <3>1. /\ chunkCapacity' - local'[t].i = chunkCapacity - local[t].i
          /\ (chunkCapacity' - chunkUsed') - PendingOf(t)'
               = (chunkCapacity - chunkUsed) - PendingOf(t)
      BY <1>1, <1>3, <1>7, <2>1, <2>6, <2>7, <2>9 DEF Is
    <3>2. PendingOf(t) \in Nat
      BY <1>7
    <3>. QED  BY <1>1, <1>7, <2>11, <3>1, <3>2, Steady
  <2>. QED  BY <1>3, <1>5, <1>9, <2>6, <2>7, <2>13, <2>14, <2>15, <2>16, <2>17, QuietStep
            DEF Is, Inv
<1>11. CASE /\ then[t] = "collect" /\ heap' = heap \union Values(q)
            /\ local' = [local EXCEPT ![t] = [NoLocal EXCEPT !.diff = local[t].diff,
                                                             !.i = local[t].i + 1]]
            /\ Goto(t, "collect") /\ UNCHANGED <<tls, inUse>>
  <2>1. PICK i \in Nat : i = local[t].i + 1
    BY <1>7
  <2>2. i <= local[t].diff
    BY <1>1, <1>7, <1>11, <2>1 DEF ThreadInv, AllocSteps
  <2>3. PICK l : l = [NoLocal EXCEPT !.diff = local[t].diff, !.i = i]
    OBVIOUS
  <2>4. Is(l, NULL, NULL, NULL, <<>>, local[t].diff, i)
    BY <1>7, <2>3, NoLocalIs
  <2>5. l \in Locals /\ local' = [local EXCEPT ![t] = l] /\ local'[t] = l
    BY <1>1, <1>11, <2>1, <2>3, <2>4 DEF Is
  <2>6. /\ pc' \in [Threads -> Steps] /\ pc'[t] = "collect"
        /\ \A u \in Threads \ {t} : pc'[u] = pc[u]
    BY <1>1, <1>11 DEF Goto, Steps
  <2>7. InHand(t)' = <<>> /\ PendingOf(t)' = 0
    BY <2>6 DEF InHand, PendingOf, HandSteps
  <2>8. local' \in [Threads -> Locals] /\ \A u \in Threads \ {t} : local'[u] = local[u]
    BY <1>1, <2>5
  <2>9. Values(q) \subseteq Blocks /\ Values(q) \intersect heap = {}
    BY <1>6, ListValues DEF Five
  <2>10. TypeInv'
    BY <1>1, <1>3, <1>8, <1>11, <2>6, <2>8, <2>9 DEF TypeInv
  <2>11. Framed(t, h)
    BY <1>3, <1>8, <1>11, <2>6, <2>8 DEF Framed
  <2>12. ThreadInv(t)' /\ TopInv(t)'
    BY <1>1, <1>3, <2>2, <2>4, <2>5, <2>6, <2>7
    DEF ThreadInv, TopInv, Is, TopSteps, HandSteps, AllocSteps, Collecting
  <2>13. Moved(t)
    <3>1. PICK V : V = Values(q)
      OBVIOUS
    <3>2. Five(Values(tls[t]), {}, Values(freeChunk), inUse, heap \union V)
      BY <1>6, <3>1 DEF Five
    <3>3. Values(tls[t]) \union {} \union Values(freeChunk) \union inUse
            \union (heap \union V) = All(t)
      BY <1>6, <3>1
    <3>. QED  BY <1>3, <1>6, <1>11, <2>7, <3>1, <3>2, <3>3, Nothing, MovedIs
  <2>14. Balanced(t, -1, 0)
    <3>1. PICK n \in Nat : n = chunkSize
      BY PoolAssumption
    <3>2. Cardinality(Values(q)) = n
      BY <1>6, <1>7, <3>1, DistinctLength
    <3>3. Cardinality(Blocks \ heap') = Cardinality(Blocks \ heap) + (-1) * chunkSize
      BY <1>11, <2>9, <3>1, <3>2, HeapTakes DEF Inv
    <3>4. /\ chunkCapacity' - local'[t].i = (chunkCapacity - local[t].i) + (-1)
          /\ (chunkCapacity' - chunkUsed') - PendingOf(t)'
               = ((chunkCapacity - chunkUsed) - PendingOf(t)) + 0
      <4>1. PICK j \in Nat : j = local[t].i
        BY <1>7
      <4>2. local'[t].i = j + 1
        BY <2>1, <2>4, <2>5, <4>1 DEF Is
      <4>3. PICK c \in Int : c = chunkCapacity /\ chunkCapacity' = c
        BY <1>1, <1>3
      <4>4. PICK u \in Int : u = chunkUsed /\ chunkUsed' = u + 1
        BY <1>1, <1>3
      <4>5. (c - (j + 1) = (c - j) + (-1)) /\ ((c - (u + 1)) - 0 = ((c - u) - 1) + 0)
        OBVIOUS
      <4>. QED  BY <1>7, <2>7, <4>1, <4>2, <4>3, <4>4, <4>5
    <3>. QED  BY <3>3, <3>4 DEF Balanced
  <2>. QED  BY <1>3, <1>5, <1>9, <2>4, <2>5, <2>10, <2>11, <2>12, <2>13, <2>14, QuietStep
            DEF Is, Inv
<1>. QED  BY <1>4, <1>10, <1>11 DEF AllocTake

LEMMA FreeLinkStep == ASSUME Inv, NEW t \in Threads, FreeLink(t) PROVE Inv'
<1>1. /\ pc[t] = "link" /\ local[t] \in Locals /\ ThreadInv(t) /\ TopInv(t)
      /\ chunkUsed \in Int /\ chunkCapacity \in Int /\ topChunk \in Tops
      /\ header \in [Headers -> Chunks] /\ pc \in [Threads -> Steps]
      /\ local \in [Threads -> Locals]
  BY DEF FreeLink, Inv, TypeInv
<1>2. PICK h \in Headers : h = local[t].chunk
  BY <1>1, LocalIs DEF ThreadInv
<1>3. /\ topChunk' = topChunk /\ live' = live /\ heap' = heap /\ then' = then /\ tls' = tls
      /\ chunkUsed' = chunkUsed /\ chunkCapacity' = chunkCapacity /\ inUse' = inUse
      /\ freeChunk' = freeChunk
  BY DEF FreeLink, counts, ending
<1>4. PICK x \in Headers \union {NULL} : x = topChunk.at
  BY <1>1 DEF Tops
<1>5. PICK c : c = [header[h] EXCEPT !.next = x]
  OBVIOUS
<1>6. c \in Chunks /\ c.blocks = header[h].blocks /\ c.next = x
  <2>1. PICK k \in Chunks : k = header[h]
    BY <1>1
  <2>2. <<>> \in Seq(Blocks)
    OBVIOUS
  <2>3. c = [k EXCEPT !.next = x]
    BY <1>5, <2>1
  <2>4. /\ [k EXCEPT !.next = x] \in Chunks
        /\ [k EXCEPT !.next = x].blocks = k.blocks /\ [k EXCEPT !.next = x].next = x
    BY <2>2, ChunksAre
  <2>. QED  BY <2>1, <2>3, <2>4
<1>7. /\ header' \in [Headers -> Chunks] /\ header'[h] = c
      /\ \A a \in Headers \ {h} : header'[a] = header[a]
  BY <1>1, <1>2, <1>4, <1>5, <1>6 DEF FreeLink
<1>8. PICK l : l = [local[t] EXCEPT !.top = topChunk]
  OBVIOUS
<1>9. Is(l, topChunk, local[t].next, h, local[t].blocks, local[t].diff, local[t].i)
  BY <1>1, <1>2, <1>8, TopIs
<1>10. /\ l \in Locals /\ local' \in [Threads -> Locals] /\ local'[t] = l
       /\ \A u \in Threads \ {t} : local'[u] = local[u]
  BY <1>1, <1>8, <1>9 DEF Is, FreeLink
<1>11. /\ pc' \in [Threads -> Steps] /\ pc'[t] = "push"
       /\ \A u \in Threads \ {t} : pc'[u] = pc[u]
  BY <1>1 DEF Goto, Steps, FreeLink
<1>12. /\ InHand(t)' = InHand(t) /\ PendingOf(t)' = PendingOf(t) /\ PendingOf(t) \in Nat
  BY <1>1, <1>2, <1>6, <1>7, <1>9, <1>10, <1>11 DEF InHand, PendingOf, HandSteps, Is
<1>13. PICK stk \in Seq(Headers) : Good(stk)
  BY DEF Inv
<1>14. TypeInv'
  BY <1>3, <1>7, <1>10, <1>11 DEF Inv, TypeInv
<1>15. Framed(t, h) /\ Foreign(stk, t, h)
  BY <1>2, <1>3, <1>7, <1>10, <1>11, <1>13, HandForeign DEF Framed, Good
<1>16. ThreadInv(t)' /\ TopInv(t)'
  BY <1>1, <1>2, <1>3, <1>4, <1>6, <1>7, <1>9, <1>10, <1>11, <1>12
  DEF ThreadInv, TopInv, Is, TopSteps, HandSteps, AllocSteps, Collecting
<1>17. Moved(t)
  BY <1>3, <1>12, <1>13, Still DEF Good
<1>18. Balanced(t, 0, 0)
  <2>1. local'[t].i = local[t].i /\ local[t].i \in Nat
    BY <1>1, <1>9, <1>10, LocalIs DEF Is
  <2>. QED  BY <1>1, <1>3, <1>12, <2>1, Steady
<1>. QED  BY <1>2, <1>3, <1>9, <1>10, <1>13, <1>14, <1>15, <1>16, <1>17, <1>18, QuietStep
          DEF Is, Inv

-------------------------------------------------------------------------------
(***************************************************************************)
(* The steps on the stack.                                                 *)
(***************************************************************************)
Single(stk) == \A m, n \in DOMAIN stk : stk[m] = stk[n] => m = n

(* stk is r with h on top.                                                  *)
OnTop(stk, h, r) ==
  /\ r \in Seq(Headers) /\ h \in Headers /\ stk \in Seq(Headers)
  /\ Len(r) \in Nat /\ Len(stk) = Len(r) + 1
  /\ DOMAIN r = 1 .. Len(r) /\ DOMAIN stk = 1 .. Len(r) + 1
  /\ stk[1] = h /\ \A n \in DOMAIN r : stk[n + 1] = r[n]
  /\ \A n \in DOMAIN stk : n = 1 \/ n - 1 \in DOMAIN r
  /\ stk # <<>> /\ (r = <<>> <=> Len(r) = 0)
  /\ Values(stk) = {h} \union Values(r) /\ h \notin Values(r)
  /\ Single(stk) /\ Single(r)

LEMMA TakenOff ==
  ASSUME NEW stk \in Seq(Headers), stk # <<>>, Single(stk)
  PROVE  OnTop(stk, stk[1], Tail(stk))
<1>1. PICK l \in Nat : l + 1 = Len(stk) /\ DOMAIN stk = 1 .. l + 1
  <2>1. PICK k \in Nat : k = Len(stk) /\ DOMAIN stk = 1 .. k /\ k > 0
    OBVIOUS
  <2>2. k - 1 \in Nat /\ (k - 1) + 1 = k
    BY <2>1
  <2>. QED  BY <2>1, <2>2
<1>2. PICK r : r = Tail(stk)
  OBVIOUS
<1>3. /\ r \in Seq(Headers) /\ Len(r) = l /\ DOMAIN r = 1 .. l
      /\ \A n \in 1 .. l : r[n] = stk[n + 1]
  BY <1>1, <1>2
<1>4. stk[1] \in Headers /\ 1 \in 1 .. l + 1
  BY <1>1
<1>5. /\ \A n \in 1 .. l : n + 1 \in 1 .. l + 1 /\ n + 1 # 1
      /\ \A n \in 1 .. l + 1 : n = 1 \/ (n - 1 \in 1 .. l /\ (n - 1) + 1 = n)
  OBVIOUS
<1>6. Single(r)
  <2> SUFFICES ASSUME NEW m \in 1 .. l, NEW n \in 1 .. l, r[m] = r[n] PROVE m = n
    BY <1>3 DEF Single
  <2>1. m + 1 = n + 1
    BY <1>1, <1>3, <1>5 DEF Single
  <2>. QED  BY <2>1
<1>7. stk[1] \notin Values(r)
  BY <1>1, <1>3, <1>4, <1>5 DEF Single, Values
<1>8. Values(stk) = {stk[1]} \union Values(r)
  <2>1. Values(r) \subseteq Values(stk) /\ stk[1] \in Values(stk)
    BY <1>1, <1>3, <1>4, <1>5 DEF Values
  <2>2. ASSUME NEW n \in 1 .. l + 1, n # 1 PROVE stk[n] \in Values(r)
    <3>1. n - 1 \in DOMAIN r /\ r[n - 1] = stk[n]
      BY <1>3, <1>5, <2>2
    <3>. QED  BY <3>1 DEF Values
  <2>. QED  BY <1>1, <2>1, <2>2 DEF Values
<1>9. stk # <<>> /\ (r = <<>> <=> Len(r) = 0)
  BY <1>3
<1>. QED  BY <1>1, <1>2, <1>3, <1>4, <1>5, <1>6, <1>7, <1>8, <1>9 DEF OnTop

LEMMA PutOn ==
  ASSUME NEW r \in Seq(Headers), Single(r), NEW h \in Headers, h \notin Values(r)
  PROVE  OnTop(<<h>> \o r, h, r)
<1>1. PICK l \in Nat : l = Len(r) /\ DOMAIN r = 1 .. l
  OBVIOUS
<1>2. PICK stk : stk = <<h>> \o r
  OBVIOUS
<1>3. /\ stk \in Seq(Headers) /\ Len(stk) = l + 1 /\ DOMAIN stk = 1 .. l + 1 /\ stk[1] = h
      /\ \A n \in 2 .. l + 1 : stk[n] = r[n - 1]
  BY <1>1, <1>2
<1>4. /\ \A n \in 1 .. l : n + 1 \in 2 .. l + 1 /\ n + 1 \in 1 .. l + 1 /\ (n + 1) - 1 = n
      /\ \A n \in 1 .. l + 1 : n = 1 \/ (n \in 2 .. l + 1 /\ n - 1 \in 1 .. l)
      /\ 1 \in 1 .. l + 1
  OBVIOUS
<1>5. \A n \in 1 .. l : stk[n + 1] = r[n]
  BY <1>3, <1>4
<1>6. Single(stk)
  <2> SUFFICES ASSUME NEW m \in 1 .. l + 1, NEW n \in 1 .. l + 1, stk[m] = stk[n] PROVE m = n
    BY <1>3 DEF Single
  <2>1. ASSUME NEW k \in 1 .. l + 1, k # 1 PROVE stk[k] = r[k - 1] /\ stk[k] \in Values(r)
    <3>1. k \in 2 .. l + 1 /\ k - 1 \in 1 .. l
      BY <1>4, <2>1
    <3>. QED  BY <1>1, <1>3, <3>1 DEF Values
  <2>2. CASE m = 1 \/ n = 1
    BY <1>3, <2>1, <2>2
  <2>3. CASE m # 1 /\ n # 1
    <3>1. r[m - 1] = r[n - 1] /\ m - 1 \in DOMAIN r /\ n - 1 \in DOMAIN r
      BY <1>1, <1>4, <2>1, <2>3
    <3>2. m - 1 = n - 1
      BY <3>1 DEF Single
    <3>. QED  BY <3>2
  <2>. QED  BY <2>2, <2>3
<1>7. Values(stk) = {h} \union Values(r)
  <2>1. ASSUME NEW n \in 1 .. l PROVE r[n] \in Values(stk)
    <3>1. n + 1 \in DOMAIN stk /\ stk[n + 1] = r[n]
      BY <1>3, <1>4, <1>5
    <3>. QED  BY <3>1 DEF Values
  <2>2. h \in Values(stk)
    BY <1>3, <1>4 DEF Values
  <2>3. ASSUME NEW n \in 1 .. l + 1, n # 1 PROVE stk[n] \in Values(r)
    BY <1>1, <1>3, <1>4, <2>3 DEF Values
  <2>. QED  BY <1>1, <1>3, <2>1, <2>2, <2>3 DEF Values
<1>8. stk # <<>> /\ (r = <<>> <=> Len(r) = 0)
  BY <1>1, <1>3
<1>. QED  BY <1>1, <1>2, <1>3, <1>4, <1>5, <1>6, <1>7, <1>8 DEF OnTop

(* h goes between the hands of t and the top of the stack.                  *)
LEMMA HandParts ==
  ASSUME NEW stk, Parted(View(stk)), AllDistinct(stk), NEW stk2, NEW t \in Threads,
         NEW h \in Headers, NEW r,
         \/ Values(stk) = {h} \union r /\ Values(stk2) = r /\ InHand(t) = <<>>
              /\ InHand(t)' = header[h].blocks
         \/ Values(stk) = r /\ Values(stk2) = {h} \union r /\ InHand(t)' = <<>>
              /\ InHand(t) = header[h].blocks,
         h \notin r, header' = header, tls' = tls, freeChunk' = freeChunk, inUse' = inUse,
         heap' = heap, \A u \in Threads \ {t} : InHand(u)' = InHand(u)
  PROVE  Parted(View(stk2))' /\ AllDistinct(stk2)'
<1> DEFINE D == {Hand(t), Top(h)}
<1>1. D \in SUBSET Keys
  BY KeysAre
<1>2. ASSUME NEW k \in Keys \ D PROVE Held(stk2, k)' = Held(stk, k)
  <2>1. CASE \E u \in Threads : k = Tls(u) \/ k = Hand(u)
    <3>1. PICK u \in Threads : k = Tls(u) \/ (k = Hand(u) /\ u # t)
      BY <2>1
    <3>2. CASE k = Tls(u)
      BY <3>2, HeldNext, HeldIs
    <3>3. CASE k = Hand(u) /\ u # t
      <4>1. InHand(u)' = InHand(u)
        BY <3>3
      <4>. QED  BY <3>3, <4>1, HeldNext, HeldIs
    <3>. QED  BY <3>1, <3>2, <3>3
  <2>2. CASE \E a \in Headers : k = Top(a)
    <3>1. PICK a \in Headers : k = Top(a) /\ a # h
      BY <2>2
    <3>2. a \in Values(stk2) <=> a \in Values(stk)
      BY <3>1
    <3>3. CASE a \in Values(stk)
      <4>1. Held(stk2, Top(a))' = Values(header'[a].blocks)
        BY <3>2, <3>3, HeldNext
      <4>2. Held(stk, Top(a)) = Values(header[a].blocks)
        BY <3>3, HeldIs
      <4>. QED  BY <3>1, <4>1, <4>2
    <3>4. CASE a \notin Values(stk)
      <4>1. Held(stk2, Top(a))' = {}
        BY <3>2, <3>4, HeldNext
      <4>2. Held(stk, Top(a)) = {}
        BY <3>4, HeldIs
      <4>. QED  BY <3>1, <4>1, <4>2
    <3>. QED  BY <3>3, <3>4
  <2>3. CASE k \in {FreeKey, UseKey, HeapKey}
    BY <2>3, HeldNext, HeldIs
  <2>. QED  BY <2>1, <2>2, <2>3, KeysAre
<1>3. PICK V : V = Values(header[h].blocks)
  OBVIOUS
<1>4. \/ /\ Held(stk, Hand(t)) = {} /\ Held(stk, Top(h)) = V
         /\ Held(stk2, Hand(t))' = V /\ Held(stk2, Top(h))' = {}
      \/ /\ Held(stk, Hand(t)) = V /\ Held(stk, Top(h)) = {}
         /\ Held(stk2, Hand(t))' = {} /\ Held(stk2, Top(h))' = V
  <2>1. CASE Values(stk) = {h} \union r /\ Values(stk2) = r /\ InHand(t) = <<>>
             /\ InHand(t)' = header[h].blocks
    <3>1. Held(stk, Hand(t)) = {} /\ Held(stk, Top(h)) = V
      BY <1>3, <2>1, HeldIs, Nothing
    <3>2. Held(stk2, Hand(t))' = V /\ Held(stk2, Top(h))' = {}
      BY <1>3, <2>1, HeldNext
    <3>. QED  BY <3>1, <3>2
  <2>2. CASE Values(stk) = r /\ Values(stk2) = {h} \union r /\ InHand(t)' = <<>>
             /\ InHand(t) = header[h].blocks
    <3>1. Held(stk, Hand(t)) = V /\ Held(stk, Top(h)) = {}
      BY <1>3, <2>2, HeldIs
    <3>2. Held(stk2, Hand(t))' = {} /\ Held(stk2, Top(h))' = V
      BY <1>3, <2>2, HeldNext, Nothing
    <3>. QED  BY <3>1, <3>2
  <2>. QED  BY <2>1, <2>2
<1>5. V \subseteq Blocks
  <2>1. Hand(t) # Top(h) /\ Hand(t) \in Keys /\ Top(h) \in Keys
    BY KeysAre, KeysDiffer
  <2>. QED  BY <1>4, <2>1, PartsApart
<1>6. Reparted(stk, stk2, D)
  <2>1. \A k \in D : Held(stk2, k)' \subseteq Blocks
    BY <1>4, <1>5
  <2>2. \A k, j \in D : k # j => Held(stk2, k)' \intersect Held(stk2, j)' = {}
    BY <1>4
  <2>3. \A b : (\E k \in D : b \in Held(stk, k)) <=> (\E k \in D : b \in Held(stk2, k)')
    BY <1>4
  <2>. QED  BY <1>2, <2>1, <2>2, <2>3 DEF Reparted
<1>7. Parted(View(stk2))'
  BY <1>1, <1>6, Repart
<1>8. AllDistinct(stk2)'
  <2>1. Distinct(header[h].blocks)
    BY DEF AllDistinct
  <2>2. \A u \in Threads : Distinct(tls'[u]) /\ Distinct(InHand(u)')
    BY <2>1, Nothing DEF AllDistinct
  <2>3. \A a \in Values(stk2) : Distinct(header'[a].blocks)
    BY <2>1 DEF AllDistinct
  <2>. QED  BY <2>2, <2>3 DEF AllDistinct, Distinct, Values
<1>. QED  BY <1>7, <1>8

(* A thread that gives up in Alloc or Free, and tries again.                *)
LEMMA RetryStep ==
  ASSUME Inv, NEW t \in Threads,
         \/ pc[t] = "pop" /\ Forget(t) /\ Goto(t, "alloc")
         \/ pc[t] = "push" /\ Goto(t, "link") /\ local' = local,
         UNCHANGED <<topChunk, header, live, heap, counts, ending, tls, inUse, then>>
  PROVE  Inv'
<1>1. /\ local[t] \in Locals /\ ThreadInv(t) /\ TopInv(t)
      /\ chunkUsed \in Int /\ chunkCapacity \in Int
      /\ then \in [Threads -> {"idle", "collect", "unlock"}]
      /\ pc \in [Threads -> Steps] /\ local \in [Threads -> Locals]
  BY DEF Inv, TypeInv
<1>2. /\ UNCHANGED <<stack, heap, freeChunk, tls, inUse>> /\ chunkUsed' = chunkUsed
      /\ chunkCapacity' = chunkCapacity /\ then' = then /\ live' = live /\ tls' = tls
      /\ header' = header /\ topChunk' = topChunk
  BY DEF stack, counts, ending
<1>3. CASE pc[t] = "pop" /\ Forget(t) /\ Goto(t, "alloc")
  <2>1. PICK l : l = Forgotten(local[t])
    OBVIOUS
  <2>2. Is(l, NULL, NULL, NULL, <<>>, local[t].diff, local[t].i)
    BY <1>1, <2>1, ForgottenIs
  <2>3. l \in Locals /\ local' = [local EXCEPT ![t] = l] /\ local'[t] = l
    BY <1>1, <1>3, <2>1, <2>2 DEF Is, Forget
  <2>4. pc' = [pc EXCEPT ![t] = "alloc"] /\ pc'[t] = "alloc"
    BY <1>1, <1>3 DEF Goto
  <2>5. InHand(t)' = InHand(t) /\ PendingOf(t)' = PendingOf(t) /\ local[t].chunk = NULL
    BY <1>1, <1>3, <2>4 DEF InHand, PendingOf, HandSteps, ThreadInv
  <2>6. ThreadInv(t)' /\ TopInv(t)'
    BY <1>1, <1>2, <1>3, <2>2, <2>3, <2>4
    DEF ThreadInv, TopInv, Is, TopSteps, HandSteps, AllocSteps, Collecting
  <2>. QED  BY <1>1, <1>2, <2>2, <2>3, <2>4, <2>5, <2>6, LocalStep DEF Is, Steps
<1>4. CASE pc[t] = "push" /\ Goto(t, "link") /\ local' = local
  <2>1. /\ pc' = [pc EXCEPT ![t] = "link"] /\ pc'[t] = "link"
        /\ local' = [local EXCEPT ![t] = local[t]]
    BY <1>1, <1>4 DEF Goto
  <2>2. InHand(t)' = InHand(t) /\ PendingOf(t)' = PendingOf(t)
    BY <1>1, <1>2, <1>4, <2>1 DEF InHand, PendingOf, HandSteps
  <2>3. ThreadInv(t)' /\ TopInv(t)'
    BY <1>1, <1>2, <1>4, <2>1, <2>2
    DEF ThreadInv, TopInv, TopSteps, HandSteps, AllocSteps, Collecting
  <2>. QED  BY <1>1, <1>2, <1>4, <2>1, <2>2, <2>3, LocalStep DEF Steps
<1>. QED  BY <1>3, <1>4

LEMMA StampedTyped ==
  ASSUME NEW old \in Tops, NEW x \in Headers \union {NULL}
  PROVE  Stamped(x, old) \in Tops /\ Stamped(x, old).at = x
<1>1. old.stamp \in Nat /\ STAMPS \in Nat \ {0}
  BY PoolAssumption DEF Tops
<1>2. (old.stamp + 1) % STAMPS \in 0 .. STAMPS - 1
  BY <1>1
<1>. QED  BY <1>2 DEF Stamped, Tops

(* What a step on the stack leaves to show, once the stack is known.        *)
LEMMA StackStep ==
  ASSUME TypeInv, TypeInv', NEW stk \in Seq(Headers), Good(stk),
         \A u \in Threads : ThreadInv(u) /\ TopInv(u),
         NEW t \in Threads, Framed(t, NULL), NotComeRound(topChunk'),
         ThreadInv(t)', TopInv(t)', NEW stk2 \in Seq(Headers), Stacked(stk2)', HandsApart(stk2)',
         NEW h \in Headers, NEW r,
         \/ Values(stk) = {h} \union r /\ Values(stk2) = r /\ InHand(t) = <<>>
              /\ InHand(t)' = header[h].blocks
         \/ Values(stk) = r /\ Values(stk2) = {h} \union r /\ InHand(t)' = <<>>
              /\ InHand(t) = header[h].blocks,
         h \notin r, header' = header, tls' = tls, freeChunk' = freeChunk, inUse' = inUse,
         heap' = heap, NEW e \in Int, Balanced(t, 0, e), Len(stk2) = Len(stk) + e
  PROVE  Inv'
<1>1. \A u \in Threads \ {t} :
        /\ ThreadInv(u)' /\ TopInv(u)' /\ InHand(u)' = InHand(u)
        /\ PendingOf(u)' = PendingOf(u) /\ local'[u].i = local[u].i
  BY OthersKept, NothingForeign DEF Good
<1>2. Parted(View(stk2))' /\ AllDistinct(stk2)'
  BY <1>1, HandParts DEF Good
<1>3. Counted(stk2)'
  <2>1. Len(stk) \in Nat
    OBVIOUS
  <2>. QED  BY <1>1, <2>1, CountsKept DEF Good
<1>4. Good(stk2)'
  BY <1>2, <1>3 DEF Good
<1>5. \A u \in Threads : ThreadInv(u)' /\ TopInv(u)'
  BY <1>1
<1>. QED  BY <1>4, <1>5 DEF Inv

LEMMA PopStep ==
  ASSUME Inv, NEW t \in Threads, pc[t] = "pop", IsTop(local[t].top),
         topChunk' = Stamped(local[t].next, local[t].top), NotComeRound(topChunk'),
         local' = [local EXCEPT ![t] =
                     [local[t] EXCEPT !.chunk = local[t].top.at,
                                      !.blocks = header[local[t].top.at].blocks]],
         Goto(t, "take"), UNCHANGED <<header, live, heap, counts, ending, tls, inUse, then>>
  PROVE  Inv'
<1>1. /\ local[t] \in Locals /\ ThreadInv(t) /\ TopInv(t) /\ topChunk \in Tops
      /\ chunkUsed \in Int /\ chunkCapacity \in Int /\ header \in [Headers -> Chunks]
      /\ pc \in [Threads -> Steps] /\ local \in [Threads -> Locals]
  BY DEF Inv, TypeInv
<1>2. /\ chunkUsed' = chunkUsed /\ chunkCapacity' = chunkCapacity /\ then' = then
      /\ live' = live /\ tls' = tls /\ header' = header /\ heap' = heap /\ inUse' = inUse
      /\ freeChunk' = freeChunk
  BY DEF counts, ending
<1>3. PICK h \in Headers : h = topChunk.at
  BY <1>1 DEF IsTop, ThreadInv
<1>4. /\ local[t].top = topChunk /\ local[t].top.at = h /\ local[t].next = header[h].next
      /\ local[t].chunk = NULL
  BY <1>1, <1>3 DEF IsTop, ThreadInv, TopInv, HandSteps
<1>5. PICK stk \in Seq(Headers) : Good(stk)
  BY DEF Inv
<1>6. stk # <<>> /\ stk[1] = h /\ Single(stk)
  BY <1>3, <1>5, StackedAre, PoolAssumption DEF Good, Stacked, Single
<1>7. PICK r \in Seq(Headers) : OnTop(stk, h, r)
  <2>1. OnTop(stk, h, Tail(stk))
    BY <1>6, TakenOff
  <2>2. Tail(stk) \in Seq(Headers)
    BY <2>1 DEF OnTop
  <2>. QED  BY <2>1, <2>2
<1>8. PICK q \in Seq(Blocks) : q = header[h].blocks
  BY <1>1, <1>3 DEF Chunks
<1>9. Len(q) = chunkSize /\ h \in live /\ header[h].next \in Headers \union {NULL}
  <2>1. 1 \in DOMAIN stk
    BY <1>7 DEF OnTop
  <2>. QED  BY <1>1, <1>5, <1>6, <1>8, <2>1 DEF Good, Stacked, Chunks
<1>10. PICK l : l = [local[t] EXCEPT !.chunk = h, !.blocks = q]
  OBVIOUS
<1>11. Is(l, topChunk, local[t].next, h, q, local[t].diff, local[t].i)
  BY <1>1, <1>4, <1>10, PoppedIs
<1>12. /\ l \in Locals /\ local' \in [Threads -> Locals] /\ local'[t] = l
       /\ \A u \in Threads \ {t} : local'[u] = local[u]
  <2>1. local' = [local EXCEPT ![t] = l]
    BY <1>4, <1>8, <1>10
  <2>. QED  BY <1>1, <1>11, <2>1 DEF Is
<1>13. /\ pc' \in [Threads -> Steps] /\ pc'[t] = "take"
       /\ \A u \in Threads \ {t} : pc'[u] = pc[u]
  BY <1>1 DEF Goto, Steps
<1>14. topChunk' \in Tops /\ topChunk'.at = header[h].next
  BY <1>1, <1>4, <1>9, StampedTyped
<1>15. TypeInv'
  BY <1>2, <1>12, <1>13, <1>14 DEF Inv, TypeInv
<1>16. Framed(t, NULL)
  BY <1>2, <1>12, <1>13 DEF Framed
<1>17. /\ InHand(t) = <<>> /\ InHand(t)' = q /\ PendingOf(t) = 0 /\ PendingOf(t)' = 1
  BY <1>11, <1>12, <1>13 DEF InHand, PendingOf, HandSteps, Is
<1>18. ThreadInv(t)' /\ TopInv(t)'
  BY <1>1, <1>2, <1>9, <1>11, <1>12, <1>13, <1>17
  DEF ThreadInv, TopInv, Is, TopSteps, HandSteps, AllocSteps, Collecting
<1>19. Stacked(r)'
  <2>1. topChunk'.at = IF r = <<>> THEN NULL ELSE r[1]
    <3>1. 1 \in DOMAIN stk /\ (r # <<>> => 1 \in DOMAIN r /\ 1 # Len(stk) /\ stk[1 + 1] = r[1])
          /\ (r = <<>> => 1 = Len(stk))
      BY <1>7 DEF OnTop
    <3>2. header[stk[1]].next = IF 1 = Len(stk) THEN NULL ELSE stk[1 + 1]
      BY <1>5, <3>1 DEF Good, Stacked
    <3>. QED  BY <1>6, <1>14, <3>1, <3>2
  <2>2. ASSUME NEW n \in DOMAIN r
        PROVE  /\ r[n] \in live'
               /\ header'[r[n]].next = IF n = Len(r) THEN NULL ELSE r[n + 1]
               /\ Len(header'[r[n]].blocks) = chunkSize
               /\ \A m \in DOMAIN r : r[m] = r[n] => m = n
    <3>1. /\ n \in Nat /\ n + 1 \in DOMAIN stk /\ stk[n + 1] = r[n]
          /\ (n + 1 = Len(stk) <=> n = Len(r))
          /\ n # Len(r) => stk[(n + 1) + 1] = r[n + 1]
      BY <1>7 DEF OnTop
    <3>2. /\ stk[n + 1] \in live /\ Len(header[stk[n + 1]].blocks) = chunkSize
          /\ header[stk[n + 1]].next = IF n + 1 = Len(stk) THEN NULL ELSE stk[(n + 1) + 1]
      BY <1>5, <3>1 DEF Good, Stacked
    <3>. QED  BY <1>2, <1>7, <3>1, <3>2 DEF OnTop, Single
  <2>. QED  BY <2>1, <2>2 DEF Stacked
<1>20. HandsApart(r)'
  <2>1. \A u \in Threads : local[u].chunk # NULL =>
          /\ local[u].chunk \notin Values(stk)
          /\ \A w \in Threads : local[w].chunk = local[u].chunk => w = u
    BY <1>5 DEF Good, HandsApart
  <2>2. Values(stk) = {h} \union Values(r) /\ h \notin Values(r)
    BY <1>7 DEF OnTop
  <2>3. local'[t].chunk = h
    BY <1>11, <1>12 DEF Is
  <2>4. ASSUME NEW u \in Threads, local'[u].chunk # NULL
        PROVE  /\ local'[u].chunk \notin Values(r)
               /\ \A w \in Threads : local'[w].chunk = local'[u].chunk => w = u
    BY <1>12, <2>1, <2>2, <2>3, <2>4
  <2>. QED  BY <2>4 DEF HandsApart, Values
<1>21. PICK e \in Int : Balanced(t, 0, e) /\ Len(r) = Len(stk) + e
  <2>1. PICK e \in Int : e = -1
    OBVIOUS
  <2>2. Len(r) = Len(stk) + e
    BY <1>7, <2>1 DEF OnTop
  <2>3. local'[t].i = local[t].i /\ local[t].i \in Nat
    BY <1>1, <1>11, <1>12, LocalIs DEF Is
  <2>4. PICK c \in Nat : c = Cardinality(Blocks \ heap)
    BY HeapCounted
  <2>5. c = c + 0 * chunkSize
    BY PoolAssumption
  <2>6. chunkCapacity' - local'[t].i = (chunkCapacity - local[t].i) + 0
    BY <1>1, <1>2, <2>3
  <2>7. (chunkCapacity' - chunkUsed') - PendingOf(t)'
          = ((chunkCapacity - chunkUsed) - PendingOf(t)) + e
    BY <1>1, <1>2, <1>17, <2>1
  <2>8. Balanced(t, 0, e)
    BY <1>2, <2>4, <2>5, <2>6, <2>7 DEF Balanced
  <2>. QED  BY <2>2, <2>8
<1>22. Values(stk) = {h} \union Values(r) /\ h \notin Values(r)
  BY <1>7 DEF OnTop
<1>. QED
  BY <1>2, <1>5, <1>8, <1>15, <1>16, <1>17, <1>18, <1>19, <1>20, <1>21, <1>22, StackStep DEF Inv

LEMMA AllocPopStep == ASSUME Inv, NEW t \in Threads, AllocPop(t) PROVE Inv'
<1>1. /\ pc[t] = "pop"
      /\ UNCHANGED <<header, live, heap, counts, ending, tls, inUse, then>>
  BY DEF AllocPop
<1>2. CASE IsTop(local[t].top)
  BY <1>1, <1>2, PopStep DEF AllocPop
<1>3. CASE ~IsTop(local[t].top)
  <2>1. Forget(t) /\ Goto(t, "alloc") /\ topChunk' = topChunk
    BY <1>3 DEF AllocPop
  <2>2. UNCHANGED <<topChunk, header, live, heap, counts, ending, tls, inUse, then>>
    BY <1>1, <2>1
  <2>. QED  BY <1>1, <2>1, <2>2, RetryStep
<1>. QED  BY <1>2, <1>3

LEMMA PushStep ==
  ASSUME Inv, NEW t \in Threads, pc[t] = "push", IsTop(local[t].top),
         topChunk' = Stamped(local[t].chunk, local[t].top), NotComeRound(topChunk'),
         Forget(t), Goto(t, then[t]),
         UNCHANGED <<header, live, heap, counts, ending, tls, inUse, then>>
  PROVE  Inv'
<1>1. /\ local[t] \in Locals /\ ThreadInv(t) /\ TopInv(t) /\ topChunk \in Tops
      /\ chunkUsed \in Int /\ chunkCapacity \in Int /\ header \in [Headers -> Chunks]
      /\ pc \in [Threads -> Steps] /\ local \in [Threads -> Locals]
      /\ then \in [Threads -> {"idle", "collect", "unlock"}]
  BY DEF Inv, TypeInv
<1>2. /\ chunkUsed' = chunkUsed /\ chunkCapacity' = chunkCapacity /\ then' = then
      /\ live' = live /\ tls' = tls /\ header' = header /\ heap' = heap /\ inUse' = inUse
      /\ freeChunk' = freeChunk
  BY DEF counts, ending
<1>3. PICK h \in Headers : h = local[t].chunk
  BY <1>1, LocalIs DEF ThreadInv
<1>4. /\ h \in live /\ header[h].next = topChunk.at /\ Len(header[h].blocks) = chunkSize
      /\ local[t].top = topChunk /\ h # NULL /\ then[t] # "collect" /\ local[t].i = 0
  BY <1>1, <1>3, PoolAssumption
  DEF IsTop, ThreadInv, HandSteps, InHand, Collecting, AllocSteps
<1>5. PICK r \in Seq(Headers) : Good(r)
  BY DEF Inv
<1>6. Single(r) /\ h \notin Values(r)
  BY <1>3, <1>4, <1>5 DEF Good, Stacked, Single, HandsApart
<1>7. PICK stk \in Seq(Headers) : OnTop(stk, h, r)
  <2>1. OnTop(<<h>> \o r, h, r)
    BY <1>6, PutOn
  <2>2. <<h>> \o r \in Seq(Headers)
    BY <2>1 DEF OnTop
  <2>. QED  BY <2>1, <2>2
<1>8. PICK l : l = Forgotten(local[t])
  OBVIOUS
<1>9. Is(l, NULL, NULL, NULL, <<>>, local[t].diff, 0)
  BY <1>1, <1>4, <1>8, ForgottenIs
<1>10. /\ l \in Locals /\ local' \in [Threads -> Locals] /\ local'[t] = l
       /\ \A u \in Threads \ {t} : local'[u] = local[u]
  BY <1>1, <1>8, <1>9 DEF Is, Forget
<1>11. PICK c \in {"idle", "unlock"} : c = then[t]
  BY <1>1, <1>4
<1>12. /\ pc' \in [Threads -> Steps] /\ pc'[t] = c
       /\ \A u \in Threads \ {t} : pc'[u] = pc[u]
  BY <1>1, <1>11 DEF Goto, Steps
<1>13. topChunk' \in Tops /\ topChunk'.at = h
  BY <1>1, <1>3, <1>4, StampedTyped
<1>14. TypeInv'
  BY <1>2, <1>10, <1>12, <1>13 DEF Inv, TypeInv
<1>15. Framed(t, NULL)
  BY <1>2, <1>10, <1>12 DEF Framed
<1>16. /\ InHand(t) = header[h].blocks /\ InHand(t)' = <<>>
       /\ PendingOf(t) = 1 /\ PendingOf(t)' = 0
  BY <1>3, <1>12 DEF InHand, PendingOf, HandSteps
<1>17. local[t].diff \in Nat
  BY <1>1, LocalIs
<1>18. ThreadInv(t)' /\ TopInv(t)'
  BY <1>1, <1>2, <1>9, <1>10, <1>11, <1>12, <1>17
  DEF ThreadInv, TopInv, Is, TopSteps, HandSteps, AllocSteps, Collecting
<1>19. Stacked(stk)'
  <2>1. topChunk'.at = IF stk = <<>> THEN NULL ELSE stk[1]
    BY <1>7, <1>13 DEF OnTop
  <2>2. header[h].next = IF 1 = Len(stk) THEN NULL ELSE stk[1 + 1]
    <3>1. topChunk.at = IF r = <<>> THEN NULL ELSE r[1]
      BY <1>5 DEF Good, Stacked
    <3>2. /\ r = <<>> => 1 = Len(stk)
          /\ r # <<>> => 1 # Len(stk) /\ stk[1 + 1] = r[1]
      BY <1>7 DEF OnTop
    <3>. QED  BY <1>4, <3>1, <3>2
  <2>3. ASSUME NEW n \in DOMAIN stk
        PROVE  /\ stk[n] \in live'
               /\ header'[stk[n]].next = IF n = Len(stk) THEN NULL ELSE stk[n + 1]
               /\ Len(header'[stk[n]].blocks) = chunkSize
               /\ \A m \in DOMAIN stk : stk[m] = stk[n] => m = n
    <3>1. CASE n = 1
      BY <1>2, <1>4, <1>7, <2>2, <3>1 DEF OnTop, Single
    <3>2. CASE n # 1
      <4>1. PICK k \in DOMAIN r : n = k + 1
        BY <1>7, <3>2 DEF OnTop
      <4>2. /\ stk[n] = r[k] /\ (n = Len(stk) <=> k = Len(r))
            /\ k # Len(r) => stk[n + 1] = r[k + 1]
        BY <1>7, <4>1 DEF OnTop
      <4>3. /\ r[k] \in live /\ Len(header[r[k]].blocks) = chunkSize
            /\ header[r[k]].next = IF k = Len(r) THEN NULL ELSE r[k + 1]
        BY <1>5 DEF Good, Stacked
      <4>. QED  BY <1>2, <1>7, <4>2, <4>3 DEF OnTop, Single
    <3>. QED  BY <3>1, <3>2
  <2>. QED  BY <2>1, <2>3 DEF Stacked
<1>20. HandsApart(stk)'
  <2>1. \A u \in Threads : local[u].chunk # NULL =>
          /\ local[u].chunk \notin Values(r)
          /\ \A w \in Threads : local[w].chunk = local[u].chunk => w = u
    BY <1>5 DEF Good, HandsApart
  <2>2. Values(stk) = {h} \union Values(r)
    BY <1>7 DEF OnTop
  <2>3. local'[t].chunk = NULL
    BY <1>9, <1>10 DEF Is
  <2>4. ASSUME NEW u \in Threads, local'[u].chunk # NULL
        PROVE  /\ local'[u].chunk \notin Values(stk)
               /\ \A w \in Threads : local'[w].chunk = local'[u].chunk => w = u
    BY <1>3, <1>10, <2>1, <2>2, <2>3, <2>4
  <2>. QED  BY <2>4 DEF HandsApart, Values
<1>21. Balanced(t, 0, 1) /\ Len(stk) = Len(r) + 1
  <2>1. Len(stk) = Len(r) + 1
    BY <1>7 DEF OnTop
  <2>2. local'[t].i = 0 /\ local[t].i = 0
    BY <1>4, <1>9, <1>10 DEF Is
  <2>3. PICK n \in Nat : n = Cardinality(Blocks \ heap)
    BY HeapCounted
  <2>4. n = n + 0 * chunkSize
    BY PoolAssumption
  <2>5. chunkCapacity' - local'[t].i = (chunkCapacity - local[t].i) + 0
    BY <1>1, <1>2, <2>2
  <2>6. (chunkCapacity' - chunkUsed') - PendingOf(t)'
          = ((chunkCapacity - chunkUsed) - PendingOf(t)) + 1
    BY <1>1, <1>2, <1>16
  <2>. QED  BY <1>2, <2>1, <2>3, <2>4, <2>5, <2>6 DEF Balanced
<1>22. Values(stk) = {h} \union Values(r) /\ h \notin Values(r)
  BY <1>7 DEF OnTop
<1>. QED
  BY <1>2, <1>5, <1>14, <1>15, <1>16, <1>18, <1>19, <1>20, <1>21, <1>22, StackStep DEF Inv

LEMMA FreePushStep == ASSUME Inv, NEW t \in Threads, FreePush(t) PROVE Inv'
<1>1. /\ pc[t] = "push"
      /\ UNCHANGED <<header, live, heap, counts, ending, tls, inUse, then>>
  BY DEF FreePush
<1>2. CASE IsTop(local[t].top)
  BY <1>1, <1>2, PushStep DEF FreePush
<1>3. CASE ~IsTop(local[t].top)
  <2>1. Goto(t, "link") /\ topChunk' = topChunk /\ local' = local
    BY <1>3 DEF FreePush
  <2>2. UNCHANGED <<topChunk, header, live, heap, counts, ending, tls, inUse, then>>
    BY <1>1, <2>1
  <2>. QED  BY <1>1, <2>1, <2>2, RetryStep
<1>. QED  BY <1>2, <1>3

-------------------------------------------------------------------------------
(***************************************************************************)
(* The first state.                                                        *)
(***************************************************************************)
(* Row n of the list of the first blocks is what chunk n holds.             *)
Row(list, n, z) == [k \in 1 .. z |-> list[<<n, k>>]]

LEMMA GridIs ==
  ASSUME NEW c \in Nat, NEW z \in Nat
  PROVE  IsFiniteSet((1 .. c) \X (1 .. z)) /\ Cardinality((1 .. c) \X (1 .. z)) = c * z
<1>1. PICK A : A = 1 .. c
  OBVIOUS
<1>2. PICK B : B = 1 .. z
  OBVIOUS
<1>3. IsFiniteSet(A) /\ Cardinality(A) = c /\ IsFiniteSet(B) /\ Cardinality(B) = z
  BY <1>1, <1>2, FS_Interval
<1>4. IsFiniteSet(A \X B) /\ Cardinality(A \X B) = Cardinality(A) * Cardinality(B)
  BY <1>3, FS_Product
<1>5. Cardinality(A) * Cardinality(B) = c * z
  BY <1>3
<1>. QED  BY <1>1, <1>2, <1>4, <1>5

LEMMA RowIs ==
  ASSUME NEW z \in Nat, NEW list, NEW n, \A k \in 1 .. z : list[<<n, k>>] \in Blocks
  PROVE  /\ Row(list, n, z) \in Seq(Blocks) /\ Len(Row(list, n, z)) = z
         /\ DOMAIN Row(list, n, z) = 1 .. z
         /\ \A k \in 1 .. z : Row(list, n, z)[k] = list[<<n, k>>]
<1>1. PICK r : r = [k \in 1 .. z |-> list[<<n, k>>]]
  OBVIOUS
<1>2. DOMAIN r = 1 .. z /\ \A k \in 1 .. z : r[k] = list[<<n, k>>]
  BY <1>1
<1>3. r \in [1 .. z -> Blocks]
  BY <1>1
<1>4. r \in Seq(Blocks) /\ Len(r) = z
  BY <1>3
<1>. QED  BY <1>1, <1>2, <1>4 DEF Row

LEMMA RowsAre ==
  ASSUME NEW c \in Nat, NEW z \in Nat, NEW list \in [(1 .. c) \X (1 .. z) -> Blocks],
         Distinct(list)
  PROVE  /\ \A n \in 1 .. c :
              /\ Row(list, n, z) \in Seq(Blocks) /\ Len(Row(list, n, z)) = z
              /\ Distinct(Row(list, n, z))
         /\ \A n, m \in 1 .. c :
              n # m => Values(Row(list, n, z)) \intersect Values(Row(list, m, z)) = {}
         /\ \A b : b \in Values(list) <=> \E n \in 1 .. c : b \in Values(Row(list, n, z))
<1>1. \A n \in 1 .. c, k \in 1 .. z : <<n, k>> \in DOMAIN list /\ list[<<n, k>>] \in Blocks
  OBVIOUS
<1>2. \A p \in DOMAIN list : \E n \in 1 .. c, k \in 1 .. z : p = <<n, k>>
  OBVIOUS
<1>3. \A n \in 1 .. c :
        /\ Row(list, n, z) \in Seq(Blocks) /\ Len(Row(list, n, z)) = z
        /\ DOMAIN Row(list, n, z) = 1 .. z
        /\ \A k \in 1 .. z : Row(list, n, z)[k] = list[<<n, k>>]
  BY <1>1, RowIs
<1>4. \A n \in 1 .. c : \A b :
        b \in Values(Row(list, n, z)) <=> \E k \in 1 .. z : b = list[<<n, k>>]
  BY <1>3 DEF Values
<1>5. \A n, m \in 1 .. c, j, k \in 1 .. z : list[<<n, j>>] = list[<<m, k>>] => n = m /\ j = k
  <2>1. ASSUME NEW n \in 1 .. c, NEW m \in 1 .. c, NEW j \in 1 .. z, NEW k \in 1 .. z,
               list[<<n, j>>] = list[<<m, k>>]
        PROVE  n = m /\ j = k
    <3>1. <<n, j>> = <<m, k>>
      BY <1>1, <2>1 DEF Distinct
    <3>. QED  BY <3>1
  <2>. QED  BY <2>1
<1>6. ASSUME NEW n \in 1 .. c PROVE Distinct(Row(list, n, z))
  <2>1. DOMAIN Row(list, n, z) = 1 .. z /\ \A k \in 1 .. z : Row(list, n, z)[k] = list[<<n, k>>]
    BY <1>3
  <2>2. ASSUME NEW j \in 1 .. z, NEW k \in 1 .. z, Row(list, n, z)[j] = Row(list, n, z)[k]
        PROVE  j = k
    <3>1. list[<<n, j>>] = list[<<n, k>>]
      BY <2>1, <2>2
    <3>. QED  BY <1>5, <3>1
  <2>. QED  BY <2>1, <2>2 DEF Distinct
<1>7. ASSUME NEW n \in 1 .. c, NEW m \in 1 .. c, n # m
      PROVE  Values(Row(list, n, z)) \intersect Values(Row(list, m, z)) = {}
  <2>1. ASSUME NEW b, b \in Values(Row(list, n, z)), b \in Values(Row(list, m, z)) PROVE FALSE
    <3>1. PICK j \in 1 .. z : b = list[<<n, j>>]
      BY <1>4, <2>1
    <3>2. PICK k \in 1 .. z : b = list[<<m, k>>]
      BY <1>4, <2>1
    <3>. QED  BY <1>5, <1>7, <3>1, <3>2
  <2>. QED  BY <2>1
<1>8. ASSUME NEW b PROVE b \in Values(list) <=> \E n \in 1 .. c : b \in Values(Row(list, n, z))
  <2>1. b \in Values(list) <=> \E n \in 1 .. c, k \in 1 .. z : b = list[<<n, k>>]
    BY <1>1, <1>2 DEF Values
  <2>. QED  BY <1>4, <2>1
<1>. QED  BY <1>3, <1>6, <1>7, <1>8

LEMMA FirstAre ==
  /\ FirstBlocks \in [(1 .. InitialChunks) \X (1 .. chunkSize) -> Blocks]
  /\ Distinct(FirstBlocks) /\ Values(FirstBlocks) \subseteq Blocks
  /\ Cardinality(Values(FirstBlocks)) = InitialChunks * chunkSize
<1>1. PICK Q : Q = (1 .. InitialChunks) \X (1 .. chunkSize)
  OBVIOUS
<1>2. InitialChunks \in Nat /\ chunkSize \in Nat
  BY PoolAssumption
<1>3. IsFiniteSet(Q) /\ Cardinality(Q) = InitialChunks * chunkSize
  BY <1>1, <1>2, GridIs
<1>4. IsFiniteSet(Blocks) /\ Cardinality(Q) <= Cardinality(Blocks)
  BY <1>3, PoolAssumption
<1>5. FirstBlocks = CreateNewData(Blocks, Q)
  BY <1>1 DEF FirstBlocks
<1>6. PICK list : list = FirstBlocks
  OBVIOUS
<1>7. /\ list \in [Q -> Blocks] /\ Distinct(list) /\ Values(list) \subseteq Blocks
      /\ Cardinality(Values(list)) = Cardinality(Q)
  BY <1>3, <1>4, <1>5, <1>6, DataAre
<1>. QED  BY <1>1, <1>3, <1>6, <1>7

LEMMA InitInv == Init => Inv
<1> SUFFICES ASSUME Init PROVE Inv
  OBVIOUS
<1>1. InitialChunks \in Nat /\ chunkSize \in Nat
  BY PoolAssumption
<1>2. PICK list : list = FirstBlocks
  OBVIOUS
<1>3. PICK place \in [1 .. InitialChunks -> Headers] :
        /\ \A m, n \in DOMAIN place : place[m] = place[n] => m = n
        /\ topChunk = [at |-> IF InitialChunks = 0 THEN NULL ELSE place[1], stamp |-> 0]
        /\ header = [h \in Headers |-> FirstHeader(h, place, list)]
        /\ live = Values(place) /\ heap = Blocks \ Values(list)
  BY <1>2 DEF Init
<1>4. /\ chunkCapacity = InitialChunks /\ chunkUsed = 0 /\ freeChunk = <<>>
      /\ tls = [t \in Threads |-> <<>>] /\ inUse = {}
      /\ pc = [t \in Threads |-> "idle"] /\ then = [t \in Threads |-> "idle"]
      /\ local = [t \in Threads |-> NoLocal]
  BY <1>1 DEF Init
<1>5. /\ \A n \in 1 .. InitialChunks :
           /\ Row(list, n, chunkSize) \in Seq(Blocks)
           /\ Len(Row(list, n, chunkSize)) = chunkSize /\ Distinct(Row(list, n, chunkSize))
      /\ \A n, m \in 1 .. InitialChunks :
           n # m => Values(Row(list, n, chunkSize)) \intersect Values(Row(list, m, chunkSize)) = {}
      /\ \A b : b \in Values(list)
           <=> \E n \in 1 .. InitialChunks : b \in Values(Row(list, n, chunkSize))
      /\ Values(list) \subseteq Blocks
      /\ Cardinality(Values(list)) = InitialChunks * chunkSize
  BY <1>1, <1>2, FirstAre, RowsAre
<1>6. /\ place \in Seq(Headers) /\ Len(place) = InitialChunks
      /\ DOMAIN place = 1 .. InitialChunks
      /\ (place = <<>> <=> InitialChunks = 0)
  BY <1>1, <1>3
<1>7. ASSUME NEW n \in 1 .. InitialChunks
      PROVE  /\ header[place[n]].blocks = Row(list, n, chunkSize)
             /\ header[place[n]].next = IF n = InitialChunks THEN NULL ELSE place[n + 1]
             /\ header[place[n]] \in Chunks
  <2>1. n \in DOMAIN place /\ place[n] \in Headers /\ place[n] \in Values(place)
    BY <1>3, <1>6 DEF Values
  <2>2. (CHOOSE m \in DOMAIN place : place[m] = place[n]) = n
    BY <1>3, <2>1
  <2>4. header[place[n]] = FirstChunk(n, place, list)
    BY <1>3, <2>1, <2>2 DEF FirstHeader
  <2>3. (IF n = InitialChunks THEN NULL ELSE place[n + 1]) \in Headers \union {NULL}
    <3>1. n # InitialChunks => n + 1 \in 1 .. InitialChunks
      BY <1>1
    <3>. QED  BY <1>3, <3>1
  <2>5. Row(list, n, chunkSize) \in Seq(Blocks)
    BY <1>5
  <2>. QED  BY <2>3, <2>4, <2>5 DEF FirstChunk, Row, Chunks
<1>8. header \in [Headers -> Chunks]
  <2>1. ASSUME NEW h \in Headers PROVE header[h] \in Chunks
    <3>1. CASE h \in Values(place)
      BY <1>6, <1>7, <3>1 DEF Values
    <3>2. CASE h \notin Values(place)
      <4>1. header[h] = NoChunk
        BY <1>3, <3>2 DEF FirstHeader
      <4>. QED  BY <4>1, Nothing DEF NoChunk, Chunks
    <3>. QED  BY <3>1, <3>2
  <2>2. header = [h \in Headers |-> header[h]]
    BY <1>3
  <2>. QED  BY <2>1, <2>2
<1>9. Is(NoLocal, NULL, NULL, NULL, <<>>, 0, 0)
  BY NoLocalIs
<1>10. topChunk \in Tops /\ topChunk.at = IF place = <<>> THEN NULL ELSE place[1]
  <2>1. STAMPS \in Nat \ {0} /\ 0 \in 0 .. STAMPS - 1
    BY PoolAssumption
  <2>2. InitialChunks # 0 => place[1] \in Headers
    <3>1. InitialChunks # 0 => 1 \in 1 .. InitialChunks
      BY <1>1
    <3>. QED  BY <1>3, <3>1
  <2>. QED  BY <1>3, <1>6, <2>1, <2>2 DEF Tops
<1>11. TypeInv
  <2>1. live \subseteq Headers /\ heap \subseteq Blocks
    BY <1>3 DEF Values
  <2>2. local \in [Threads -> Locals]
    BY <1>4, <1>9 DEF Is
  <2>3. freeChunk \in Seq(Blocks) /\ tls \in [Threads -> Seq(Blocks)] /\ inUse \subseteq Blocks
    <3>1. <<>> \in Seq(Blocks)
      OBVIOUS
    <3>. QED  BY <1>4, <3>1
  <2>4. pc \in [Threads -> Steps] /\ then \in [Threads -> {"idle", "collect", "unlock"}]
    BY <1>4 DEF Steps
  <2>5. chunkCapacity \in Int /\ chunkUsed \in Int
    BY <1>1, <1>4
  <2>. QED  BY <1>8, <1>10, <2>1, <2>2, <2>3, <2>4, <2>5 DEF TypeInv
<1>12. \A t \in Threads :
         /\ pc[t] = "idle" /\ tls[t] = <<>> /\ InHand(t) = <<>>
         /\ local[t].chunk = NULL /\ local[t].i = 0 /\ local[t].diff = 0 /\ PendingOf(t) = 0
  BY <1>4, <1>9 DEF Is, InHand, PendingOf, HandSteps
<1>13. \A t \in Threads : ThreadInv(t) /\ TopInv(t)
  BY <1>12 DEF ThreadInv, TopInv, TopSteps, HandSteps, AllocSteps, Collecting
<1>14. Stacked(place)
  <2>1. ASSUME NEW n \in DOMAIN place
        PROVE  /\ place[n] \in live
               /\ header[place[n]].next = IF n = Len(place) THEN NULL ELSE place[n + 1]
               /\ Len(header[place[n]].blocks) = chunkSize
               /\ \A m \in DOMAIN place : place[m] = place[n] => m = n
    <3>1. n \in 1 .. InitialChunks
      BY <1>6
    <3>2. header[place[n]].blocks = Row(list, n, chunkSize)
      BY <1>7, <3>1
    <3>3. Len(header[place[n]].blocks) = chunkSize
      BY <1>5, <3>1, <3>2
    <3>4. header[place[n]].next = IF n = Len(place) THEN NULL ELSE place[n + 1]
      BY <1>6, <1>7, <3>1
    <3>5. place[n] \in live
      BY <1>3 DEF Values
    <3>6. \A m \in DOMAIN place : place[m] = place[n] => m = n
      BY <1>3
    <3>. QED  BY <3>3, <3>4, <3>5, <3>6
  <2>. QED  BY <1>10, <2>1 DEF Stacked
<1>15. HandsApart(place)
  BY <1>12 DEF HandsApart
<1>16. AllDistinct(place)
  <2>1. \A h \in Values(place) : Distinct(header[h].blocks)
    BY <1>5, <1>6, <1>7 DEF Values
  <2>. QED  BY <1>4, <1>12, <2>1, Nothing DEF AllDistinct
<1>17. Counted(place)
  <2>1. /\ Freed \in [Threads -> Nat] /\ Pending \in [Threads -> Nat]
        /\ \A t \in Threads : Freed[t] = 0 /\ Pending[t] = 0
    BY <1>11, <1>12, SumsTyped
  <2>2. Sum(Freed) = 0 /\ Sum(Pending) = 0
    BY <2>1, SumZero
  <2>3. Blocks \ heap = Values(list)
    BY <1>3, <1>5
  <2>4. (chunkCapacity - Sum(Freed)) * chunkSize = InitialChunks * chunkSize
    <3>1. chunkCapacity - Sum(Freed) = InitialChunks
      BY <1>1, <1>4, <2>2
    <3>. QED  BY <3>1
  <2>5. chunkCapacity - chunkUsed = Len(place) + Sum(Pending)
    BY <1>1, <1>4, <1>6, <2>2
  <2>. QED  BY <1>5, <2>3, <2>4, <2>5 DEF Counted
<1>18. Parted(View(place))
  <2>1. PICK F : F = View(place)
    OBVIOUS
  <2>2. \A k \in Keys : F[k] = Held(place, k)
    BY <2>1 DEF View
  <2>3. /\ \A t \in Threads : F[Tls(t)] = {} /\ F[Hand(t)] = {}
        /\ F[FreeKey] = {} /\ F[UseKey] = {} /\ F[HeapKey] = Blocks \ Values(list)
    BY <1>3, <1>4, <1>12, <2>2, KeysAre, HeldIs, Nothing
  <2>4. \A n \in 1 .. InitialChunks :
          Top(place[n]) \in Keys /\ F[Top(place[n])] = Values(Row(list, n, chunkSize))
    <3>1. ASSUME NEW n \in 1 .. InitialChunks
          PROVE  Top(place[n]) \in Keys /\ F[Top(place[n])] = Values(Row(list, n, chunkSize))
      <4>1. place[n] \in Headers /\ place[n] \in Values(place)
        BY <1>3, <1>6 DEF Values
      <4>2. Held(place, Top(place[n])) = Values(header[place[n]].blocks)
        BY <4>1, HeldIs
      <4>. QED  BY <1>7, <2>2, <4>1, <4>2, KeysAre
    <3>. QED  BY <3>1
  <2>5. \A h \in Headers : h \notin Values(place) => F[Top(h)] = {}
    <3>1. ASSUME NEW h \in Headers, h \notin Values(place) PROVE F[Top(h)] = {}
      <4>1. Held(place, Top(h)) = {}
        BY <3>1, HeldIs
      <4>. QED  BY <2>2, <4>1, KeysAre
    <3>. QED  BY <3>1
  <2>6. ASSUME NEW k \in Keys
        PROVE  F[k] = {} \/ k = HeapKey \/ \E n \in 1 .. InitialChunks : k = Top(place[n])
    <3>1. CASE \E h \in Headers : k = Top(h)
      BY <1>6, <2>5, <3>1 DEF Values
    <3>2. CASE ~ \E h \in Headers : k = Top(h)
      BY <2>3, <3>2, KeysAre
    <3>. QED  BY <3>1, <3>2
  <2>7. F \in [Keys -> SUBSET Blocks]
    <3>1. \A n \in 1 .. InitialChunks : Values(Row(list, n, chunkSize)) \subseteq Blocks
      BY <1>5, ListValues
    <3>2. ASSUME NEW k \in Keys PROVE F[k] \subseteq Blocks
      BY <2>3, <2>4, <2>6, <3>1
    <3>. QED  BY <2>1, <3>2 DEF View
  <2>8. ASSUME NEW b \in Blocks
        PROVE  \E k \in Keys : b \in F[k] /\ \A j \in Keys : b \in F[j] => j = k
    <3>1. CASE b \in Values(list)
      <4>1. PICK n \in 1 .. InitialChunks : b \in Values(Row(list, n, chunkSize))
        BY <1>5, <3>1
      <4>2. ASSUME NEW j \in Keys, b \in F[j] PROVE j = Top(place[n])
        <5>1. PICK m \in 1 .. InitialChunks : j = Top(place[m])
          BY <2>3, <2>6, <3>1, <4>2
        <5>2. b \in Values(Row(list, m, chunkSize))
          BY <2>4, <4>2, <5>1
        <5>. QED  BY <1>5, <4>1, <5>1, <5>2
      <4>. QED  BY <2>4, <4>1, <4>2
    <3>2. CASE b \notin Values(list)
      <4>1. ASSUME NEW j \in Keys, b \in F[j] PROVE j = HeapKey
        BY <1>5, <2>4, <2>6, <3>2, <4>1
      <4>. QED  BY <2>3, <3>2, <4>1, KeysAre
    <3>. QED  BY <3>1, <3>2
  <2>9. Parted(F)
    BY <2>7, <2>8 DEF Parted
  <2>. QED  BY <2>1, <2>9
<1>19. Good(place)
  BY <1>14, <1>15, <1>16, <1>17, <1>18 DEF Good
<1>. QED  BY <1>6, <1>11, <1>13, <1>19 DEF Inv

-------------------------------------------------------------------------------
(***************************************************************************)
(* The invariant holds.                                                    *)
(***************************************************************************)
LEMMA StutterStep == ASSUME Inv, UNCHANGED vars PROVE Inv'
<1>1. /\ topChunk' = topChunk /\ header' = header /\ live' = live /\ heap' = heap
      /\ chunkCapacity' = chunkCapacity /\ chunkUsed' = chunkUsed
      /\ freeChunk' = freeChunk /\ tls' = tls /\ inUse' = inUse
      /\ pc' = pc /\ then' = then /\ local' = local
  BY DEF vars, stack, counts, ending
<1>2. TypeInv'
  BY <1>1 DEF Inv, TypeInv
<1>3. \A t \in Threads : (ThreadInv(t) /\ TopInv(t))'
  BY <1>1 DEF Inv, ThreadInv, TopInv, InHand, Collecting
<1>4. PICK stk \in Seq(Headers) : Good(stk)
  BY DEF Inv
<1>5. Stacked(stk)' /\ HandsApart(stk)'
  BY <1>1, <1>4 DEF Good, Stacked, HandsApart
<1>6. \A t : InHand(t)' = InHand(t)
  BY <1>1 DEF InHand
<1>7. Parted(View(stk))'
  <2>1. \A k : Held(stk, k)' = Held(stk, k)
    BY <1>1, <1>6 DEF Held
  <2>2. View(stk)' = View(stk)
    BY <2>1 DEF View
  <2>. QED  BY <1>4, <2>2 DEF Good, Parted
<1>8. AllDistinct(stk)'
  BY <1>1, <1>4, <1>6 DEF Good, AllDistinct
<1>9. Counted(stk)'
  <2>1. Freed' = Freed /\ Pending' = Pending
    BY <1>1 DEF Freed, Pending, PendingOf
  <2>. QED  BY <1>1, <1>4, <2>1 DEF Good, Counted, Sum, Units
<1>. QED  BY <1>2, <1>3, <1>5, <1>7, <1>8, <1>9 DEF Inv, Good

LEMMA NextInv == Inv /\ [Next]_vars => Inv'
<1> SUFFICES ASSUME Inv, [Next]_vars PROVE Inv'
  OBVIOUS
<1>1. CASE UNCHANGED vars
  BY <1>1, StutterStep
<1>2. CASE Next
  <2>1. PICK t \in Threads :
          \/ AllocTop(t) \/ AllocNext(t) \/ AllocPop(t) \/ AllocTake(t)
          \/ FreeLink(t) \/ FreePush(t)
          \/ TlsAlloc(t) \/ RemoveRemainders(t) \/ FreeFromTLSDestruction(t) \/ Unlock(t)
          \/ \E block \in Blocks : TlsFree(t, block)
          \/ Collect(t) \/ CollectNext(t) \/ Collected(t)
    BY <1>2 DEF Next
  <2>2. CASE AllocTop(t)
    BY <2>2, AllocTopStep
  <2>3. CASE AllocNext(t)
    BY <2>3, AllocNextStep
  <2>4. CASE AllocPop(t)
    BY <2>4, AllocPopStep
  <2>5. CASE AllocTake(t)
    BY <2>5, AllocTakeStep
  <2>6. CASE FreeLink(t)
    BY <2>6, FreeLinkStep
  <2>7. CASE FreePush(t)
    BY <2>7, FreePushStep
  <2>8. CASE TlsAlloc(t)
    BY <2>8, TlsAllocStep
  <2>9. CASE RemoveRemainders(t)
    BY <2>9, RemoveRemaindersStep
  <2>10. CASE FreeFromTLSDestruction(t)
    BY <2>10, DestructionStep
  <2>11. CASE Unlock(t)
    BY <2>11, UnlockStep
  <2>12. CASE \E block \in Blocks : TlsFree(t, block)
    BY <2>12, TlsFreeStep
  <2>13. CASE Collect(t)
    BY <2>13, CollectStep
  <2>14. CASE CollectNext(t)
    BY <2>14, CollectNextStep
  <2>15. CASE Collected(t)
    BY <2>15, CollectedStep
  <2>. QED
    BY <2>1, <2>2, <2>3, <2>4, <2>5, <2>6, <2>7, <2>8, <2>9, <2>10, <2>11, <2>12, <2>13,
       <2>14, <2>15
<1>. QED  BY <1>1, <1>2

LEMMA Invariant == Spec => []Inv
<1>1. Init => Inv
  BY InitInv
<1>2. Inv /\ [Next]_vars => Inv'
  BY NextInv
<1>. QED  BY <1>1, <1>2, PTL DEF Spec

-------------------------------------------------------------------------------
(***************************************************************************)
(* What the properties say of OnStack and of lists, from the invariant.    *)
(***************************************************************************)
LEMMA LeastNat ==
  ASSUME NEW S \in SUBSET Nat, S # {}
  PROVE  \E n \in S : \A m \in S : n <= m
<1>1. PICK n \in S : \A m \in S : ~ (<<m, n>> \in OpToRel(<, Nat))
  BY NatLessThanWellFounded, WFMin
<1>2. ASSUME NEW m \in S PROVE n <= m
  <2>1. m \in Nat /\ n \in Nat
    OBVIOUS
  <2>2. ~ (m < n)
    BY <1>1, <2>1 DEF OpToRel
  <2>. QED  BY <2>1, <2>2
<1>. QED  BY <1>2

(* What follows the links from the top: the headers of stk and no other.    *)
LEMMA OnStackIs ==
  ASSUME NEW stk \in Seq(Headers), Stacked(stk)
  PROVE  OnStack = Values(stk)
<1> DEFINE Closed(S) == /\ topChunk.at \in S \union {NULL}
                        /\ \A x \in S : header[x].next \in S \union {NULL}
<1>1. PICK n \in Nat : n = Len(stk)
  OBVIOUS
<1>2. /\ DOMAIN stk = 1 .. n /\ Values(stk) \subseteq Headers
      /\ \A k \in 1 .. n : stk[k] \in Headers /\ stk[k] # NULL
  BY <1>1, PoolAssumption DEF Values
<1>3. /\ n # 0 => topChunk.at = stk[1]
      /\ n = 0 => topChunk.at = NULL
      /\ \A k \in 1 .. n : header[stk[k]].next = IF k = n THEN NULL ELSE stk[k + 1]
  BY <1>1, <1>2 DEF Stacked
<1>4. Closed(Values(stk))
  <2>1. topChunk.at \in Values(stk) \union {NULL}
    <3>1. n # 0 => 1 \in 1 .. n
      OBVIOUS
    <3>. QED  BY <1>2, <1>3, <3>1 DEF Values
  <2>2. ASSUME NEW k \in 1 .. n PROVE header[stk[k]].next \in Values(stk) \union {NULL}
    <3>1. k # n => k + 1 \in 1 .. n
      OBVIOUS
    <3>. QED  BY <1>2, <1>3, <3>1 DEF Values
  <2>. QED  BY <1>2, <2>1, <2>2 DEF Values
<1>5. ASSUME NEW S \in SUBSET Headers, Closed(S), NEW j \in 1 .. n PROVE stk[j] \in S
  <2> DEFINE Out == {k \in 1 .. n : stk[k] \notin S}
  <2>1. SUFFICES ASSUME j \in Out PROVE FALSE
    OBVIOUS
  <2>2. PICK k \in Out : \A m \in Out : k <= m
    <3>1. Out \in SUBSET Nat /\ Out # {}
      BY <2>1
    <3> HIDE DEF Out
    <3>. QED  BY <3>1, LeastNat
  <2>3. CASE k = 1
    BY <1>2, <1>3, <1>5, <2>2, <2>3
  <2>4. CASE k # 1
    <3>1. k - 1 \in 1 .. n /\ k - 1 # n /\ (k - 1) + 1 = k /\ ~(k <= k - 1)
      BY <2>2, <2>4
    <3>2. stk[k - 1] \in S
      BY <2>2, <3>1
    <3>3. header[stk[k - 1]].next = stk[k]
      BY <1>3, <3>1
    <3>. QED  BY <1>2, <1>5, <2>2, <3>2, <3>3
  <2>. QED  BY <2>3, <2>4
<1>6. OnStack = {h \in Headers : \A S \in SUBSET Headers : Closed(S) => h \in S}
  BY DEF OnStack
<1>7. Values(stk) \subseteq OnStack
  BY <1>2, <1>5, <1>6 DEF Values
<1>8. OnStack \subseteq Values(stk)
  BY <1>2, <1>4, <1>6
<1>. QED  BY <1>7, <1>8

LEMMA StackIs ==
  ASSUME NEW stk \in Seq(Headers), Stacked(stk)
  PROVE  Cardinality(OnStack) = Len(stk)
<1>1. PICK n \in Nat : n = Len(stk) /\ DOMAIN stk = 1 .. n
  OBVIOUS
<1>2. stk \in Bijection(1 .. n, Values(stk))
  <2>1. stk \in [1 .. n -> Values(stk)]
    BY <1>1 DEF Values
  <2>2. \A j, k \in 1 .. n : stk[j] = stk[k] => j = k
    BY <1>1 DEF Stacked
  <2>3. \A h \in Values(stk) : \E k \in 1 .. n : stk[k] = h
    BY <1>1 DEF Values
  <2>. QED  BY <2>1, <2>2, <2>3 DEF Bijection, Injection, Surjection, IsInjective
<1>3. IsFiniteSet(1 .. n) /\ Cardinality(1 .. n) = n
  BY FS_Interval
<1>4. ExistsBijection(1 .. n, Values(stk))
  BY <1>2 DEF ExistsBijection
<1>. QED  BY <1>1, <1>3, <1>4, FS_Bijection, OnStackIs

(* The lists are the places that hold blocks, but for inUse and heap.       *)
LEMMA ListsAre ==
  ASSUME TypeInv, NEW stk \in Seq(Headers), Stacked(stk), AllDistinct(stk),
         \A t \in Threads : ThreadInv(t)
  PROVE  /\ \A l \in Lists : l \in Keys /\ l \notin {UseKey, HeapKey}
         /\ \A l \in Lists : Held(stk, l) = Values(ListOf(l))
         /\ \A l \in Lists : ListOf(l) \in Seq(Blocks) /\ Distinct(ListOf(l))
         /\ \A k \in Keys : k \in Lists \/ k \in {UseKey, HeapKey} \/ Held(stk, k) = {}
<1>1. OnStack = Values(stk) /\ Values(stk) \subseteq Headers
  BY OnStackIs DEF Values
<1>2. /\ \A t \in Threads : Tls(t) \in Lists /\ Hand(t) \in Lists
      /\ \A h \in Values(stk) : Top(h) \in Lists
      /\ FreeKey \in Lists
      /\ \A l \in Lists : \/ \E t \in Threads : l = Tls(t) \/ l = Hand(t)
                          \/ \E h \in Values(stk) : l = Top(h)
                          \/ l = FreeKey
  BY <1>1 DEF Lists, Tls, Hand, Top, FreeKey
<1>3. /\ \A t : ListOf(Tls(t)) = tls[t] /\ ListOf(Hand(t)) = InHand(t)
      /\ \A h : ListOf(Top(h)) = header[h].blocks
      /\ ListOf(FreeKey) = freeChunk
  BY DEF ListOf, Tls, Hand, Top, FreeKey
<1>4. /\ \A t \in Threads : tls[t] \in Seq(Blocks) /\ InHand(t) \in Seq(Blocks)
      /\ \A h \in Values(stk) : header[h].blocks \in Seq(Blocks)
      /\ freeChunk \in Seq(Blocks)
  <2>1. \A t \in Threads : InHand(t) \in Seq(Blocks)
    BY HandTyped
  <2>. QED  BY <1>1, <2>1 DEF TypeInv, Chunks
<1>5. \A l \in Lists : l \in Keys /\ l \notin {UseKey, HeapKey}
  BY <1>1, <1>2, KeysAre, KeysDiffer
<1>6. \A l \in Lists : Held(stk, l) = Values(ListOf(l))
  BY <1>2, <1>3, HeldIs
<1>7. \A l \in Lists : ListOf(l) \in Seq(Blocks) /\ Distinct(ListOf(l))
  BY <1>2, <1>3, <1>4 DEF AllDistinct
<1>8. ASSUME NEW k \in Keys
      PROVE  k \in Lists \/ k \in {UseKey, HeapKey} \/ Held(stk, k) = {}
  <2>1. \A h \in Headers : Top(h) \in Lists \/ Held(stk, Top(h)) = {}
    BY <1>2, HeldIs
  <2>. QED  BY <1>2, <2>1, KeysAre
<1>. QED  BY <1>5, <1>6, <1>7, <1>8

-------------------------------------------------------------------------------
LEMMA InvOnePlace == Inv => BlockHasOnePlace
<1> SUFFICES ASSUME Inv PROVE BlockHasOnePlace
  OBVIOUS
<1>1. PICK stk \in Seq(Headers) : Good(stk)
  BY DEF Inv
<1>2. /\ TypeInv /\ Stacked(stk) /\ AllDistinct(stk) /\ Parted(View(stk))
      /\ \A t \in Threads : ThreadInv(t)
  BY <1>1 DEF Inv, Good
<1>3. /\ \A l \in Lists : l \in Keys /\ l # UseKey /\ l # HeapKey
      /\ \A l \in Lists : Held(stk, l) = Values(ListOf(l))
      /\ \A l \in Lists : ListOf(l) \in Seq(Blocks) /\ Distinct(ListOf(l))
      /\ \A k \in Keys : k \in Lists \/ k = UseKey \/ k = HeapKey \/ Held(stk, k) = {}
  BY <1>2, ListsAre
<1>4. /\ Held(stk, UseKey) = inUse /\ Held(stk, HeapKey) = heap
      /\ UseKey \in Keys /\ HeapKey \in Keys /\ UseKey # HeapKey
  BY HeldIs, KeysAre, KeysDiffer
<1>5. \A l \in Lists : Len(ListOf(l)) = Cardinality(Values(ListOf(l)))
  BY <1>3, DistinctLength
<1>6. \A j, k \in Keys : j # k => Held(stk, j) \intersect Held(stk, k) = {}
  BY <1>2, PartsApart
<1>7. \A l, k \in Lists : l # k => Values(ListOf(l)) \intersect Values(ListOf(k)) = {}
  BY <1>3, <1>6
<1>8. ASSUME NEW l \in Lists PROVE Values(ListOf(l)) \intersect (inUse \union heap) = {}
  <2>1. Held(stk, l) \intersect inUse = {} /\ Held(stk, l) \intersect heap = {}
    BY <1>3, <1>4, <1>6
  <2>2. Values(ListOf(l)) = Held(stk, l)
    BY <1>3
  <2>. QED  BY <2>1, <2>2
<1>9. inUse \intersect heap = {}
  BY <1>4, <1>6
<1>10. (UNION {Values(ListOf(l)) : l \in Lists}) \union inUse \union heap = Blocks
  <2>1. ASSUME NEW b \in Blocks
        PROVE  b \in inUse \/ b \in heap \/ \E l \in Lists : b \in Values(ListOf(l))
    <3>1. PICK k \in Keys : b \in View(stk)[k]
      BY <1>2 DEF Parted
    <3>2. b \in Held(stk, k)
      BY <3>1 DEF View
    <3>. QED  BY <1>3, <1>4, <3>2
  <2>2. inUse \subseteq Blocks /\ heap \subseteq Blocks
    BY <1>2 DEF TypeInv
  <2>3. \A l \in Lists : Values(ListOf(l)) \subseteq Blocks
    BY <1>3, ListValues
  <2>. QED  BY <2>1, <2>2, <2>3
<1>. QED  BY <1>5, <1>7, <1>8, <1>9, <1>10 DEF BlockHasOnePlace

LEMMA InvStack == Inv => StackIsSound
<1> SUFFICES ASSUME Inv PROVE StackIsSound
  OBVIOUS
<1>1. PICK stk \in Seq(Headers) : Good(stk)
  BY DEF Inv
<1>2. Stacked(stk) /\ HandsApart(stk)
  BY <1>1 DEF Good
<1>3. OnStack = Values(stk)
  BY <1>2, OnStackIs
<1>4. PICK n \in Nat : n = Len(stk) /\ DOMAIN stk = 1 .. n /\ (stk = <<>> <=> n = 0)
  OBVIOUS
<1>5. \A k \in 1 .. n :
        /\ stk[k] \in live /\ stk[k] # NULL
        /\ header[stk[k]].next = IF k = n THEN NULL ELSE stk[k + 1]
        /\ Len(header[stk[k]].blocks) = chunkSize
        /\ \A m \in 1 .. n : stk[m] = stk[k] => m = k
  BY <1>2, <1>4, PoolAssumption DEF Stacked
<1>6. OnStack \subseteq live /\ \A h \in OnStack : Len(header[h].blocks) = chunkSize
  BY <1>3, <1>4, <1>5 DEF Values
<1>7. ASSUME NEW j \in 1 .. n, NEW k \in 1 .. n, header[stk[j]].next = header[stk[k]].next
      PROVE  stk[j] = stk[k]
  <2>1. /\ j # n => j + 1 \in 1 .. n
        /\ k # n => k + 1 \in 1 .. n
    OBVIOUS
  <2>2. CASE j = n /\ k = n
    BY <2>2
  <2>3. CASE j # n /\ k = n
    BY <1>5, <1>7, <2>1, <2>3
  <2>4. CASE j = n /\ k # n
    BY <1>5, <1>7, <2>1, <2>4
  <2>5. CASE j # n /\ k # n
    <3>1. stk[j + 1] = stk[k + 1]
      BY <1>5, <1>7, <2>5
    <3>2. j + 1 = k + 1
      BY <1>5, <2>1, <2>5, <3>1
    <3>. QED  BY <3>2
  <2>. QED  BY <2>2, <2>3, <2>4, <2>5
<1>8. ASSUME NEW k \in 1 .. n PROVE header[stk[k]].next # topChunk.at
  <2>1. topChunk.at = stk[1] /\ 1 \in 1 .. n /\ stk[1] # NULL
    BY <1>2, <1>4, <1>5, <1>8 DEF Stacked
  <2>2. CASE k = n
    BY <1>5, <2>1, <2>2
  <2>3. CASE k # n
    <3>1. k + 1 \in 1 .. n /\ k + 1 # 1
      BY <2>3
    <3>2. stk[k + 1] # stk[1]
      BY <1>5, <2>1, <3>1
    <3>. QED  BY <1>5, <2>1, <2>3, <3>2
  <2>. QED  BY <2>2, <2>3
<1>9. \A h, k \in OnStack : header[h].next = header[k].next => h = k
  BY <1>3, <1>4, <1>7 DEF Values
<1>10. \A h \in OnStack : header[h].next # topChunk.at
  BY <1>3, <1>4, <1>8 DEF Values
<1>11. ASSUME NEW t \in Threads PROVE local[t].chunk \notin OnStack
  <2>1. NULL \notin OnStack
    BY PoolAssumption DEF OnStack
  <2>. QED  BY <1>2, <1>3, <2>1 DEF HandsApart
<1>. QED  BY <1>6, <1>9, <1>10, <1>11 DEF StackIsSound

LEMMA InvCounters == Inv => CountersAgree
<1> SUFFICES ASSUME Inv, \A t \in Threads : pc[t] = "idle"
             PROVE  /\ chunkCapacity * chunkSize = Cardinality(Blocks \ heap)
                    /\ chunkCapacity - chunkUsed = Cardinality(OnStack)
  BY DEF CountersAgree
<1>1. PICK stk \in Seq(Headers) : Good(stk)
  BY DEF Inv
<1>2. /\ TypeInv /\ Stacked(stk) /\ Counted(stk) /\ \A t \in Threads : ThreadInv(t)
  BY <1>1 DEF Inv, Good
<1>3. \A t \in Threads : Freed[t] = 0 /\ Pending[t] = 0
  BY <1>2 DEF ThreadInv, Collecting, AllocSteps, Freed, Pending, PendingOf, HandSteps
<1>4. Freed \in [Threads -> Nat] /\ Pending \in [Threads -> Nat]
  BY <1>2, SumsTyped
<1>5. Sum(Freed) = 0 /\ Sum(Pending) = 0
  BY <1>3, <1>4, SumZero
<1>6. chunkCapacity \in Int /\ chunkUsed \in Int /\ Len(stk) \in Nat
  BY <1>2 DEF TypeInv
<1>7. chunkCapacity - Sum(Freed) = chunkCapacity /\ Len(stk) + Sum(Pending) = Len(stk)
  BY <1>5, <1>6
<1>8. Cardinality(OnStack) = Len(stk)
  BY <1>2, StackIs
<1>. QED  BY <1>2, <1>7, <1>8 DEF Counted

-------------------------------------------------------------------------------
(***************************************************************************)
(* The stack never loses its shape: whatever the pops and the pushes of    *)
(* the threads, and whatever a pop has read from a header that was freed,  *)
(* it holds whole chunks, each once, and none that a thread has in hand.   *)
(* This is what the stamp of ChunkLockFree::Alloc and Free is for.         *)
(***************************************************************************)
THEOREM StackSound == Spec => []StackIsSound
<1>1. Inv => StackIsSound
  BY InvStack
<1>. QED  BY <1>1, Invariant, PTL

(***************************************************************************)
(* No block is lost and none is handed out twice by MemTLS, by the stack   *)
(* of chunks, by the threads that end and by the garbage collection.       *)
(***************************************************************************)
THEOREM OnePlacePerBlock == Spec => []BlockHasOnePlace
<1>1. Inv => BlockHasOnePlace
  BY InvOnePlace
<1>. QED  BY <1>1, Invariant, PTL

(***************************************************************************)
(* chunkCapacity_ and chunkUsed_, changed one after the other by any       *)
(* number of threads, are exact again whenever all have left the pool.     *)
(***************************************************************************)
THEOREM CountersExact == Spec => []CountersAgree
<1>1. Inv => CountersAgree
  BY InvCounters
<1>. QED  BY <1>1, Invariant, PTL
===============================================================================
