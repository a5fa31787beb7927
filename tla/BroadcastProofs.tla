---------------------------- MODULE BroadcastProofs ----------------------------
(***************************************************************************)
(* Theorems about Broadcast: refCnt_ is exact and everyone hears once, for *)
(* every number of sessions, packets, messages, workers and calls, for     *)
(* sets of every size and however they are cut into chunks.                *)
(***************************************************************************)
EXTENDS Broadcast, FiniteSetTheorems, SequenceTheorems, TLAPS

-------------------------------------------------------------------------------
(***************************************************************************)
(* Counting.  A place (a set that is distributed, a post, a worker, a      *)
(* queue) holds a sequence; Num counts the elements of S that the places   *)
(* of one kind hold, which form the function h.                            *)
(***************************************************************************)
CountIn(q, S) == Cardinality({n \in DOMAIN q : q[n] \in S})

All(kind, h)     == UNION {Copy(kind, x, h[x]) : x \in DOMAIN h}
Held(kind, h, S) == {c \in All(kind, h) : c[4] \in S}
Num(kind, h, S)  == Cardinality(Held(kind, h, S))

Without(h, x) == [y \in DOMAIN h \ {x} |-> h[y]]

LEMMA Shift ==
  ASSUME NEW A \in SUBSET Int, IsFiniteSet(A), NEW d \in Int
  PROVE  /\ IsFiniteSet({n + d : n \in A})
         /\ Cardinality({n + d : n \in A}) = Cardinality(A)
<1> DEFINE B == {n + d : n \in A}
           f == [n \in A |-> n + d]
<1>1. f \in Bijection(A, B)
  <2>1. f \in [A -> B]
    OBVIOUS
  <2>2. \A m, n \in A : f[m] = f[n] => m = n
    OBVIOUS
  <2>3. \A b \in B : \E n \in A : f[n] = b
    OBVIOUS
  <2>. QED  BY <2>1, <2>2, <2>3 DEF Bijection, Injection, Surjection, IsInjective
<1>2. ExistsBijection(A, B)
  BY <1>1 DEF ExistsBijection
<1>. QED  BY <1>2, FS_Bijection

LEMMA DisjointUnion ==
  ASSUME NEW A, NEW B, IsFiniteSet(A), IsFiniteSet(B), A \intersect B = {}
  PROVE  /\ IsFiniteSet(A \union B)
         /\ Cardinality(A \union B) = Cardinality(A) + Cardinality(B)
<1>1. /\ IsFiniteSet(A \union B)
      /\ Cardinality(A \union B)
           = Cardinality(A) + Cardinality(B) - Cardinality(A \intersect B)
  BY FS_Union
<1>2. Cardinality(A \intersect B) = 0 /\ Cardinality(A) \in Nat /\ Cardinality(B) \in Nat
  BY FS_EmptySet, FS_CardinalityType
<1>. QED  BY <1>1, <1>2

LEMMA CountType ==
  ASSUME NEW T, NEW q \in Seq(T), NEW S
  PROVE  /\ IsFiniteSet({n \in DOMAIN q : q[n] \in S})
         /\ CountIn(q, S) \in Nat
<1>1. DOMAIN q = 1 .. Len(q) /\ Len(q) \in Nat
  OBVIOUS
<1>2. IsFiniteSet(DOMAIN q)
  BY <1>1, FS_Interval
<1>3. {n \in DOMAIN q : q[n] \in S} \subseteq DOMAIN q
  OBVIOUS
<1>4. IsFiniteSet({n \in DOMAIN q : q[n] \in S})
  BY <1>2, <1>3, FS_Subset
<1>. QED  BY <1>4, FS_CardinalityType DEF CountIn

LEMMA CountNone ==
  ASSUME NEW S
  PROVE  CountIn(<<>>, S) = 0
<1>1. {n \in DOMAIN <<>> : <<>>[n] \in S} = {}
  OBVIOUS
<1>. QED  BY <1>1, FS_EmptySet DEF CountIn

LEMMA CountAll ==
  ASSUME NEW T, NEW q \in Seq(T)
  PROVE  CountIn(q, T) = Len(q)
<1>1. {n \in DOMAIN q : q[n] \in T} = 1 .. Len(q) /\ Len(q) \in Nat
  OBVIOUS
<1>2. PICK l \in Nat : l = Len(q)
  BY <1>1
<1>3. Cardinality(1 .. l) = l
  BY FS_Interval
<1>. QED  BY <1>1, <1>2, <1>3 DEF CountIn

LEMMA CountJoin ==
  ASSUME NEW T, NEW a \in Seq(T), NEW b \in Seq(T), NEW S
  PROVE  CountIn(a \o b, S) = CountIn(a, S) + CountIn(b, S)
<1>1. PICK k \in Nat, l \in Nat : k = Len(a) /\ l = Len(b)
  OBVIOUS
<1>2. PICK q : q = a \o b
  OBVIOUS
<1>3. /\ DOMAIN a = 1 .. k /\ DOMAIN b = 1 .. l /\ DOMAIN q = 1 .. k + l
      /\ \A i \in 1 .. k : q[i] = a[i]
      /\ \A i \in 1 .. l : q[i + k] = b[i]
  BY <1>1, <1>2
<1> DEFINE A == {n \in DOMAIN a : a[n] \in S}
           B == {n \in DOMAIN b : b[n] \in S}
           C == {n + k : n \in B}
<1>4. {n \in DOMAIN q : q[n] \in S} = A \union C
  <2>1. ASSUME NEW n \in 1 .. k + l, q[n] \in S PROVE n \in A \union C
    <3>1. CASE n \in 1 .. k
      BY <1>3, <2>1, <3>1
    <3>2. CASE n \notin 1 .. k
      <4>1. n - k \in 1 .. l /\ (n - k) + k = n
        BY <3>2
      <4>2. n - k \in B
        BY <1>3, <2>1, <4>1
      <4>. QED  BY <4>1, <4>2
    <3>. QED  BY <3>1, <3>2
  <2>2. ASSUME NEW n \in A PROVE n \in 1 .. k + l /\ q[n] \in S
    BY <1>3
  <2>3. ASSUME NEW n \in C PROVE n \in 1 .. k + l /\ q[n] \in S
    <3>1. PICK i \in B : n = i + k
      OBVIOUS
    <3>2. i \in 1 .. l
      BY <1>3
    <3>. QED  BY <1>3, <3>1, <3>2
  <2>. QED  BY <1>3, <2>1, <2>2, <2>3
<1>5. A \intersect C = {}
  BY <1>3
<1>6. IsFiniteSet(A) /\ IsFiniteSet(B) /\ B \subseteq Int
  <2>1. IsFiniteSet(A) /\ IsFiniteSet(B)
    BY CountType
  <2>. QED  BY <1>3, <2>1
<1>7. IsFiniteSet(C) /\ Cardinality(C) = Cardinality(B)
  <2>1. PICK D \in SUBSET Int : D = B /\ IsFiniteSet(D)
    BY <1>6
  <2>2. /\ IsFiniteSet({n + k : n \in D})
        /\ Cardinality({n + k : n \in D}) = Cardinality(D)
    <3>1. k \in Int
      OBVIOUS
    <3>. QED  BY <2>1, <3>1, Shift, Zenon
  <2>. QED  BY <2>1, <2>2
<1>8. Cardinality(A \union C) = Cardinality(A) + Cardinality(C)
  <2>1. Cardinality(A \union C) = Cardinality(A) + Cardinality(C) - Cardinality(A \intersect C)
    BY <1>6, <1>7, FS_Union
  <2>2. Cardinality(A \intersect C) = 0
    BY <1>5, FS_EmptySet
  <2>3. Cardinality(A) \in Nat /\ Cardinality(C) \in Nat
    BY <1>6, <1>7, FS_CardinalityType
  <2>. QED  BY <2>1, <2>2, <2>3
<1>. QED  BY <1>2, <1>4, <1>7, <1>8 DEF CountIn

LEMMA CountOne ==
  ASSUME NEW x, NEW S
  PROVE  CountIn(<<x>>, S) = IF x \in S THEN 1 ELSE 0
<1>1. {n \in DOMAIN <<x>> : <<x>>[n] \in S} = IF x \in S THEN {1} ELSE {}
  OBVIOUS
<1>. QED  BY <1>1, FS_EmptySet, FS_Singleton DEF CountIn

LEMMA CountHead ==
  ASSUME NEW T, NEW q \in Seq(T), q # <<>>, NEW S
  PROVE  /\ CountIn(q, S) = (IF Head(q) \in S THEN 1 ELSE 0) + CountIn(Tail(q), S)
         /\ Head(q) \in T /\ Tail(q) \in Seq(T)
<1>1. /\ Head(q) \in T /\ Tail(q) \in Seq(T) /\ <<Head(q)>> \in Seq(T)
      /\ <<Head(q)>> \o Tail(q) = q
  OBVIOUS
<1>2. CountIn(<<Head(q)>> \o Tail(q), S) = CountIn(<<Head(q)>>, S) + CountIn(Tail(q), S)
  <2>1. PICK a \in Seq(T), b \in Seq(T) : a = <<Head(q)>> /\ b = Tail(q)
    BY <1>1
  <2>2. CountIn(a \o b, S) = CountIn(a, S) + CountIn(b, S)
    BY CountJoin
  <2>. QED  BY <2>1, <2>2
<1>. QED  BY <1>1, <1>2, CountOne

LEMMA CountAppend ==
  ASSUME NEW T, NEW q \in Seq(T), NEW x \in T, NEW S
  PROVE  /\ CountIn(Append(q, x), S) = CountIn(q, S) + (IF x \in S THEN 1 ELSE 0)
         /\ Append(q, x) \in Seq(T)
<1>1. <<x>> \in Seq(T) /\ Append(q, x) = q \o <<x>> /\ Append(q, x) \in Seq(T)
  OBVIOUS
<1>2. CountIn(q \o <<x>>, S) = CountIn(q, S) + CountIn(<<x>>, S)
  BY <1>1, CountJoin
<1>. QED  BY <1>1, <1>2, CountOne

(* The copies of one place.                                                 *)
LEMMA CopyCount ==
  ASSUME NEW T, NEW q \in Seq(T), NEW kind, NEW x, NEW S
  PROVE  /\ IsFiniteSet({c \in Copy(kind, x, q) : c[4] \in S})
         /\ Cardinality({c \in Copy(kind, x, q) : c[4] \in S}) = CountIn(q, S)
<1> DEFINE A == {n \in DOMAIN q : q[n] \in S}
           B == {c \in Copy(kind, x, q) : c[4] \in S}
           f == [n \in A |-> <<kind, x, n, q[n]>>]
<1>1. f \in Bijection(A, B)
  <2>1. f \in [A -> B]
    BY DEF Copy
  <2>2. \A m, n \in A : f[m] = f[n] => m = n
    OBVIOUS
  <2>3. ASSUME NEW b \in B PROVE \E n \in A : f[n] = b
    <3>1. PICK n \in DOMAIN q : b = <<kind, x, n, q[n]>>
      BY DEF Copy
    <3>2. n \in A
      BY <3>1
    <3>. QED  BY <3>1, <3>2
  <2>. QED  BY <2>1, <2>2, <2>3 DEF Bijection, Injection, Surjection, IsInjective
<1>2. ExistsBijection(A, B)
  BY <1>1 DEF ExistsBijection
<1>3. IsFiniteSet(A)
  BY CountType
<1>. QED  BY <1>2, <1>3, FS_Bijection DEF CountIn

(* Places: a function with finitely many sequences.                         *)
Places(h, T) == IsFiniteSet(DOMAIN h) /\ \A x \in DOMAIN h : h[x] \in Seq(T)

LEMMA HeldFinite ==
  ASSUME NEW h, NEW T, Places(h, T), NEW kind, NEW S
  PROVE  IsFiniteSet(Held(kind, h, S)) /\ Num(kind, h, S) \in Nat
<1> DEFINE D == DOMAIN h
           U == {Copy(kind, x, h[x]) : x \in D}
           f == [x \in D |-> Copy(kind, x, h[x])]
<1>1. f \in Surjection(D, U)
  BY DEF Surjection
<1>2. IsFiniteSet(U)
  BY <1>1, FS_Surjection DEF Places
<1>3. ASSUME NEW V \in U PROVE IsFiniteSet(V)
  <2>1. PICK x \in D : V = Copy(kind, x, h[x])
    OBVIOUS
  <2>2. h[x] \in Seq(T)
    BY DEF Places
  <2>3. {c \in Copy(kind, x, h[x]) : c[4] \in T} = V
    BY <2>1, <2>2 DEF Copy
  <2>. QED  BY <2>2, <2>3, CopyCount
<1>4. IsFiniteSet(UNION U)
  BY <1>2, <1>3, FS_UNION
<1>5. Held(kind, h, S) \subseteq UNION U
  BY DEF Held, All
<1>6. IsFiniteSet(Held(kind, h, S))
  BY <1>4, <1>5, FS_Subset
<1>. QED  BY <1>6, FS_CardinalityType DEF Num

LEMMA WithoutPlaces ==
  ASSUME NEW h, NEW T, Places(h, T), NEW x
  PROVE  Places(Without(h, x), T)
<1>1. DOMAIN Without(h, x) = DOMAIN h \ {x} /\ \A y \in DOMAIN h \ {x} : Without(h, x)[y] = h[y]
  BY DEF Without
<1>2. IsFiniteSet(DOMAIN h \ {x})
  BY FS_RemoveElement DEF Places
<1>. QED  BY <1>1, <1>2 DEF Places

(* One place is apart from the others.                                      *)
LEMMA NumWithout ==
  ASSUME NEW h, NEW T, Places(h, T), NEW kind, NEW S, NEW x \in DOMAIN h
  PROVE  /\ Num(kind, h, S) = Num(kind, Without(h, x), S) + CountIn(h[x], S)
         /\ Num(kind, Without(h, x), S) \in Nat /\ CountIn(h[x], S) \in Nat
<1> DEFINE A == Held(kind, Without(h, x), S)
           B == {c \in Copy(kind, x, h[x]) : c[4] \in S}
<1>1. DOMAIN Without(h, x) = DOMAIN h \ {x} /\ \A y \in DOMAIN h \ {x} : Without(h, x)[y] = h[y]
  BY DEF Without
<1>2. Held(kind, h, S) = A \union B
  <2>1. ASSUME NEW c \in Held(kind, h, S) PROVE c \in A \union B
    <3>1. PICK y \in DOMAIN h : c \in Copy(kind, y, h[y]) /\ c[4] \in S
      BY DEF Held, All
    <3>2. CASE y = x
      BY <3>1, <3>2
    <3>3. CASE y # x
      <4>1. y \in DOMAIN Without(h, x) /\ Without(h, x)[y] = h[y]
        BY <1>1, <3>3
      <4>. QED  BY <3>1, <4>1 DEF Held, All
    <3>. QED  BY <3>2, <3>3
  <2>2. ASSUME NEW c \in A PROVE c \in Held(kind, h, S)
    <3>1. PICK y \in DOMAIN Without(h, x) : c \in Copy(kind, y, Without(h, x)[y]) /\ c[4] \in S
      BY DEF Held, All
    <3>2. y \in DOMAIN h /\ Without(h, x)[y] = h[y]
      BY <1>1
    <3>. QED  BY <3>1, <3>2 DEF Held, All
  <2>3. ASSUME NEW c \in B PROVE c \in Held(kind, h, S)
    BY DEF Held, All
  <2>. QED  BY <2>1, <2>2, <2>3
<1>3. A \intersect B = {}
  <2> SUFFICES ASSUME NEW c \in A, c \in B PROVE FALSE
    OBVIOUS
  <2>1. PICK y \in DOMAIN Without(h, x) : c \in Copy(kind, y, Without(h, x)[y])
    BY DEF Held, All
  <2>2. y # x
    BY <1>1
  <2>3. c[2] = y /\ c[2] = x
    BY <2>1 DEF Copy
  <2>. QED  BY <2>2, <2>3
<1>4. IsFiniteSet(A) /\ Num(kind, Without(h, x), S) \in Nat
  BY WithoutPlaces, HeldFinite
<1>5. h[x] \in Seq(T)
  BY DEF Places
<1>6. IsFiniteSet(B) /\ Cardinality(B) = CountIn(h[x], S) /\ CountIn(h[x], S) \in Nat
  BY <1>5, CopyCount, CountType
<1>7. Cardinality(A \union B) = Cardinality(A) + Cardinality(B) - Cardinality(A \intersect B)
  BY <1>4, <1>6, FS_Union
<1>8. Cardinality(A \intersect B) = 0
  BY <1>3, FS_EmptySet
<1>. QED  BY <1>2, <1>4, <1>6, <1>7, <1>8 DEF Num

(* One place changes.                                                       *)
ChangesAt(h, g, x) ==
  x \in DOMAIN h /\ DOMAIN g = DOMAIN h /\ \A y \in DOMAIN h : y # x => g[y] = h[y]

Exchanged(kind, h, g, x, S) ==
  /\ Num(kind, g, S) + CountIn(h[x], S) = Num(kind, h, S) + CountIn(g[x], S)
  /\ CountIn(g[x], S) \in Nat /\ CountIn(h[x], S) \in Nat
  /\ Num(kind, g, S) \in Nat /\ Num(kind, h, S) \in Nat

LEMMA NumChange ==
  ASSUME NEW h, NEW T, Places(h, T), NEW kind, NEW S, NEW x, NEW g, ChangesAt(h, g, x),
         g[x] \in Seq(T)
  PROVE  Exchanged(kind, h, g, x, S)
<1>1. Places(g, T)
  BY DEF Places, ChangesAt
<1>2. Without(g, x) = Without(h, x)
  BY DEF Without, ChangesAt
<1>3. /\ Num(kind, h, S) = Num(kind, Without(h, x), S) + CountIn(h[x], S)
      /\ Num(kind, Without(h, x), S) \in Nat /\ CountIn(h[x], S) \in Nat
  BY NumWithout DEF ChangesAt
<1>4. /\ Num(kind, g, S) = Num(kind, Without(g, x), S) + CountIn(g[x], S)
      /\ CountIn(g[x], S) \in Nat
  BY <1>1, NumWithout DEF ChangesAt
<1>. QED  BY <1>2, <1>3, <1>4 DEF Exchanged

(* A post more, and a post less.                                            *)
LEMMA NumAppend ==
  ASSUME NEW T, NEW h \in Seq(Seq(T)), NEW q \in Seq(T), NEW kind, NEW S
  PROVE  /\ Num(kind, Append(h, q), S) = Num(kind, h, S) + CountIn(q, S)
         /\ Num(kind, h, S) \in Nat /\ CountIn(q, S) \in Nat
<1>1. PICK l \in Nat : l = Len(h)
  OBVIOUS
<1>2. PICK g : g = Append(h, q)
  OBVIOUS
<1>3. /\ DOMAIN h = 1 .. l /\ DOMAIN g = 1 .. l + 1 /\ g[l + 1] = q
      /\ \A i \in 1 .. l : g[i] = h[i] /\ g[i] \in Seq(T)
  BY <1>1, <1>2
<1>4. Places(g, T) /\ Places(h, T)
  <2>1. IsFiniteSet(1 .. l) /\ IsFiniteSet(1 .. l + 1)
    BY FS_Interval
  <2>2. \A i \in 1 .. l + 1 : i \in 1 .. l \/ i = l + 1
    OBVIOUS
  <2>. QED  BY <1>3, <2>1, <2>2 DEF Places
<1>5. Without(g, l + 1) = h
  <2>1. (1 .. l + 1) \ {l + 1} = 1 .. l
    OBVIOUS
  <2>2. h = [i \in 1 .. l |-> h[i]]
    BY <1>3
  <2>. QED  BY <1>3, <2>1, <2>2 DEF Without
<1>6. l + 1 \in DOMAIN g
  BY <1>3
<1>7. /\ Num(kind, g, S) = Num(kind, Without(g, l + 1), S) + CountIn(g[l + 1], S)
      /\ Num(kind, Without(g, l + 1), S) \in Nat /\ CountIn(g[l + 1], S) \in Nat
  BY <1>4, <1>6, NumWithout
<1>. QED  BY <1>2, <1>3, <1>5, <1>7

LEMMA NumTail ==
  ASSUME NEW T, NEW h \in Seq(Seq(T)), h # <<>>, NEW kind, NEW S
  PROVE  /\ Num(kind, h, S) = Num(kind, Tail(h), S) + CountIn(h[1], S)
         /\ Num(kind, Tail(h), S) \in Nat /\ CountIn(h[1], S) \in Nat
<1>1. PICK l \in Nat : l = Len(h) /\ l > 0
  OBVIOUS
<1>2. PICK g : g = Tail(h)
  OBVIOUS
<1>3. /\ DOMAIN h = 1 .. l /\ DOMAIN g = 1 .. l - 1
      /\ \A i \in 1 .. l - 1 : g[i] = h[i + 1]
      /\ \A i \in 1 .. l : h[i] \in Seq(T)
  BY <1>1, <1>2
<1>4. Places(h, T)
  <2>1. IsFiniteSet(1 .. l)
    BY FS_Interval
  <2>. QED  BY <1>3, <2>1 DEF Places
<1>5. PICK r : r = Without(h, 1)
  OBVIOUS
<1>6. DOMAIN r = 2 .. l /\ \A i \in 2 .. l : r[i] = h[i]
  <2>1. (1 .. l) \ {1} = 2 .. l
    BY <1>1
  <2>. QED  BY <1>3, <1>5, <2>1 DEF Without
<1>7. /\ Num(kind, h, S) = Num(kind, r, S) + CountIn(h[1], S)
      /\ Num(kind, r, S) \in Nat /\ CountIn(h[1], S) \in Nat /\ IsFiniteSet(Held(kind, r, S))
  <2>1. 1 \in DOMAIN h
    BY <1>1, <1>3
  <2>. QED  BY <1>4, <1>5, <2>1, NumWithout, WithoutPlaces, HeldFinite
<1> DEFINE A == Held(kind, r, S)
           B == Held(kind, g, S)
           f == [c \in A |-> <<kind, c[2] - 1, c[3], c[4]>>]
<1>8. ASSUME NEW c \in A
      PROVE  \E i \in 2 .. l : \E n \in DOMAIN h[i] : c = <<kind, i, n, h[i][n]>> /\ h[i][n] \in S
  <2>1. PICK i \in DOMAIN r : c \in Copy(kind, i, r[i]) /\ c[4] \in S
    BY DEF Held, All
  <2>2. i \in 2 .. l /\ r[i] = h[i]
    BY <1>6
  <2>3. PICK n \in DOMAIN h[i] : c = <<kind, i, n, h[i][n]>>
    BY <2>1, <2>2 DEF Copy
  <2>. QED  BY <2>1, <2>2, <2>3
<1>9. ASSUME NEW i \in 2 .. l, NEW n \in DOMAIN h[i], h[i][n] \in S
      PROVE  /\ <<kind, i, n, h[i][n]>> \in A
             /\ <<kind, i - 1, n, h[i][n]>> \in B
  <2>1. <<kind, i, n, h[i][n]>> \in Copy(kind, i, r[i]) /\ i \in DOMAIN r
    BY <1>6 DEF Copy
  <2>2. i - 1 \in DOMAIN g /\ g[i - 1] = h[i]
    <3>1. i - 1 \in 1 .. l - 1 /\ (i - 1) + 1 = i
      BY <1>1
    <3>. QED  BY <1>3, <3>1
  <2>3. <<kind, i - 1, n, h[i][n]>> \in Copy(kind, i - 1, g[i - 1])
    BY <2>2 DEF Copy
  <2>. QED  BY <1>9, <2>1, <2>2, <2>3 DEF Held, All
<1>10. ASSUME NEW b \in B
       PROVE  \E i \in 2 .. l : \E n \in DOMAIN h[i] : b = <<kind, i - 1, n, h[i][n]>> /\ h[i][n] \in S
  <2>1. PICK j \in DOMAIN g : b \in Copy(kind, j, g[j]) /\ b[4] \in S
    BY DEF Held, All
  <2>2. j + 1 \in 2 .. l /\ (j + 1) - 1 = j /\ g[j] = h[j + 1]
    BY <1>1, <1>3
  <2>3. PICK n \in DOMAIN g[j] : b = <<kind, j, n, g[j][n]>>
    BY <2>1 DEF Copy
  <2>. QED  BY <2>1, <2>2, <2>3
<1>11. f \in Bijection(A, B)
  <2> HIDE DEF A, B
  <2>1. f \in [A -> B]
    <3>1. ASSUME NEW c \in A PROVE <<kind, c[2] - 1, c[3], c[4]>> \in B
      <4>1. PICK i \in 2 .. l : \E n \in DOMAIN h[i] : c = <<kind, i, n, h[i][n]>> /\ h[i][n] \in S
        BY <1>8
      <4>. QED  BY <1>9, <4>1
    <3>. QED  BY <3>1
  <2>2. ASSUME NEW c \in A, NEW d \in A, f[c] = f[d] PROVE c = d
    <3>1. PICK i \in 2 .. l : \E n \in DOMAIN h[i] : c = <<kind, i, n, h[i][n]>>
      BY <1>8
    <3>2. PICK n \in DOMAIN h[i] : c = <<kind, i, n, h[i][n]>>
      BY <3>1
    <3>3. PICK j \in 2 .. l : \E m \in DOMAIN h[j] : d = <<kind, j, m, h[j][m]>>
      BY <1>8
    <3>4. PICK m \in DOMAIN h[j] : d = <<kind, j, m, h[j][m]>>
      BY <3>3
    <3>5. /\ c[2] = i /\ c[3] = n /\ c[4] = h[i][n]
          /\ d[2] = j /\ d[3] = m /\ d[4] = h[j][m]
      BY <3>2, <3>4
    <3>6. <<kind, i - 1, n, h[i][n]>> = <<kind, j - 1, m, h[j][m]>>
      BY <2>2, <3>5
    <3>7. i - 1 = j - 1 /\ n = m
      BY <3>6
    <3>8. i = j
      BY <3>7
    <3>. QED  BY <3>2, <3>4, <3>7, <3>8
  <2>3. ASSUME NEW b \in B PROVE \E c \in A : f[c] = b
    <3>1. PICK i \in 2 .. l : \E n \in DOMAIN h[i] : b = <<kind, i - 1, n, h[i][n]>> /\ h[i][n] \in S
      BY <1>10
    <3>2. PICK n \in DOMAIN h[i] : b = <<kind, i - 1, n, h[i][n]>> /\ h[i][n] \in S
      BY <3>1
    <3>3. PICK c \in A : c = <<kind, i, n, h[i][n]>>
      BY <1>9, <3>2
    <3>. QED  BY <3>2, <3>3
  <2>. QED  BY <2>1, <2>2, <2>3 DEF Bijection, Injection, Surjection, IsInjective
<1>12. Cardinality(B) = Cardinality(A)
  <2>1. ExistsBijection(A, B)
    BY <1>11 DEF ExistsBijection
  <2>. QED  BY <1>7, <2>1, FS_Bijection
<1>. QED  BY <1>2, <1>7, <1>12 DEF Num

-------------------------------------------------------------------------------
(***************************************************************************)
(* The inductive invariant.                                                *)
(***************************************************************************)
WorkRecords   == [kind : {"none", "send", "last"}, ids : Seq(Sessions), num : Nat]
Posts         == [kind : {"sign", "send", "last"}, packet : Packets \union {NULL},
                  ids : Seq(Sessions)]
WorkerRecords == [kind : {"none", "send", "last"}, packet : Packets \union {NULL},
                  ids : Seq(Sessions), at : Sessions \union {NULL},
                  pc : {"idle", "next", "sendPost", "cancel", "spin", "clear"}]

(* A sign has no packet, and its session; a chunk has both, and IDs.        *)
PostOK(x) == x.ids # <<>> /\ (x.kind = "sign" <=> x.packet = NULL)

WorkerOK(r) ==
  /\ r.ids # <<>> => r.packet # NULL
  /\ r.pc = "next" => r.ids # <<>>
  /\ r.pc \in {"sendPost", "cancel", "spin", "clear"} => r.at # NULL

WorkOK(r) == r # NoWork => r.kind # "none" /\ r.num > 0

TypeInv ==
  /\ refCnt \in [Packets -> Int]
  /\ message \in [Packets -> Messages \union {NULL}]
  /\ owned \subseteq Packets /\ fresh \subseteq Messages
  /\ work \in [Packets -> WorkRecords] /\ \A p \in Packets : WorkOK(work[p])
  /\ port \in Seq(Posts) /\ \A k \in DOMAIN port : PostOK(port[k])
  /\ worker \in [Workers -> WorkerRecords] /\ \A w \in Workers : WorkerOK(worker[w])
  /\ sendQ \in [Sessions -> Seq(Packets)] /\ sentQ \in [Sessions -> Seq(Packets)]
  /\ owed \in [Messages -> [Sessions -> Int]]

(* The copies of p for the sessions of S, and its places in queues, counted *)
(* place by place.                                                          *)
PortIDs(p)   == [k \in DOMAIN port |-> IF port[k].packet = p THEN port[k].ids ELSE <<>>]
WorkerIDs(p) == [w \in Workers |-> IF worker[w].packet = p THEN worker[w].ids ELSE <<>>]

OnTheWay(p, S) ==
  CountIn(work[p].ids, S) + Num("port", PortIDs(p), S) + Num("worker", WorkerIDs(p), S)

InQ(p) == Num("send", sendQ, {p}) + Num("sent", sentQ, {p})

Made(p) == IF p \in owned THEN 1 ELSE 0

RefInv == \A p \in Packets : refCnt[p] = Made(p) + OnTheWay(p, Sessions) + InQ(p)

(* A message is in one packet, and one that nobody wrote is in none.        *)
MessageInv ==
  \A p \in Packets : message[p] # NULL =>
    message[p] \notin fresh /\ \A q \in Packets : message[q] = message[p] => q = p

(* Only packets with a message go anywhere.                                 *)
LiveInv == \A p \in Packets : message[p] = NULL => p \notin owned /\ OnTheWay(p, Sessions) = 0

OwedInv ==
  /\ \A p \in Packets, s \in Sessions :
       message[p] # NULL => owed[message[p]][s] = OnTheWay(p, {s})
  /\ \A m \in Messages, s \in Sessions :
       (\A p \in Packets : message[p] # m) => owed[m][s] = 0

Inv == TypeInv /\ RefInv /\ MessageInv /\ LiveInv /\ OwedInv

-------------------------------------------------------------------------------
(***************************************************************************)
(* The records.                                                            *)
(***************************************************************************)
LEMMA IdleIs == Idle \in WorkerRecords /\ WorkerOK(Idle) /\ Idle.ids = <<>> /\ Idle.packet = NULL
<1>1. <<>> \in Seq(Sessions)
  OBVIOUS
<1>. QED  BY <1>1 DEF Idle, WorkerRecords, WorkerOK

LEMMA NoWorkIs == NoWork \in WorkRecords /\ NoWork.ids = <<>> /\ WorkOK(NoWork)
<1>1. <<>> \in Seq(Sessions)
  OBVIOUS
<1>. QED  BY <1>1 DEF NoWork, WorkRecords, WorkOK

(* A set that its maker goes on distributing.                               *)
LEMMA RestIs ==
  ASSUME NEW r \in WorkRecords, WorkOK(r), r # NoWork, NEW i \in Seq(Sessions)
  PROVE  LET n == [r EXCEPT !.ids = i] IN n \in WorkRecords /\ WorkOK(n) /\ n.ids = i
<1> DEFINE n == [r EXCEPT !.ids = i]
<1>1. n \in WorkRecords
  BY Zenon DEF WorkRecords
<1>2. n.ids = i /\ n.kind = r.kind /\ n.num = r.num
  BY Zenon DEF WorkRecords
<1> HIDE DEF n
<1>3. WorkOK(n)
  BY <1>2 DEF WorkOK
<1>. QED  BY <1>1, <1>2, <1>3 DEF n

(* A worker that starts at a session.                                       *)
LEMMA StartIs ==
  ASSUME NEW s \in Sessions, NEW c \in {"sendPost", "clear"}
  PROVE  LET r == [Idle EXCEPT !.at = s, !.pc = c] IN
         /\ r \in WorkerRecords /\ WorkerOK(r)
         /\ r.ids = <<>> /\ r.packet = NULL
<1> DEFINE r == [Idle EXCEPT !.at = s, !.pc = c]
<1>1. Idle \in WorkerRecords /\ Idle.ids = <<>> /\ Idle.packet = NULL
  BY IdleIs
<1>2. s \in Sessions \union {NULL} /\ s # NULL
  BY BroadcastAssumption
<1>3. c \in {"idle", "next", "sendPost", "cancel", "spin", "clear"} /\ c # "next"
  OBVIOUS
<1>4. r \in WorkerRecords
  BY Zenon, <1>1, <1>2, <1>3 DEF WorkerRecords
<1>5. r.ids = <<>> /\ r.packet = NULL /\ r.at = s /\ r.pc = c
  BY Zenon, <1>1 DEF WorkerRecords
<1> HIDE DEF r
<1>6. WorkerOK(r)
  BY <1>2, <1>3, <1>5 DEF WorkerOK
<1>. QED  BY <1>4, <1>5, <1>6 DEF r

(* A worker that went on within its set.                                    *)
LEMMA PoppedIs ==
  ASSUME NEW r \in WorkerRecords, r.ids # <<>>
  PROVE  /\ WithoutHead(r) \in WorkerRecords /\ WithoutHead(r).ids = Tail(r.ids)
         /\ WithoutHead(r).packet = r.packet
<1>1. r.ids \in Seq(Sessions)
  BY DEF WorkerRecords
<1>2. PICK i \in Seq(Sessions) : i = Tail(r.ids)
  BY <1>1, HeadTailProperties
<1> DEFINE x == [r EXCEPT !.ids = i]
<1>3. x \in WorkerRecords /\ x.ids = i /\ x.packet = r.packet
  BY Zenon DEF WorkerRecords
<1>4. WithoutHead(r) = x
  BY <1>2 DEF WithoutHead
<1>. QED  BY <1>2, <1>3, <1>4

LEMMA StepIs ==
  ASSUME NEW r \in WorkerRecords, r.ids # <<>> => r.packet # NULL,
         NEW s \in Sessions, NEW c \in {"sendPost", "cancel"}
  PROVE  LET n == [r EXCEPT !.at = s, !.pc = c] IN
         n \in WorkerRecords /\ WorkerOK(n) /\ n.ids = r.ids /\ n.packet = r.packet
<1> DEFINE n == [r EXCEPT !.at = s, !.pc = c]
<1>1. s \in Sessions \union {NULL} /\ s # NULL
  BY BroadcastAssumption
<1>2. c \in {"idle", "next", "sendPost", "cancel", "spin", "clear"} /\ c # "next"
  OBVIOUS
<1>3. n \in WorkerRecords
  BY Zenon, <1>1, <1>2 DEF WorkerRecords
<1>4. n.ids = r.ids /\ n.packet = r.packet /\ n.at = s /\ n.pc = c
  BY Zenon DEF WorkerRecords
<1> HIDE DEF n
<1>5. WorkerOK(n)
  BY <1>1, <1>2, <1>4 DEF WorkerOK
<1>. QED  BY <1>3, <1>4, <1>5 DEF n

LEMMA PcIs ==
  ASSUME NEW r \in WorkerRecords, WorkerOK(r), r.at # NULL, NEW c \in {"sendPost", "spin"}
  PROVE  LET n == [r EXCEPT !.pc = c] IN
         n \in WorkerRecords /\ WorkerOK(n) /\ n.ids = r.ids /\ n.packet = r.packet
<1> DEFINE n == [r EXCEPT !.pc = c]
<1>1. c \in {"idle", "next", "sendPost", "cancel", "spin", "clear"} /\ c # "next"
  OBVIOUS
<1>2. n \in WorkerRecords
  BY Zenon, <1>1 DEF WorkerRecords
<1>3. n.ids = r.ids /\ n.packet = r.packet /\ n.at = r.at /\ n.pc = c
  BY Zenon DEF WorkerRecords
<1> HIDE DEF n
<1>4. WorkerOK(n)
  BY <1>1, <1>3 DEF WorkerOK
<1>. QED  BY <1>2, <1>3, <1>4 DEF n

(* A worker that is done with a session.                                    *)
LEMMA AfterIs ==
  ASSUME NEW r \in WorkerRecords, r.ids # <<>> => r.packet # NULL
  PROVE  /\ AfterID(r) \in WorkerRecords /\ WorkerOK(AfterID(r)) /\ AfterID(r).ids = r.ids
         /\ r.ids = <<>> \/ AfterID(r).packet = r.packet
<1>1. CASE r.ids = <<>>
  BY <1>1, IdleIs DEF AfterID
<1>2. CASE r.ids # <<>>
  <2> DEFINE n == [r EXCEPT !.at = NULL, !.pc = "next"]
  <2>1. AfterID(r) = n
    BY <1>2 DEF AfterID
  <2>2. /\ NULL \in Sessions \union {NULL}
        /\ "next" \in {"idle", "next", "sendPost", "cancel", "spin", "clear"}
    OBVIOUS
  <2>3. n \in WorkerRecords
    BY Zenon, <2>2 DEF WorkerRecords
  <2>4. n.ids = r.ids /\ n.packet = r.packet /\ n.pc = "next"
    BY Zenon DEF WorkerRecords
  <2> HIDE DEF n
  <2>5. WorkerOK(n)
    BY <1>2, <2>4 DEF WorkerOK
  <2>. QED  BY <2>1, <2>3, <2>4, <2>5
<1>. QED  BY <1>1, <1>2

-------------------------------------------------------------------------------
(***************************************************************************)
(* What the sums count.                                                    *)
(***************************************************************************)
LEMMA PlacesAre ==
  ASSUME TypeInv, NEW p \in Packets
  PROVE  /\ work[p] \in WorkRecords /\ work[p].ids \in Seq(Sessions)
         /\ PortIDs(p) \in Seq(Seq(Sessions)) /\ Places(PortIDs(p), Sessions)
         /\ WorkerIDs(p) \in [Workers -> Seq(Sessions)] /\ Places(WorkerIDs(p), Sessions)
         /\ Places(sendQ, Packets) /\ Places(sentQ, Packets)
<1>1. work[p] \in WorkRecords /\ work[p].ids \in Seq(Sessions)
  BY DEF TypeInv, WorkRecords
<1>2. <<>> \in Seq(Sessions)
  OBVIOUS
<1>3. PICK l \in Nat : DOMAIN port = 1 .. l /\ \A k \in 1 .. l : port[k].ids \in Seq(Sessions)
  <2>1. port \in Seq(Posts)
    BY DEF TypeInv
  <2>2. PICK l \in Nat : DOMAIN port = 1 .. l /\ \A k \in 1 .. l : port[k] \in Posts
    BY <2>1
  <2>3. \A x \in Posts : x.ids \in Seq(Sessions)
    BY DEF Posts
  <2>. QED  BY <2>2, <2>3
<1>4. DOMAIN PortIDs(p) = 1 .. l /\ \A k \in 1 .. l : PortIDs(p)[k] \in Seq(Sessions)
  BY <1>2, <1>3 DEF PortIDs
<1>5. PortIDs(p) \in Seq(Seq(Sessions))
  <2>1. PortIDs(p) = [k \in 1 .. l |-> PortIDs(p)[k]]
    BY <1>3 DEF PortIDs
  <2>2. PICK h : h = PortIDs(p)
    OBVIOUS
  <2>3. h = [k \in 1 .. l |-> h[k]] /\ \A k \in 1 .. l : h[k] \in Seq(Sessions)
    BY <1>4, <2>1, <2>2
  <2>4. h \in Seq(Seq(Sessions))
    BY <2>3
  <2>. QED  BY <2>2, <2>4
<1>6. Places(PortIDs(p), Sessions)
  BY <1>4, FS_Interval DEF Places
<1>7. WorkerIDs(p) \in [Workers -> Seq(Sessions)]
  BY <1>2 DEF TypeInv, WorkerRecords, WorkerIDs
<1>8. Places(WorkerIDs(p), Sessions)
  BY <1>7, BroadcastAssumption DEF Places
<1>9. Places(sendQ, Packets) /\ Places(sentQ, Packets)
  BY BroadcastAssumption DEF Places, TypeInv
<1>. QED  BY <1>1, <1>5, <1>6, <1>7, <1>8, <1>9

LEMMA InCopies ==
  ASSUME NEW p, NEW c
  PROVE  c \in CopiesOf(p) <=>
           \/ c \in Copy("work", p, work[p].ids)
           \/ \E k \in DOMAIN port : port[k].packet = p /\ c \in Copy("port", k, port[k].ids)
           \/ \E w \in Workers : worker[w].packet = p /\ c \in Copy("worker", w, worker[w].ids)
BY DEF CopiesOf

LEMMA CopiesSplit ==
  ASSUME TypeInv, NEW p \in Packets, NEW S
  PROVE  /\ IsFiniteSet({c \in CopiesOf(p) : c[4] \in S})
         /\ Cardinality({c \in CopiesOf(p) : c[4] \in S}) = OnTheWay(p, S)
         /\ OnTheWay(p, S) \in Nat /\ CountIn(work[p].ids, S) \in Nat
         /\ Num("port", PortIDs(p), S) \in Nat /\ Num("worker", WorkerIDs(p), S) \in Nat
<1> DEFINE A == {c \in Copy("work", p, work[p].ids) : c[4] \in S}
           B == Held("port", PortIDs(p), S)
           C == Held("worker", WorkerIDs(p), S)
           D == {c \in CopiesOf(p) : c[4] \in S}
<1>1. /\ IsFiniteSet(A) /\ Cardinality(A) = CountIn(work[p].ids, S)
      /\ CountIn(work[p].ids, S) \in Nat
  BY PlacesAre, CopyCount, CountType
<1>2. IsFiniteSet(B) /\ Num("port", PortIDs(p), S) \in Nat
  BY PlacesAre, HeldFinite
<1>3. IsFiniteSet(C) /\ Num("worker", WorkerIDs(p), S) \in Nat
  BY PlacesAre, HeldFinite
<1>4. D = (A \union B) \union C
  <2>1. ASSUME NEW c \in D PROVE c \in (A \union B) \union C
    <3>1. c \in CopiesOf(p) /\ c[4] \in S
      OBVIOUS
    <3>2. CASE c \in Copy("work", p, work[p].ids)
      BY <3>1, <3>2
    <3>3. CASE \E k \in DOMAIN port : port[k].packet = p /\ c \in Copy("port", k, port[k].ids)
      <4>1. PICK k \in DOMAIN port : port[k].packet = p /\ c \in Copy("port", k, port[k].ids)
        BY <3>3
      <4>2. k \in DOMAIN PortIDs(p) /\ PortIDs(p)[k] = port[k].ids
        BY <4>1 DEF PortIDs
      <4>. QED  BY <3>1, <4>1, <4>2 DEF Held, All
    <3>4. CASE \E w \in Workers : worker[w].packet = p /\ c \in Copy("worker", w, worker[w].ids)
      <4>1. PICK w \in Workers : worker[w].packet = p /\ c \in Copy("worker", w, worker[w].ids)
        BY <3>4
      <4>2. w \in DOMAIN WorkerIDs(p) /\ WorkerIDs(p)[w] = worker[w].ids
        BY <4>1 DEF WorkerIDs
      <4>. QED  BY <3>1, <4>1, <4>2 DEF Held, All
    <3>. QED  BY <3>1, <3>2, <3>3, <3>4, InCopies
  <2>2. ASSUME NEW c \in B PROVE c \in D
    <3>1. PICK k \in DOMAIN PortIDs(p) : c \in Copy("port", k, PortIDs(p)[k]) /\ c[4] \in S
      BY DEF Held, All
    <3>2. k \in DOMAIN port /\ port[k].packet = p /\ PortIDs(p)[k] = port[k].ids
      BY <3>1 DEF PortIDs, Copy
    <3>3. c \in CopiesOf(p)
      BY <3>1, <3>2, InCopies
    <3>. QED  BY <3>1, <3>3
  <2>3. ASSUME NEW c \in C PROVE c \in D
    <3>1. PICK w \in DOMAIN WorkerIDs(p) :
            c \in Copy("worker", w, WorkerIDs(p)[w]) /\ c[4] \in S
      BY DEF Held, All
    <3>2. w \in Workers /\ worker[w].packet = p /\ WorkerIDs(p)[w] = worker[w].ids
      BY <3>1 DEF WorkerIDs, Copy
    <3>3. c \in CopiesOf(p)
      BY <3>1, <3>2, InCopies
    <3>. QED  BY <3>1, <3>3
  <2>4. ASSUME NEW c \in A PROVE c \in D
    BY InCopies
  <2>5. \A c : c \in D <=> c \in (A \union B) \union C
    <3> HIDE DEF A, B, C, D
    <3>. QED  BY <2>1, <2>2, <2>3, <2>4
  <2>. QED  BY <2>5
<1>5. /\ \A c \in A : c[1] = "work"
      /\ \A c \in B : c[1] = "port"
      /\ \A c \in C : c[1] = "worker"
  BY DEF Copy, Held, All
<1> HIDE DEF A, B, C, D
<1>6. A \intersect B = {} /\ (A \union B) \intersect C = {}
  BY <1>5
<1>7. IsFiniteSet(A \union B) /\ Cardinality(A \union B) = Cardinality(A) + Cardinality(B)
  BY <1>1, <1>2, <1>6, DisjointUnion
<1>8. /\ IsFiniteSet((A \union B) \union C)
      /\ Cardinality((A \union B) \union C) = Cardinality(A \union B) + Cardinality(C)
  BY <1>3, <1>6, <1>7, DisjointUnion
<1>9. IsFiniteSet(D) /\ Cardinality(D) = OnTheWay(p, S)
  BY <1>1, <1>4, <1>7, <1>8 DEF OnTheWay, Num, B, C
<1>10. OnTheWay(p, S) \in Nat
  BY <1>9, FS_CardinalityType
<1>. QED  BY <1>1, <1>2, <1>3, <1>9, <1>10 DEF D

LEMMA QueuesSplit ==
  ASSUME TypeInv, NEW p \in Packets
  PROVE  /\ Cardinality(InQueues(p)) = InQ(p) /\ InQ(p) \in Nat
         /\ Num("send", sendQ, {p}) \in Nat /\ Num("sent", sentQ, {p}) \in Nat
<1> DEFINE A == Held("send", sendQ, {p})
           B == Held("sent", sentQ, {p})
<1>1. IsFiniteSet(A) /\ Num("send", sendQ, {p}) \in Nat
  BY PlacesAre, HeldFinite
<1>2. IsFiniteSet(B) /\ Num("sent", sentQ, {p}) \in Nat
  BY PlacesAre, HeldFinite
<1>3. DOMAIN sendQ = Sessions /\ DOMAIN sentQ = Sessions
  BY DEF TypeInv
<1>4. InQueues(p) = A \union B
  BY <1>3 DEF InQueues, Held, All
<1>5. A \intersect B = {}
  BY DEF Copy, Held, All
<1>6. Cardinality(A \union B) = Cardinality(A) + Cardinality(B)
  BY <1>1, <1>2, <1>5, DisjointUnion
<1>. QED  BY <1>1, <1>2, <1>4, <1>6 DEF InQ, Num

LEMMA CopiesTyped ==
  ASSUME TypeInv, NEW p \in Packets, NEW c \in CopiesOf(p)
  PROVE  c[4] \in Sessions
<1>1. CASE c \in Copy("work", p, work[p].ids)
  <2>1. PICK i \in Seq(Sessions) : i = work[p].ids
    BY PlacesAre
  <2>. QED  BY <1>1, <2>1 DEF Copy
<1>2. CASE \E k \in DOMAIN port : port[k].packet = p /\ c \in Copy("port", k, port[k].ids)
  <2>1. PICK k \in DOMAIN port : c \in Copy("port", k, port[k].ids)
    BY <1>2
  <2>. port \in Seq(Posts)
    BY DEF TypeInv
  <2>. port[k] \in Posts
    OBVIOUS
  <2>. \A x \in Posts : x.ids \in Seq(Sessions)
    BY DEF Posts
  <2>2. PICK i \in Seq(Sessions) : i = port[k].ids
    OBVIOUS
  <2>. QED  BY <2>1, <2>2 DEF Copy
<1>3. CASE \E w \in Workers : worker[w].packet = p /\ c \in Copy("worker", w, worker[w].ids)
  <2>1. PICK w \in Workers : c \in Copy("worker", w, worker[w].ids)
    BY <1>3
  <2>2. PICK i \in Seq(Sessions) : i = worker[w].ids
    BY DEF TypeInv, WorkerRecords
  <2>. QED  BY <2>1, <2>2 DEF Copy
<1>. QED  BY <1>1, <1>2, <1>3, InCopies

(* Nothing is on its way to one session if nothing is on its way at all.    *)
LEMMA NoneForAny ==
  ASSUME TypeInv, NEW p \in Packets, OnTheWay(p, Sessions) = 0, NEW s \in Sessions
  PROVE  OnTheWay(p, {s}) = 0
<1> DEFINE A == {c \in CopiesOf(p) : c[4] \in {s}}
           B == {c \in CopiesOf(p) : c[4] \in Sessions}
<1>1. IsFiniteSet(B) /\ Cardinality(B) = 0 /\ Cardinality(A) = OnTheWay(p, {s})
  BY CopiesSplit
<1>2. B = {}
  BY <1>1, FS_EmptySet
<1>3. A = {}
  BY <1>2
<1>. QED  BY <1>1, <1>3, FS_EmptySet

LEMMA CopiesAreCounted ==
  ASSUME NEW x, NEW q
  PROVE  Copies(x, q) = CountIn(q, {x})
<1>1. {n \in DOMAIN q : q[n] = x} = {n \in DOMAIN q : q[n] \in {x}}
  OBVIOUS
<1>. QED  BY <1>1 DEF Copies, CountIn

-------------------------------------------------------------------------------
(***************************************************************************)
(* How the sums change.                                                    *)
(***************************************************************************)
CountOf(r, p, S) == IF r.packet = p THEN CountIn(r.ids, S) ELSE 0

LEMMA AppendIs ==
  ASSUME NEW T, NEW h \in Seq(T), NEW x \in T
  PROVE  Append(h, x) = [k \in 1 .. Len(h) + 1 |-> IF k = Len(h) + 1 THEN x ELSE h[k]]
<1>1. PICK l \in Nat : l = Len(h) /\ \A k \in 1 .. l : h[k] \in T
  OBVIOUS
<1> DEFINE g == [k \in 1 .. l + 1 |-> IF k = l + 1 THEN x ELSE h[k]]
<1>2. \A k \in 1 .. l + 1 : k \in 1 .. l \/ k = l + 1
  OBVIOUS
<1>3. g \in Seq(T) /\ Len(g) = l + 1
  BY <1>1, <1>2
<1>4. /\ Append(h, x) \in Seq(T) /\ Len(Append(h, x)) = l + 1
      /\ \A k \in 1 .. l + 1 : Append(h, x)[k] = g[k]
  BY <1>1, <1>2, AppendProperties
<1> HIDE DEF g
<1>5. Append(h, x) = g
  BY <1>3, <1>4, SeqEqual
<1>. QED  BY <1>1, <1>5 DEF g

LEMMA TailIs ==
  ASSUME NEW T, NEW h \in Seq(T), h # <<>>
  PROVE  Tail(h) = [k \in 1 .. Len(h) - 1 |-> h[k + 1]]
<1>1. PICK l \in Nat : l = Len(h) /\ l > 0 /\ \A k \in 1 .. l : h[k] \in T
  OBVIOUS
<1> DEFINE g == [k \in 1 .. l - 1 |-> h[k + 1]]
<1>2. l - 1 \in Nat /\ \A k \in 1 .. l - 1 : k + 1 \in 1 .. l
  BY <1>1
<1>3. g \in Seq(T) /\ Len(g) = l - 1
  BY <1>1, <1>2
<1>4. /\ Tail(h) \in Seq(T) /\ Len(Tail(h)) = l - 1
      /\ \A k \in 1 .. l - 1 : Tail(h)[k] = g[k]
  BY <1>1, HeadTailProperties
<1> HIDE DEF g
<1>5. Tail(h) = g
  BY <1>3, <1>4, SeqEqual
<1>. QED  BY <1>1, <1>5 DEF g

LEMMA PortTypeAppended ==
  ASSUME TypeInv, NEW x \in Posts, PostOK(x), port' = Append(port, x)
  PROVE  port' \in Seq(Posts) /\ \A k \in DOMAIN port' : PostOK(port'[k])
<1>1. PICK l \in Nat : l = Len(port) /\ DOMAIN port = 1 .. l
  BY DEF TypeInv
<1>2. /\ DOMAIN port' = 1 .. l + 1 /\ port'[l + 1] = x /\ port' \in Seq(Posts)
      /\ \A k \in 1 .. l : port'[k] = port[k]
  BY <1>1 DEF TypeInv
<1>3. \A k \in 1 .. l + 1 : k \in 1 .. l \/ k = l + 1
  OBVIOUS
<1>. QED  BY <1>1, <1>2, <1>3 DEF TypeInv

LEMMA PortAppended ==
  ASSUME TypeInv, NEW x \in Posts, port' = Append(port, x), NEW p \in Packets, NEW S
  PROVE  Num("port", PortIDs(p)', S) = Num("port", PortIDs(p), S) + CountOf(x, p, S)
<1> DEFINE q == IF x.packet = p THEN x.ids ELSE <<>>
<1>1. q \in Seq(Sessions)
  <2>1. <<>> \in Seq(Sessions) /\ x.ids \in Seq(Sessions)
    BY DEF Posts
  <2>. QED  BY <2>1
<1>2. PortIDs(p)' = Append(PortIDs(p), q)
  <2>1. PICK l \in Nat : l = Len(port) /\ DOMAIN port = 1 .. l
    BY DEF TypeInv
  <2>2. /\ DOMAIN port' = 1 .. l + 1 /\ port'[l + 1] = x
        /\ \A k \in 1 .. l : port'[k] = port[k]
    BY <2>1 DEF TypeInv
  <2>3. PICK h \in Seq(Seq(Sessions)) : h = PortIDs(p)
    BY PlacesAre
  <2>4. DOMAIN h = 1 .. l /\ Len(h) = l
    BY <2>1, <2>3 DEF PortIDs
  <2>5. PICK g : g = PortIDs(p)'
    OBVIOUS
  <2>6. g = [k \in 1 .. l + 1 |-> IF k = l + 1 THEN q ELSE h[k]]
    <3>1. g = [k \in 1 .. l + 1 |-> IF port'[k].packet = p THEN port'[k].ids ELSE <<>>]
      BY <2>2, <2>5 DEF PortIDs
    <3>2. ASSUME NEW k \in 1 .. l + 1
          PROVE  (IF port'[k].packet = p THEN port'[k].ids ELSE <<>>)
                   = IF k = l + 1 THEN q ELSE h[k]
      <4>1. CASE k = l + 1
        BY <2>2, <4>1
      <4>2. CASE k # l + 1
        <5>1. k \in 1 .. l
          BY <4>2
        <5>. QED  BY <2>1, <2>2, <2>3, <4>2, <5>1 DEF PortIDs
      <4>. QED  BY <4>1, <4>2
    <3>. QED  BY <3>1, <3>2
  <2>7. g = Append(h, q)
    <3> HIDE DEF q
    <3>. QED  BY <1>1, <2>4, <2>6, AppendIs
  <2>. QED  BY <2>3, <2>5, <2>7
<1>3. Num("port", Append(PortIDs(p), q), S) = Num("port", PortIDs(p), S) + CountIn(q, S)
  <2> HIDE DEF q
  <2>. QED  BY <1>1, PlacesAre, NumAppend
<1>4. CountIn(q, S) = CountOf(x, p, S)
  BY CountNone DEF CountOf
<1>. QED  BY <1>2, <1>3, <1>4

LEMMA PortTaken ==
  ASSUME TypeInv, port # <<>>, port' = Tail(port), NEW p \in Packets, NEW S
  PROVE  /\ Num("port", PortIDs(p), S) = Num("port", PortIDs(p)', S) + CountOf(Head(port), p, S)
         /\ Num("port", PortIDs(p)', S) \in Nat
<1>1. PICK l \in Nat : l = Len(port) /\ l > 0 /\ DOMAIN port = 1 .. l
  BY DEF TypeInv
<1>2. /\ DOMAIN port' = 1 .. l - 1 /\ Head(port) = port[1]
      /\ \A k \in 1 .. l - 1 : port'[k] = port[k + 1]
  BY <1>1 DEF TypeInv
<1>3. PICK h \in Seq(Seq(Sessions)) : h = PortIDs(p)
  BY PlacesAre
<1>4. /\ DOMAIN h = 1 .. l /\ Len(h) = l
      /\ \A k \in 1 .. l : h[k] = IF port[k].packet = p THEN port[k].ids ELSE <<>>
  BY <1>1, <1>3 DEF PortIDs
<1>5. PICK g : g = PortIDs(p)'
  OBVIOUS
<1>6. g = Tail(h)
  <2>1. g = [k \in 1 .. l - 1 |-> h[k + 1]]
    <3>1. g = [k \in 1 .. l - 1 |-> IF port'[k].packet = p THEN port'[k].ids ELSE <<>>]
      BY <1>2, <1>5 DEF PortIDs
    <3>2. ASSUME NEW k \in 1 .. l - 1
          PROVE  (IF port'[k].packet = p THEN port'[k].ids ELSE <<>>) = h[k + 1]
      <4>1. k + 1 \in 1 .. l
        BY <1>1
      <4>. QED  BY <1>2, <1>4, <4>1
    <3>. QED  BY <3>1, <3>2
  <2>2. h # <<>>
    BY <1>1, <1>4
  <2>. QED  BY <1>4, <2>1, <2>2, TailIs
<1>7. h # <<>> /\ h[1] = IF Head(port).packet = p THEN Head(port).ids ELSE <<>>
  BY <1>1, <1>2, <1>4
<1>8. /\ Num("port", h, S) = Num("port", Tail(h), S) + CountIn(h[1], S)
      /\ Num("port", Tail(h), S) \in Nat
  BY <1>7, NumTail
<1>9. CountIn(h[1], S) = CountOf(Head(port), p, S)
  BY <1>7, CountNone DEF CountOf
<1>. QED  BY <1>3, <1>5, <1>6, <1>8, <1>9

LEMMA WorkerMoved ==
  ASSUME TypeInv, NEW w \in Workers, NEW n \in WorkerRecords, worker' = [worker EXCEPT ![w] = n],
         NEW p \in Packets, NEW S
  PROVE  /\ Num("worker", WorkerIDs(p)', S) + CountOf(worker[w], p, S)
              = Num("worker", WorkerIDs(p), S) + CountOf(n, p, S)
         /\ Num("worker", WorkerIDs(p)', S) \in Nat
         /\ CountOf(worker[w], p, S) \in Nat /\ CountOf(n, p, S) \in Nat
<1>1. PICK h : h = WorkerIDs(p)
  OBVIOUS
<1>2. PICK g : g = WorkerIDs(p)'
  OBVIOUS
<1>3. /\ \A v \in Workers : worker'[v] = IF v = w THEN n ELSE worker[v]
      /\ n.ids \in Seq(Sessions) /\ <<>> \in Seq(Sessions)
  BY DEF TypeInv, WorkerRecords
<1>4. /\ DOMAIN g = Workers /\ DOMAIN h = Workers
      /\ \A v \in Workers : v # w => g[v] = h[v]
      /\ g[w] = IF n.packet = p THEN n.ids ELSE <<>>
      /\ h[w] = IF worker[w].packet = p THEN worker[w].ids ELSE <<>>
  BY <1>1, <1>2, <1>3 DEF WorkerIDs
<1>5. Places(h, Sessions) /\ ChangesAt(h, g, w) /\ g[w] \in Seq(Sessions)
  BY <1>1, <1>3, <1>4, PlacesAre DEF ChangesAt
<1>6. Exchanged("worker", h, g, w, S)
  BY <1>5, NumChange
<1>7. CountIn(g[w], S) = CountOf(n, p, S) /\ CountIn(h[w], S) = CountOf(worker[w], p, S)
  BY <1>4, CountNone DEF CountOf
<1>. QED  BY <1>1, <1>2, <1>6, <1>7 DEF Exchanged

(* A worker whose set stays as it is.                                       *)
LEMMA WorkerSame ==
  ASSUME TypeInv, NEW w \in Workers, NEW n \in WorkerRecords, worker' = [worker EXCEPT ![w] = n],
         n.ids = worker[w].ids, n.ids = <<>> \/ n.packet = worker[w].packet, NEW p \in Packets
  PROVE  WorkerIDs(p)' = WorkerIDs(p)
<1>1. \A v \in Workers : worker'[v] = IF v = w THEN n ELSE worker[v]
  BY DEF TypeInv
<1>2. ASSUME NEW v \in Workers
      PROVE  (IF worker'[v].packet = p THEN worker'[v].ids ELSE <<>>)
               = IF worker[v].packet = p THEN worker[v].ids ELSE <<>>
  BY <1>1
<1>. QED  BY <1>2 DEF WorkerIDs

(* A queue of one session changes.                                          *)
Swapped(kind, h, g, i, j, p) ==
  /\ Num(kind, g, {p}) + Copies(p, i) = Num(kind, h, {p}) + Copies(p, j)
  /\ Num(kind, g, {p}) \in Nat /\ Num(kind, h, {p}) \in Nat
  /\ Copies(p, i) \in Nat /\ Copies(p, j) \in Nat

LEMMA QueueChanges ==
  ASSUME NEW h \in [Sessions -> Seq(Packets)], NEW s \in Sessions, NEW q \in Seq(Packets),
         NEW kind, NEW p
  PROVE  /\ Swapped(kind, h, [h EXCEPT ![s] = q], h[s], q, p)
         /\ [h EXCEPT ![s] = q] \in [Sessions -> Seq(Packets)]
<1> DEFINE g == [h EXCEPT ![s] = q]
<1>1. PICK a : a = h
  OBVIOUS
<1>2. PICK b : b = g
  OBVIOUS
<1>3. Places(a, Packets) /\ ChangesAt(a, b, s) /\ b[s] \in Seq(Packets) /\ b[s] = q
  BY <1>1, <1>2, BroadcastAssumption DEF Places, ChangesAt
<1>4. Exchanged(kind, a, b, s, {p})
  BY <1>3, NumChange
<1>5. g \in [Sessions -> Seq(Packets)]
  OBVIOUS
<1>. QED  BY <1>1, <1>2, <1>3, <1>4, <1>5, CopiesAreCounted DEF Exchanged, Swapped

(* A sequence is cut.                                                       *)
LEMMA Cut ==
  ASSUME NEW T, NEW q \in Seq(T), NEW n \in Nat, n > 0, n <= Len(q), NEW S
  PROVE  /\ SubSeq(q, 1, n) \in Seq(T) /\ SubSeq(q, 1, n) # <<>>
         /\ SubSeq(q, n + 1, Len(q)) \in Seq(T)
         /\ CountIn(q, S) = CountIn(SubSeq(q, 1, n), S) + CountIn(SubSeq(q, n + 1, Len(q)), S)
<1>1. PICK l \in Nat : l = Len(q) /\ \A k \in 1 .. l : q[k] \in T
  OBVIOUS
<1>2. /\ 1 \in 1 .. Len(q) + 1 /\ n \in 1 - 1 .. Len(q) /\ Len(q) \in n .. Len(q)
  BY <1>1
<1>3. SubSeq(q, 1, n) \o SubSeq(q, n + 1, Len(q)) = q
  BY <1>2, ConcatAdjacentSubSeq, SubSeqFull
<1>4. SubSeq(q, 1, n) \in Seq(T) /\ Len(SubSeq(q, 1, n)) = n
  <2>1. \A k \in 1 .. n : q[k] \in T
    BY <1>1
  <2>. QED  BY <2>1, SubSeqProperties
<1>5. SubSeq(q, n + 1, Len(q)) \in Seq(T)
  <2>1. \A k \in n + 1 .. l : q[k] \in T
    BY <1>1
  <2>. QED  BY <1>1, <2>1, SubSeqProperties
<1>6. PICK a \in Seq(T) : a = SubSeq(q, 1, n)
  BY <1>4
<1>7. PICK b \in Seq(T) : b = SubSeq(q, n + 1, Len(q))
  BY <1>5
<1>8. CountIn(a \o b, S) = CountIn(a, S) + CountIn(b, S) /\ a \o b = q
  BY <1>3, <1>6, <1>7, CountJoin
<1>9. a # <<>>
  BY <1>4, <1>6
<1>. QED  BY <1>6, <1>7, <1>8, <1>9

-------------------------------------------------------------------------------
(***************************************************************************)
(* Steps that leave the copies where they are, or move them from one place *)
(* to another.                                                             *)
(***************************************************************************)
WayKept == \A p \in Packets : \A S : OnTheWay(p, S)' = OnTheWay(p, S)

LEMMA Stays ==
  ASSUME \A p \in Packets : work'[p].ids = work[p].ids /\ WorkerIDs(p)' = WorkerIDs(p),
         port' = port
  PROVE  WayKept
<1>1. \A p \in Packets : PortIDs(p)' = PortIDs(p)
  BY DEF PortIDs
<1>. QED  BY <1>1 DEF WayKept, OnTheWay

LEMMA SameWorkers ==
  ASSUME worker' = worker, NEW p
  PROVE  WorkerIDs(p)' = WorkerIDs(p)
BY DEF WorkerIDs

LEMMA SamePort ==
  ASSUME port' = port, NEW p
  PROVE  PortIDs(p)' = PortIDs(p)
BY DEF PortIDs

LEMMA RefQuiet ==
  ASSUME RefInv, WayKept, UNCHANGED <<refCnt, owned, sendQ, sentQ>>
  PROVE  RefInv'
BY DEF RefInv, WayKept, Made, InQ

LEMMA Quiet ==
  ASSUME Inv, TypeInv', RefInv', WayKept, UNCHANGED <<message, fresh, owed>>, owned' \subseteq owned
  PROVE  Inv'
<1>1. MessageInv'
  BY DEF Inv, MessageInv
<1>2. LiveInv'
  BY DEF Inv, LiveInv, WayKept
<1>3. OwedInv'
  BY DEF Inv, OwedInv, WayKept
<1>. QED  BY <1>1, <1>2, <1>3 DEF Inv

(* A packet that is owned, or is on its way, has a message.                 *)
LEMMA Counted ==
  ASSUME Inv, NEW p \in Packets
  PROVE  /\ Made(p) \in {0, 1} /\ OnTheWay(p, Sessions) \in Nat /\ InQ(p) \in Nat
         /\ refCnt[p] = Made(p) + OnTheWay(p, Sessions) + InQ(p)
         /\ refCnt[p] = 0 => Made(p) = 0 /\ OnTheWay(p, Sessions) = 0 /\ InQ(p) = 0
<1>1. /\ Made(p) \in {0, 1} /\ OnTheWay(p, Sessions) \in Nat /\ InQ(p) \in Nat
      /\ refCnt[p] = Made(p) + OnTheWay(p, Sessions) + InQ(p)
  BY CopiesSplit, QueuesSplit DEF Inv, RefInv, Made
<1>2. PICK a \in {0, 1} : a = Made(p)
  BY <1>1
<1>3. PICK b \in Nat : b = OnTheWay(p, Sessions)
  BY <1>1
<1>4. PICK c \in Nat : c = InQ(p)
  BY <1>1
<1>5. a + b + c = 0 => a = 0 /\ b = 0 /\ c = 0
  OBVIOUS
<1>. QED  BY <1>1, <1>2, <1>3, <1>4, <1>5

LEMMA CopiesOfOne ==
  ASSUME NEW p \in Packets
  PROVE  <<p>> \in Seq(Packets) /\ \A q \in Packets : Copies(q, <<p>>) = IF q = p THEN 1 ELSE 0
<1>1. ASSUME NEW q \in Packets PROVE Copies(q, <<p>>) = IF q = p THEN 1 ELSE 0
  <2>1. Copies(q, <<p>>) = CountIn(<<p>>, {q})
    BY CopiesAreCounted
  <2>2. CountIn(<<p>>, {q}) = IF p \in {q} THEN 1 ELSE 0
    BY CountOne
  <2>. QED  BY <2>1, <2>2
<1>. QED  BY <1>1

LEMMA FreedIs ==
  ASSUME TypeInv, NEW q \in Seq(Packets), refCnt' = Freed(q)
  PROVE  /\ refCnt' \in [Packets -> Int]
         /\ \A p \in Packets : refCnt'[p] = refCnt[p] - Copies(p, q) /\ Copies(p, q) \in Nat
<1>1. ASSUME NEW p \in Packets PROVE Copies(p, q) \in Nat
  BY CopiesAreCounted, CountType
<1>2. \A p \in Packets : refCnt[p] - Copies(p, q) \in Int
  BY <1>1 DEF TypeInv
<1>. QED  BY <1>1, <1>2 DEF Freed

LEMMA AllocInv ==
  ASSUME Inv, NEW p \in Packets, NEW m \in Messages, Alloc(p, m)
  PROVE  Inv'
<1>1. /\ refCnt[p] = 0 /\ m \in fresh /\ m # NULL
      /\ refCnt' = [refCnt EXCEPT ![p] = 1] /\ message' = [message EXCEPT ![p] = m]
      /\ owned' = owned \union {p} /\ fresh' = fresh \ {m}
      /\ UNCHANGED <<work, port, worker, connection, sendQ, sentQ, isSending, io, calls, owed>>
  BY BroadcastAssumption DEF Alloc, session
<1>2. TypeInv'
  BY <1>1 DEF Inv, TypeInv
<1>3. WayKept
  BY <1>1, Stays, SameWorkers
<1>4. Made(p) = 0 /\ OnTheWay(p, Sessions) = 0 /\ InQ(p) = 0
  BY <1>1, Counted
<1>5. /\ \A q \in Packets : q # p => message'[q] = message[q] /\ refCnt'[q] = refCnt[q]
      /\ message'[p] = m /\ refCnt'[p] = 1
  BY <1>1 DEF Inv, TypeInv
<1>6. \A q \in Packets : message[q] # m
  BY <1>1 DEF Inv, MessageInv
<1>7. RefInv'
  <2> SUFFICES ASSUME NEW q \in Packets
               PROVE  refCnt'[q] = Made(q)' + OnTheWay(q, Sessions)' + InQ(q)'
    BY DEF RefInv
  <2>1. OnTheWay(q, Sessions)' = OnTheWay(q, Sessions) /\ InQ(q)' = InQ(q)
    BY <1>1, <1>3 DEF WayKept, InQ
  <2>2. CASE q = p
    <3>1. Made(p)' = 1
      BY <1>1 DEF Made
    <3>. QED  BY <1>4, <1>5, <2>1, <2>2, <3>1
  <2>3. CASE q # p
    <3>1. Made(q)' = Made(q)
      BY <1>1, <2>3 DEF Made
    <3>. QED  BY <1>5, <2>1, <2>3, <3>1 DEF Inv, RefInv
  <2>. QED  BY <2>2, <2>3
<1>8. MessageInv'
  BY <1>1, <1>5, <1>6 DEF Inv, MessageInv
<1>9. LiveInv'
  BY <1>1, <1>3, <1>5 DEF Inv, LiveInv, WayKept
<1>10. \A s \in Sessions : OnTheWay(p, {s}) = 0
  BY <1>4, NoneForAny DEF Inv
<1>11. OwedInv'
  <2>1. ASSUME NEW q \in Packets, NEW s \in Sessions, message'[q] # NULL
        PROVE  owed'[message'[q]][s] = OnTheWay(q, {s})'
    <3>1. OnTheWay(q, {s})' = OnTheWay(q, {s})
      BY <1>3 DEF WayKept
    <3>2. CASE q = p
      <4>1. owed[m][s] = 0
        BY <1>6 DEF Inv, OwedInv
      <4>. QED  BY <1>1, <1>5, <1>10, <3>1, <3>2, <4>1
    <3>3. CASE q # p
      <4>1. message[q] # NULL /\ message'[q] = message[q]
        BY <1>5, <2>1, <3>3
      <4>. QED  BY <1>1, <3>1, <4>1 DEF Inv, OwedInv
    <3>. QED  BY <3>2, <3>3
  <2>2. ASSUME NEW x \in Messages, NEW s \in Sessions, \A q \in Packets : message'[q] # x
        PROVE  owed'[x][s] = 0
    <3>1. CASE message[p] = x
      <4>1. x # NULL
        BY BroadcastAssumption
      <4>. QED  BY <1>1, <1>10, <3>1, <4>1 DEF Inv, OwedInv
    <3>2. CASE message[p] # x
      <4>1. \A q \in Packets : message[q] # x
        BY <1>5, <2>2, <3>2
      <4>. QED  BY <1>1, <4>1 DEF Inv, OwedInv
    <3>. QED  BY <3>1, <3>2
  <2>. QED  BY <2>1, <2>2 DEF OwedInv
<1>. QED  BY <1>2, <1>7, <1>8, <1>9, <1>11 DEF Inv

LEMMA FreeInv ==
  ASSUME Inv, NEW p \in Packets, Free(p)
  PROVE  Inv'
<1>1. /\ p \in owned /\ owned' = owned \ {p} /\ refCnt' = Freed(<<p>>)
      /\ UNCHANGED <<message, work, port, worker, sendQ, sentQ, fresh, owed>>
  BY DEF Free, session
<1>2. <<p>> \in Seq(Packets) /\ \A q \in Packets : Copies(q, <<p>>) = IF q = p THEN 1 ELSE 0
  BY CopiesOfOne
<1>3. /\ refCnt' \in [Packets -> Int]
      /\ \A q \in Packets : refCnt'[q] = refCnt[q] - (IF q = p THEN 1 ELSE 0)
  <2>1. PICK x \in Seq(Packets) : x = <<p>>
    BY <1>2
  <2>2. refCnt' \in [Packets -> Int] /\ \A q \in Packets : refCnt'[q] = refCnt[q] - Copies(q, x)
    BY <1>1, <2>1, FreedIs DEF Inv
  <2>. QED  BY <1>2, <2>1, <2>2
<1>4. TypeInv'
  BY <1>1, <1>3 DEF Inv, TypeInv
<1>5. WayKept
  BY <1>1, Stays, SameWorkers
<1>6. RefInv'
  <2> SUFFICES ASSUME NEW q \in Packets
               PROVE  refCnt'[q] = Made(q)' + OnTheWay(q, Sessions)' + InQ(q)'
    BY DEF RefInv
  <2>1. OnTheWay(q, Sessions)' = OnTheWay(q, Sessions) /\ InQ(q)' = InQ(q)
    BY <1>1, <1>5 DEF WayKept, InQ
  <2>2. Made(q)' = Made(q) - (IF q = p THEN 1 ELSE 0)
    BY <1>1 DEF Made
  <2>. QED  BY <1>3, <2>1, <2>2, Counted
<1>. QED  BY <1>1, <1>4, <1>5, <1>6, Quiet

LEMMA SendSetInv ==
  ASSUME Inv, NEW p \in Packets, NEW ids \in IDSets, NEW kind \in {"send", "last"},
         SendSet(p, ids, kind)
  PROVE  Inv'
<1>1. /\ p \in owned /\ work[p] = NoWork /\ refCnt' = [refCnt EXCEPT ![p] = @ + Len(ids)]
      /\ Owe(p, ids)
      /\ work' = [work EXCEPT ![p] =
                    [kind |-> kind, ids |-> ids, num |-> DistributeNum(Len(ids))]]
      /\ UNCHANGED <<message, owned, port, worker, sendQ, sentQ, fresh>>
  BY DEF SendSet, MayCall, session
<1>2. PICK m \in Messages : m = message[p] /\ m # NULL
  BY <1>1 DEF Inv, LiveInv, TypeInv
<1>3. PICK q \in Seq(Sessions) : q = ids
  BY BroadcastAssumption
<1>4. PICK l \in Nat : l = Len(q)
  BY <1>3
<1>5. owed' = [owed EXCEPT ![m] = [s \in Sessions |-> owed[m][s] + Copies(s, q)]]
  BY <1>1, <1>2, <1>3 DEF Owe
<1>6. \A s \in Sessions : Copies(s, q) = CountIn(q, {s}) /\ Copies(s, q) \in Nat
  BY CopiesAreCounted, CountType
<1>7. /\ owed' \in [Messages -> [Sessions -> Int]]
      /\ \A s \in Sessions : owed'[m][s] = owed[m][s] + CountIn(q, {s})
      /\ \A x \in Messages : x # m => owed'[x] = owed[x]
  <2> DEFINE row == [s \in Sessions |-> owed[m][s] + Copies(s, q)]
  <2>1. owed \in [Messages -> [Sessions -> Int]]
    BY DEF Inv, TypeInv
  <2>2. row \in [Sessions -> Int] /\ \A s \in Sessions : row[s] = owed[m][s] + CountIn(q, {s})
    <3>1. owed[m] \in [Sessions -> Int]
      BY <2>1
    <3>2. ASSUME NEW s \in Sessions PROVE owed[m][s] + Copies(s, q) \in Int
      <4>1. PICK i \in Int : i = owed[m][s]
        BY <3>1
      <4>2. PICK c \in Nat : c = Copies(s, q)
        BY <1>6
      <4>. QED  BY <4>1, <4>2
    <3>. QED  BY <1>6, <3>2
  <2>3. owed' = [owed EXCEPT ![m] = row]
    BY <1>5
  <2> HIDE DEF row
  <2>. QED  BY <2>1, <2>2, <2>3
<1>8. DistributeNum(l) \in Nat /\ DistributeNum(l) > 0
  BY BroadcastAssumption DEF DistributeNum
<1> DEFINE r == [kind |-> kind, ids |-> q, num |-> DistributeNum(l)]
<1>9. r \in WorkRecords /\ WorkOK(r) /\ r.ids = q
  BY <1>8 DEF WorkRecords, WorkOK
<1>10. work' = [work EXCEPT ![p] = r]
  BY <1>1, <1>3, <1>4
<1> HIDE DEF r
<1>11. TypeInv'
  BY <1>1, <1>3, <1>4, <1>7, <1>9, <1>10 DEF Inv, TypeInv
<1>12. \A x \in Packets : \A S : OnTheWay(x, S)' = OnTheWay(x, S) + (IF x = p THEN CountIn(q, S) ELSE 0)
  <2> SUFFICES ASSUME NEW x \in Packets, NEW S
               PROVE  OnTheWay(x, S)' = OnTheWay(x, S) + (IF x = p THEN CountIn(q, S) ELSE 0)
    OBVIOUS
  <2>1. PortIDs(x)' = PortIDs(x) /\ WorkerIDs(x)' = WorkerIDs(x)
    BY <1>1, SamePort, SameWorkers
  <2>2. work'[x].ids = IF x = p THEN q ELSE work[x].ids
    BY <1>9, <1>10 DEF Inv, TypeInv
  <2>3. /\ CountIn(work[x].ids, S) \in Nat /\ Num("port", PortIDs(x), S) \in Nat
        /\ Num("worker", WorkerIDs(x), S) \in Nat /\ CountIn(q, S) \in Nat
    BY CopiesSplit, CountType DEF Inv
  <2>4. x = p => CountIn(work[x].ids, S) = 0
    BY <1>1, NoWorkIs, CountNone
  <2>. QED  BY <2>1, <2>2, <2>3, <2>4 DEF OnTheWay
<1>13. RefInv'
  <2> SUFFICES ASSUME NEW x \in Packets
               PROVE  refCnt'[x] = Made(x)' + OnTheWay(x, Sessions)' + InQ(x)'
    BY DEF RefInv
  <2>1. refCnt'[x] = refCnt[x] + (IF x = p THEN CountIn(q, Sessions) ELSE 0)
    BY <1>1, <1>3, CountAll DEF Inv, TypeInv
  <2>2. Made(x)' = Made(x) /\ InQ(x)' = InQ(x)
    BY <1>1 DEF Made, InQ
  <2>3. OnTheWay(x, Sessions)' = OnTheWay(x, Sessions) + (IF x = p THEN CountIn(q, Sessions) ELSE 0)
    BY <1>12
  <2>4. CountIn(q, Sessions) \in Nat
    BY CountType
  <2>. QED  BY <2>1, <2>2, <2>3, <2>4, Counted
<1>14. MessageInv'
  BY <1>1 DEF Inv, MessageInv
<1>15. LiveInv'
  <2> SUFFICES ASSUME NEW x \in Packets, message[x] = NULL
               PROVE  x \notin owned /\ OnTheWay(x, Sessions)' = 0
    BY <1>1 DEF LiveInv
  <2>1. x \notin owned /\ OnTheWay(x, Sessions) = 0
    BY DEF Inv, LiveInv
  <2>2. x # p
    BY <1>1, <2>1
  <2>. QED  BY <1>12, <2>1, <2>2
<1>16. OwedInv'
  <2>1. ASSUME NEW x \in Packets, NEW s \in Sessions, message[x] # NULL
        PROVE  owed'[message[x]][s] = OnTheWay(x, {s})'
    <3>1. /\ owed[message[x]][s] = OnTheWay(x, {s})
          /\ OnTheWay(x, {s})' = OnTheWay(x, {s}) + (IF x = p THEN CountIn(q, {s}) ELSE 0)
      BY <1>12, <2>1 DEF Inv, OwedInv
    <3>2. CASE x = p
      BY <1>2, <1>7, <3>1, <3>2
    <3>3. CASE x # p
      <4>1. message[x] # m /\ message[x] \in Messages
        BY <1>2, <2>1, <3>3 DEF Inv, MessageInv, TypeInv
      <4>2. OnTheWay(x, {s}) \in Nat
        BY CopiesSplit DEF Inv
      <4>. QED  BY <1>7, <3>1, <3>3, <4>1, <4>2
    <3>. QED  BY <3>2, <3>3
  <2>2. ASSUME NEW x \in Messages, NEW s \in Sessions, \A y \in Packets : message[y] # x
        PROVE  owed'[x][s] = 0
    <3>1. x # m
      BY <1>2, <2>2
    <3>. QED  BY <1>7, <2>2, <3>1 DEF Inv, OwedInv
  <2>. QED  BY <1>1, <2>1, <2>2 DEF OwedInv
<1>. QED  BY <1>11, <1>13, <1>14, <1>15, <1>16 DEF Inv

LEMMA PostChunkInv ==
  ASSUME Inv, NEW p \in Packets, PostChunk(p)
  PROVE  Inv'
<1>1. PICK i \in Seq(Sessions) : i = work[p].ids
  BY PlacesAre DEF Inv
<1>2. PICK n \in Nat : n = work[p].num /\ n > 0 /\ n <= Len(i)
  BY <1>1 DEF PostChunk, Inv, TypeInv, WorkRecords, WorkOK
<1>3. PICK a \in Seq(Sessions) : a = SubSeq(i, 1, n) /\ a # <<>>
  BY <1>2, Cut
<1>4. PICK b \in Seq(Sessions) : b = SubSeq(i, n + 1, Len(i))
  BY <1>2, Cut
<1>5. \A S : CountIn(i, S) = CountIn(a, S) + CountIn(b, S)
  BY <1>2, <1>3, <1>4, Cut
<1> DEFINE x == Chunk(p, a)
           r == [work[p] EXCEPT !.ids = b]
<1>6. /\ work[p] # NoWork /\ port' = Append(port, x) /\ work' = [work EXCEPT ![p] = r]
      /\ UNCHANGED <<refCnt, message, owned, worker, sendQ, sentQ, fresh, owed>>
  <2>1. work' = [work EXCEPT ![p].ids = b]
    BY <1>1, <1>2, <1>4 DEF PostChunk
  <2>2. work' = [work EXCEPT ![p] = r]
    BY <2>1, Zenon
  <2>. QED  BY <1>1, <1>2, <1>3, <2>2 DEF PostChunk, packets, session
<1>7. r \in WorkRecords /\ WorkOK(r) /\ r.ids = b
  BY <1>6, RestIs DEF Inv, TypeInv
<1>8. x \in Posts /\ PostOK(x) /\ x.packet = p /\ x.ids = a
  BY <1>3, <1>6, BroadcastAssumption DEF Inv, TypeInv, WorkRecords, WorkOK, Chunk, Posts, PostOK
<1> HIDE DEF x, r
<1>9. TypeInv'
  <2>1. /\ port' \in Seq(Posts) /\ \A k \in DOMAIN port' : PostOK(port'[k])
    BY <1>6, <1>8, PortTypeAppended DEF Inv
  <2>2. work' \in [Packets -> WorkRecords] /\ \A q \in Packets : WorkOK(work'[q])
    BY <1>6, <1>7 DEF Inv, TypeInv
  <2>. QED  BY <1>6, <2>1, <2>2 DEF Inv, TypeInv
<1>10. WayKept
  <2> SUFFICES ASSUME NEW q \in Packets, NEW S PROVE OnTheWay(q, S)' = OnTheWay(q, S)
    BY DEF WayKept
  <2>1. WorkerIDs(q)' = WorkerIDs(q)
    BY <1>6, SameWorkers
  <2>2. Num("port", PortIDs(q)', S) = Num("port", PortIDs(q), S) + CountOf(x, q, S)
    BY <1>6, <1>8, PortAppended DEF Inv
  <2>3. work'[q].ids = IF q = p THEN b ELSE work[q].ids
    BY <1>6, <1>7 DEF Inv, TypeInv
  <2>4. /\ CountIn(work[q].ids, S) \in Nat /\ Num("port", PortIDs(q), S) \in Nat
        /\ Num("worker", WorkerIDs(q), S) \in Nat
        /\ CountIn(a, S) \in Nat /\ CountIn(b, S) \in Nat
    BY CopiesSplit, CountType DEF Inv
  <2>5. CountOf(x, q, S) = IF q = p THEN CountIn(a, S) ELSE 0
    BY <1>8 DEF CountOf
  <2>. QED  BY <1>1, <1>5, <2>1, <2>2, <2>3, <2>4, <2>5 DEF OnTheWay
<1>11. RefInv'
  BY <1>6, <1>10, RefQuiet DEF Inv
<1>. QED  BY <1>6, <1>9, <1>10, <1>11, Quiet

LEMMA PostRestInv ==
  ASSUME Inv, NEW p \in Packets, PostRest(p)
  PROVE  Inv'
<1>1. PICK i \in Seq(Sessions) : i = work[p].ids
  BY PlacesAre DEF Inv
<1> DEFINE x == Chunk(p, i)
<1>2. /\ work[p] # NoWork /\ port' = IF i = <<>> THEN port ELSE Append(port, x)
      /\ work' = [work EXCEPT ![p] = NoWork]
      /\ UNCHANGED <<refCnt, message, owned, worker, sendQ, sentQ, fresh, owed>>
  BY <1>1 DEF PostRest, packets, session
<1>3. x \in Posts /\ (i # <<>> => PostOK(x)) /\ x.packet = p /\ x.ids = i
  BY <1>2, BroadcastAssumption DEF Inv, TypeInv, WorkRecords, WorkOK, Chunk, Posts, PostOK
<1> HIDE DEF x
<1>4. TypeInv'
  <2>1. /\ port' \in Seq(Posts) /\ \A k \in DOMAIN port' : PostOK(port'[k])
    <3>1. CASE i = <<>>
      BY <1>2, <3>1 DEF Inv, TypeInv
    <3>2. CASE i # <<>>
      BY <1>2, <1>3, <3>2, PortTypeAppended DEF Inv
    <3>. QED  BY <3>1, <3>2
  <2>2. work' \in [Packets -> WorkRecords] /\ \A q \in Packets : WorkOK(work'[q])
    BY <1>2, NoWorkIs DEF Inv, TypeInv
  <2>. QED  BY <1>2, <2>1, <2>2 DEF Inv, TypeInv
<1>5. WayKept
  <2> SUFFICES ASSUME NEW q \in Packets, NEW S PROVE OnTheWay(q, S)' = OnTheWay(q, S)
    BY DEF WayKept
  <2>1. WorkerIDs(q)' = WorkerIDs(q)
    BY <1>2, SameWorkers
  <2>2. Num("port", PortIDs(q)', S) = Num("port", PortIDs(q), S) + CountOf(x, q, S)
    <3>1. CASE i = <<>>
      <4>1. CountOf(x, q, S) = 0
        BY <1>3, <3>1, CountNone DEF CountOf
      <4>2. PortIDs(q)' = PortIDs(q)
        BY <1>2, <3>1, SamePort
      <4>3. Num("port", PortIDs(q), S) \in Nat
        BY CopiesSplit DEF Inv
      <4>. QED  BY <4>1, <4>2, <4>3
    <3>2. CASE i # <<>>
      BY <1>2, <1>3, <3>2, PortAppended DEF Inv
    <3>. QED  BY <3>1, <3>2
  <2>3. CountIn(work'[q].ids, S) = IF q = p THEN 0 ELSE CountIn(work[q].ids, S)
    <3>1. work'[q].ids = IF q = p THEN <<>> ELSE work[q].ids
      BY <1>2, NoWorkIs DEF Inv, TypeInv
    <3>. QED  BY <3>1, CountNone
  <2>4. /\ CountIn(work[q].ids, S) \in Nat /\ Num("port", PortIDs(q), S) \in Nat
        /\ Num("worker", WorkerIDs(q), S) \in Nat /\ CountIn(i, S) \in Nat
    BY CopiesSplit, CountType DEF Inv
  <2>5. CountOf(x, q, S) = IF q = p THEN CountIn(i, S) ELSE 0
    BY <1>3 DEF CountOf
  <2>. QED  BY <1>1, <2>1, <2>2, <2>3, <2>4, <2>5 DEF OnTheWay
<1>6. RefInv'
  BY <1>2, <1>5, RefQuiet DEF Inv
<1>. QED  BY <1>2, <1>4, <1>5, <1>6, Quiet

(* A post that no packet is in.                                             *)
LEMMA SignAppended ==
  ASSUME TypeInv, NEW s \in Sessions,
         port' = Append(port, [kind |-> "sign", packet |-> NULL, ids |-> <<s>>]), NEW p \in Packets
  PROVE  /\ port' \in Seq(Posts) /\ \A k \in DOMAIN port' : PostOK(port'[k])
         /\ \A S : Num("port", PortIDs(p)', S) = Num("port", PortIDs(p), S)
<1> DEFINE x == [kind |-> "sign", packet |-> NULL, ids |-> <<s>>]
<1>1. x \in Posts /\ PostOK(x) /\ x.packet = NULL
  BY DEF Posts, PostOK
<1>2. port' = Append(port, x)
  OBVIOUS
<1>3. p # NULL
  BY BroadcastAssumption
<1> HIDE DEF x
<1>4. /\ port' \in Seq(Posts) /\ \A k \in DOMAIN port' : PostOK(port'[k])
  BY <1>1, <1>2, PortTypeAppended
<1>5. ASSUME NEW S PROVE Num("port", PortIDs(p)', S) = Num("port", PortIDs(p), S)
  <2>1. Num("port", PortIDs(p)', S) = Num("port", PortIDs(p), S) + CountOf(x, p, S)
    BY <1>1, <1>2, PortAppended
  <2>2. CountOf(x, p, S) = 0
    BY <1>1, <1>3 DEF CountOf
  <2>3. Num("port", PortIDs(p), S) \in Nat
    BY CopiesSplit
  <2>. QED  BY <2>1, <2>2, <2>3
<1>. QED  BY <1>4, <1>5

(* A packet is linked into the queue of a session.                          *)
LEMMA Linked ==
  ASSUME TypeInv, NEW p \in Packets, NEW s \in Sessions,
         sendQ' = [sendQ EXCEPT ![s] = Append(@, p)], sentQ' = sentQ
  PROVE  /\ sendQ' \in [Sessions -> Seq(Packets)]
         /\ \A q \in Packets : InQ(q)' = InQ(q) + (IF q = p THEN 1 ELSE 0)
<1>1. PICK a \in Seq(Packets) : a = sendQ[s]
  BY DEF TypeInv
<1>2. PICK b \in Seq(Packets) : b = Append(a, p)
  BY AppendProperties
<1>3. sendQ' = [sendQ EXCEPT ![s] = b] /\ sendQ \in [Sessions -> Seq(Packets)]
  BY <1>1, <1>2 DEF TypeInv
<1>4. sendQ' \in [Sessions -> Seq(Packets)]
  BY <1>3
<1>5. ASSUME NEW q \in Packets
      PROVE  InQ(q)' = InQ(q) + (IF q = p THEN 1 ELSE 0)
  <2>1. PICK g : g = sendQ'
    OBVIOUS
  <2>2. Swapped("send", sendQ, g, sendQ[s], b, q)
    <3>1. Swapped("send", sendQ, [sendQ EXCEPT ![s] = b], sendQ[s], b, q)
      BY <1>3, QueueChanges
    <3>. QED  BY <1>3, <2>1, <3>1
  <2>3. Copies(q, b) = Copies(q, a) + (IF q = p THEN 1 ELSE 0)
    <3>1. CountIn(b, {q}) = CountIn(a, {q}) + (IF p \in {q} THEN 1 ELSE 0)
      BY <1>2, CountAppend
    <3>. QED  BY <3>1, CopiesAreCounted
  <2>4. Num("send", g, {q}) = Num("send", sendQ, {q}) + (IF q = p THEN 1 ELSE 0)
    BY <1>1, <2>2, <2>3 DEF Swapped
  <2>5. Num("sent", sentQ, {q}) \in Nat
    BY QueuesSplit
  <2>. QED  BY <2>1, <2>2, <2>4, <2>5 DEF InQ, Swapped
<1>. QED  BY <1>4, <1>5

LEMMA AsyncSendPacketInv ==
  ASSUME Inv, NEW p \in Packets, NEW s \in Sessions, AsyncSendPacket(p, s)
  PROVE  Inv'
<1>1. p \in owned /\ UNCHANGED <<work, worker, fresh, owed, message, owned, sentQ>>
  BY DEF AsyncSendPacket, MayCall, packets, session
<1>2. CASE UNCHANGED <<refCnt, port, sendQ>>
  <2>1. TypeInv'
    BY <1>1, <1>2 DEF Inv, TypeInv
  <2>2. WayKept
    BY <1>1, <1>2, Stays, SameWorkers
  <2>3. RefInv'
    BY <1>1, <1>2, <2>2, RefQuiet DEF Inv
  <2>. QED  BY <1>1, <2>1, <2>2, <2>3, Quiet
<1>3. CASE /\ refCnt' = [refCnt EXCEPT ![p] = @ + 1]
           /\ sendQ' = [sendQ EXCEPT ![s] = Append(@, p)]
           /\ port' = IF isSending[s] THEN port
                      ELSE Append(port, [kind |-> "sign", packet |-> NULL, ids |-> <<s>>])
  <2>1. /\ sendQ' \in [Sessions -> Seq(Packets)]
        /\ \A q \in Packets : InQ(q)' = InQ(q) + (IF q = p THEN 1 ELSE 0)
    BY <1>1, <1>3, Linked DEF Inv
  <2>2. /\ port' \in Seq(Posts) /\ \A k \in DOMAIN port' : PostOK(port'[k])
        /\ \A q \in Packets : \A S : Num("port", PortIDs(q)', S) = Num("port", PortIDs(q), S)
    <3>1. CASE isSending[s]
      <4>1. port' = port
        BY <1>3, <3>1
      <4>2. \A q \in Packets : PortIDs(q)' = PortIDs(q)
        BY <4>1, SamePort
      <4>. QED  BY <4>1, <4>2 DEF Inv, TypeInv
    <3>2. CASE ~isSending[s]
      <4>1. port' = Append(port, [kind |-> "sign", packet |-> NULL, ids |-> <<s>>])
        BY <1>3, <3>2
      <4>. QED  BY <4>1, SignAppended DEF Inv
    <3>. QED  BY <3>1, <3>2
  <2>3. TypeInv'
    <3>1. refCnt' \in [Packets -> Int]
      BY <1>3 DEF Inv, TypeInv
    <3>. QED  BY <1>1, <2>1, <2>2, <3>1 DEF Inv, TypeInv
  <2>4. WayKept
    <3>1. \A q \in Packets : WorkerIDs(q)' = WorkerIDs(q)
      BY <1>1, SameWorkers
    <3>. QED  BY <1>1, <2>2, <3>1 DEF WayKept, OnTheWay
  <2>5. RefInv'
    <3> SUFFICES ASSUME NEW q \in Packets
                 PROVE  refCnt'[q] = Made(q)' + OnTheWay(q, Sessions)' + InQ(q)'
      BY DEF RefInv
    <3>1. refCnt'[q] = refCnt[q] + (IF q = p THEN 1 ELSE 0)
      BY <1>3 DEF Inv, TypeInv
    <3>2. Made(q)' = Made(q) /\ OnTheWay(q, Sessions)' = OnTheWay(q, Sessions)
      BY <1>1, <2>4 DEF Made, WayKept
    <3>3. InQ(q)' = InQ(q) + (IF q = p THEN 1 ELSE 0)
      BY <2>1
    <3>4. /\ Made(q) \in {0, 1} /\ OnTheWay(q, Sessions) \in Nat /\ InQ(q) \in Nat
          /\ refCnt[q] = Made(q) + OnTheWay(q, Sessions) + InQ(q)
      BY Counted
    <3>. QED  BY <3>1, <3>2, <3>3, <3>4
  <2>. QED  BY <1>1, <2>3, <2>4, <2>5, Quiet
<1>. QED  BY <1>2, <1>3 DEF AsyncSendPacket, packets, session

-------------------------------------------------------------------------------
(***************************************************************************)
(* Workers and sessions.                                                   *)
(***************************************************************************)
LEMMA WorkerTyped ==
  ASSUME TypeInv, NEW w \in Workers, NEW n \in WorkerRecords, WorkerOK(n),
         worker' = [worker EXCEPT ![w] = n]
  PROVE  worker' \in [Workers -> WorkerRecords] /\ \A v \in Workers : WorkerOK(worker'[v])
BY DEF TypeInv

LEMMA WorkerStays ==
  ASSUME TypeInv, NEW w \in Workers, NEW n \in WorkerRecords, WorkerOK(n),
         n.ids = worker[w].ids, n.ids = <<>> \/ n.packet = worker[w].packet,
         worker' = [worker EXCEPT ![w] = n], UNCHANGED <<work, port>>
  PROVE  /\ worker' \in [Workers -> WorkerRecords] /\ \A v \in Workers : WorkerOK(worker'[v])
         /\ WayKept
<1>1. worker' \in [Workers -> WorkerRecords] /\ \A v \in Workers : WorkerOK(worker'[v])
  BY WorkerTyped
<1>2. \A p \in Packets : WorkerIDs(p)' = WorkerIDs(p)
  BY WorkerSame
<1>. QED  BY <1>1, <1>2, Stays

(* Packets of queues are freed.                                             *)
QueuesFreed ==
  /\ refCnt' \in [Packets -> Int]
  /\ sendQ' \in [Sessions -> Seq(Packets)] /\ sentQ' \in [Sessions -> Seq(Packets)]
  /\ \A q \in Packets : \E c \in Nat : refCnt'[q] = refCnt[q] - c /\ InQ(q)' = InQ(q) - c

LEMMA RefFreed ==
  ASSUME Inv, QueuesFreed, WayKept, owned' = owned
  PROVE  RefInv'
<1> SUFFICES ASSUME NEW q \in Packets
             PROVE  refCnt'[q] = Made(q)' + OnTheWay(q, Sessions)' + InQ(q)'
  BY DEF RefInv
<1>1. PICK c \in Nat : refCnt'[q] = refCnt[q] - c /\ InQ(q)' = InQ(q) - c
  BY DEF QueuesFreed
<1>2. Made(q)' = Made(q) /\ OnTheWay(q, Sessions)' = OnTheWay(q, Sessions)
  BY DEF Made, WayKept
<1>3. /\ Made(q) \in {0, 1} /\ OnTheWay(q, Sessions) \in Nat /\ InQ(q) \in Nat
      /\ refCnt[q] = Made(q) + OnTheWay(q, Sessions) + InQ(q)
  BY Counted
<1>. QED  BY <1>1, <1>2, <1>3

LEMMA NothingFreed ==
  ASSUME TypeInv, UNCHANGED <<refCnt, sendQ, sentQ>>
  PROVE  QueuesFreed
<1>1. refCnt' \in [Packets -> Int]
      /\ sendQ' \in [Sessions -> Seq(Packets)] /\ sentQ' \in [Sessions -> Seq(Packets)]
  BY DEF TypeInv
<1>2. ASSUME NEW q \in Packets
      PROVE  refCnt'[q] = refCnt[q] - 0 /\ InQ(q)' = InQ(q) - 0
  <2>1. InQ(q)' = InQ(q)
    BY DEF InQ
  <2>2. InQ(q) \in Nat
    BY QueuesSplit
  <2>3. refCnt[q] \in Int
    BY DEF TypeInv
  <2>. QED  BY <2>1, <2>2, <2>3
<1>3. 0 \in Nat
  OBVIOUS
<1>. QED  BY <1>1, <1>2, <1>3 DEF QueuesFreed

(* Two queues of a session get new contents, and r is freed.                *)
LEMMA Requeued ==
  ASSUME TypeInv, NEW s \in Sessions, NEW i \in Seq(Packets), NEW j \in Seq(Packets),
         sendQ' = [sendQ EXCEPT ![s] = i], sentQ' = [sentQ EXCEPT ![s] = j],
         NEW r \in Seq(Packets), refCnt' = Freed(r),
         \A q \in Packets : Copies(q, sendQ[s]) + Copies(q, sentQ[s])
                              = Copies(q, i) + Copies(q, j) + Copies(q, r)
  PROVE  QueuesFreed
<1>1. /\ refCnt' \in [Packets -> Int]
      /\ \A q \in Packets : refCnt'[q] = refCnt[q] - Copies(q, r) /\ Copies(q, r) \in Nat
  BY FreedIs
<1>2. sendQ \in [Sessions -> Seq(Packets)] /\ sentQ \in [Sessions -> Seq(Packets)]
  BY DEF TypeInv
<1>3. sendQ' \in [Sessions -> Seq(Packets)] /\ sentQ' \in [Sessions -> Seq(Packets)]
  BY <1>2
<1>4. ASSUME NEW q \in Packets PROVE InQ(q)' = InQ(q) - Copies(q, r)
  <2>1. Swapped("send", sendQ, [sendQ EXCEPT ![s] = i], sendQ[s], i, q)
    BY <1>2, QueueChanges
  <2>2. Swapped("sent", sentQ, [sentQ EXCEPT ![s] = j], sentQ[s], j, q)
    BY <1>2, QueueChanges
  <2>3. PICK g : g = sendQ' /\ Swapped("send", sendQ, g, sendQ[s], i, q)
    BY <2>1
  <2>4. PICK h : h = sentQ' /\ Swapped("sent", sentQ, h, sentQ[s], j, q)
    BY <2>2
  <2>5. InQ(q)' = Num("send", g, {q}) + Num("sent", h, {q})
    BY <2>3, <2>4 DEF InQ
  <2>6. Copies(q, r) \in Nat
    BY <1>1
  <2>7. Copies(q, sendQ[s]) + Copies(q, sentQ[s]) = Copies(q, i) + Copies(q, j) + Copies(q, r)
    OBVIOUS
  <2>8. InQ(q) = Num("send", sendQ, {q}) + Num("sent", sentQ, {q})
    BY DEF InQ
  <2>9. /\ Num("send", g, {q}) + Copies(q, sendQ[s]) = Num("send", sendQ, {q}) + Copies(q, i)
        /\ Num("send", g, {q}) \in Nat /\ Num("send", sendQ, {q}) \in Nat
        /\ Copies(q, sendQ[s]) \in Nat /\ Copies(q, i) \in Nat
    BY <2>3 DEF Swapped
  <2>10. /\ Num("sent", h, {q}) + Copies(q, sentQ[s]) = Num("sent", sentQ, {q}) + Copies(q, j)
         /\ Num("sent", h, {q}) \in Nat /\ Num("sent", sentQ, {q}) \in Nat
         /\ Copies(q, sentQ[s]) \in Nat /\ Copies(q, j) \in Nat
    BY <2>4 DEF Swapped
  <2>11. PICK a \in Nat : a = Num("send", sendQ, {q})
    BY <2>9
  <2>12. PICK b \in Nat : b = Num("sent", sentQ, {q})
    BY <2>10
  <2>13. PICK c \in Nat : c = Num("send", g, {q})
    BY <2>9
  <2>14. PICK d \in Nat : d = Num("sent", h, {q})
    BY <2>10
  <2>15. PICK x \in Nat : x = Copies(q, sendQ[s])
    BY <2>9
  <2>16. PICK y \in Nat : y = Copies(q, sentQ[s])
    BY <2>10
  <2>17. PICK k \in Nat : k = Copies(q, i)
    BY <2>9
  <2>18. PICK l \in Nat : l = Copies(q, j)
    BY <2>10
  <2>19. PICK m \in Nat : m = Copies(q, r)
    BY <2>6
  <2>20. c + x = a + k /\ d + y = b + l /\ x + y = k + l + m
    BY <2>7, <2>9, <2>10, <2>11, <2>12, <2>13, <2>14, <2>15, <2>16, <2>17, <2>18, <2>19
  <2>21. c + d = (a + b) - m
    BY <2>20
  <2>. QED  BY <2>5, <2>8, <2>11, <2>12, <2>13, <2>14, <2>19, <2>21
<1>. QED  BY <1>1, <1>3, <1>4 DEF QueuesFreed

LEMMA NoCopies ==
  \E e \in Seq(Packets) : e = <<>> /\ \A q : Copies(q, e) = 0
<1>1. <<>> \in Seq(Packets)
  OBVIOUS
<1>2. ASSUME NEW q PROVE Copies(q, <<>>) = 0
  BY CopiesAreCounted, CountNone
<1>. QED  BY <1>1, <1>2

LEMMA Drained ==
  ASSUME TypeInv, NEW s \in Sessions, DrainAndSend(s)
  PROVE  QueuesFreed
<1>1. PICK i \in Seq(Packets) : i = sendQ[s]
  BY DEF TypeInv
<1>2. PICK j \in Seq(Packets) : j = sentQ[s]
  BY DEF TypeInv
<1>3. PICK e \in Seq(Packets) : e = <<>> /\ \A q : Copies(q, e) = 0
  BY NoCopies
<1>4. sendQ' = [sendQ EXCEPT ![s] = e] /\ sentQ' = [sentQ EXCEPT ![s] = i] /\ refCnt' = Freed(j)
  BY <1>1, <1>2, <1>3 DEF DrainAndSend
<1>5. ASSUME NEW q \in Packets
      PROVE  Copies(q, sendQ[s]) + Copies(q, sentQ[s]) = Copies(q, e) + Copies(q, i) + Copies(q, j)
  <2>1. Copies(q, i) \in Nat /\ Copies(q, j) \in Nat
    BY CopiesAreCounted, CountType
  <2>. QED  BY <1>1, <1>2, <1>3, <2>1
<1>. QED  BY <1>4, <1>5, Requeued

LEMMA DestroyInv ==
  ASSUME Inv, NEW s \in Sessions, Destroy(s)
  PROVE  Inv'
<1>1. PICK i \in Seq(Packets) : i = sendQ[s]
  BY DEF Inv, TypeInv
<1>2. PICK j \in Seq(Packets) : j = sentQ[s]
  BY DEF Inv, TypeInv
<1>3. PICK e \in Seq(Packets) : e = <<>> /\ \A q : Copies(q, e) = 0
  BY NoCopies
<1>4. PICK r \in Seq(Packets) : r = j \o i
  BY ConcatProperties
<1>5. /\ sendQ' = [sendQ EXCEPT ![s] = e] /\ sentQ' = [sentQ EXCEPT ![s] = e]
      /\ refCnt' = Freed(r) /\ UNCHANGED <<message, owned, work, port, worker, fresh, owed>>
  BY <1>1, <1>2, <1>3, <1>4 DEF Destroy
<1>6. ASSUME NEW q \in Packets
      PROVE  Copies(q, sendQ[s]) + Copies(q, sentQ[s]) = Copies(q, e) + Copies(q, e) + Copies(q, r)
  <2>1. /\ Copies(q, i) = CountIn(i, {q}) /\ Copies(q, j) = CountIn(j, {q})
        /\ Copies(q, r) = CountIn(r, {q})
    BY CopiesAreCounted
  <2>2. CountIn(i, {q}) \in Nat /\ CountIn(j, {q}) \in Nat
    BY CountType
  <2>3. CountIn(r, {q}) = CountIn(j, {q}) + CountIn(i, {q})
    BY <1>4, CountJoin
  <2>4. Copies(q, e) = 0
    BY <1>3
  <2>. QED  BY <1>1, <1>2, <2>1, <2>2, <2>3, <2>4
<1>7. QueuesFreed
  BY <1>5, <1>6, Requeued DEF Inv
<1>8. TypeInv'
  BY <1>5, <1>7 DEF Inv, TypeInv, QueuesFreed
<1>9. WayKept
  BY <1>5, Stays, SameWorkers
<1>10. RefInv'
  BY <1>5, <1>7, <1>9, RefFreed
<1>. QED  BY <1>5, <1>8, <1>9, <1>10, Quiet

LEMMA WalkInv ==
  ASSUME Inv, NEW w \in Workers, worker[w].pc \in {"sendPost", "spin"},
         DrainAndSend(worker[w].at) \/ UNCHANGED <<refCnt, session>>, Leave(w),
         UNCHANGED <<message, owned, work, port, fresh, owed>>
  PROVE  Inv'
<1>1. TypeInv /\ worker[w] \in WorkerRecords /\ WorkerOK(worker[w])
  BY DEF Inv, TypeInv
<1>2. worker[w].at \in Sessions
  BY <1>1 DEF WorkerOK, WorkerRecords
<1>3. QueuesFreed
  BY <1>1, <1>2, Drained, NothingFreed DEF session
<1>4. PICK n : n = AfterID(worker[w])
  OBVIOUS
<1>5. /\ n \in WorkerRecords /\ WorkerOK(n) /\ n.ids = worker[w].ids
      /\ n.ids = <<>> \/ n.packet = worker[w].packet
  BY <1>1, <1>4, AfterIs DEF WorkerOK
<1>6. worker' = [worker EXCEPT ![w] = n]
  BY <1>4 DEF Leave
<1>7. /\ worker' \in [Workers -> WorkerRecords] /\ \A v \in Workers : WorkerOK(worker'[v])
      /\ WayKept
  BY <1>1, <1>5, <1>6, WorkerStays
<1>8. TypeInv'
  BY <1>1, <1>3, <1>7 DEF TypeInv, QueuesFreed
<1>9. RefInv'
  BY <1>3, <1>7, RefFreed
<1>. QED  BY <1>7, <1>8, <1>9, Quiet

(* A worker goes on, and no queue changes.                                  *)
LEMMA WorkerInv ==
  ASSUME Inv, NEW w \in Workers, NEW n \in WorkerRecords, WorkerOK(n),
         n.ids = worker[w].ids, n.ids = <<>> \/ n.packet = worker[w].packet,
         worker' = [worker EXCEPT ![w] = n],
         UNCHANGED <<refCnt, message, owned, work, port, sendQ, sentQ, fresh, owed>>
  PROVE  Inv'
<1>1. /\ worker' \in [Workers -> WorkerRecords] /\ \A v \in Workers : WorkerOK(worker'[v])
      /\ WayKept
  BY WorkerStays DEF Inv
<1>2. TypeInv'
  BY <1>1 DEF Inv, TypeInv
<1>3. RefInv'
  BY <1>1, RefQuiet DEF Inv
<1>. QED  BY <1>1, <1>2, <1>3, Quiet

LEMMA PcInv ==
  ASSUME Inv, NEW w \in Workers, LastCancel(w) \/ SetSendFlagFalse(w)
  PROVE  Inv'
<1>1. worker[w] \in WorkerRecords /\ WorkerOK(worker[w])
  BY DEF Inv, TypeInv
<1>2. worker[w].at # NULL
  BY <1>1 DEF LastCancel, SetSendFlagFalse, WorkerOK
<1>3. PICK c \in {"sendPost", "spin"} : worker' = [worker EXCEPT ![w].pc = c]
  BY DEF LastCancel, SetSendFlagFalse
<1>4. PICK n : n = [worker[w] EXCEPT !.pc = c]
  OBVIOUS
<1>5. worker' = [worker EXCEPT ![w] = n]
  BY <1>3, <1>4, Zenon
<1>6. n \in WorkerRecords /\ WorkerOK(n) /\ n.ids = worker[w].ids /\ n.packet = worker[w].packet
  BY <1>1, <1>2, <1>4, PcIs
<1>7. UNCHANGED <<refCnt, message, owned, work, port, sendQ, sentQ, fresh, owed>>
  BY DEF LastCancel, SetSendFlagFalse, packets
<1>. QED  BY <1>5, <1>6, <1>7, WorkerInv

LEMMA OnSendCompleteInv ==
  ASSUME Inv, NEW w \in Workers, NEW s \in Sessions, OnSendComplete(w, s)
  PROVE  Inv'
<1>1. /\ worker[w] = Idle
      /\ UNCHANGED <<refCnt, message, owned, work, port, sendQ, sentQ, fresh, owed>>
  BY DEF OnSendComplete, packets
<1>2. PICK n : n = [Idle EXCEPT !.at = s, !.pc = "clear"]
  OBVIOUS
<1>3. n \in WorkerRecords /\ WorkerOK(n) /\ n.ids = <<>>
  BY <1>2, StartIs
<1>4. worker' = worker \/ worker' = [worker EXCEPT ![w] = n]
  BY <1>2 DEF OnSendComplete
<1>5. Idle \in WorkerRecords /\ WorkerOK(Idle) /\ Idle.ids = <<>>
  BY IdleIs
<1>6. CASE worker' = worker
  <2>1. worker' = [worker EXCEPT ![w] = Idle]
    BY <1>1, <1>6 DEF Inv, TypeInv
  <2>. QED  BY <1>1, <1>5, <2>1, WorkerInv
<1>7. CASE worker' = [worker EXCEPT ![w] = n]
  BY <1>1, <1>3, <1>5, <1>7, WorkerInv
<1>. QED  BY <1>4, <1>6, <1>7

LEMMA DisconnectInv ==
  ASSUME Inv, UNCHANGED <<refCnt, message, owned, work, port, worker, sendQ, sentQ, fresh, owed>>
  PROVE  Inv'
<1>1. TypeInv'
  BY DEF Inv, TypeInv
<1>2. WayKept
  BY Stays, SameWorkers
<1>3. RefInv'
  BY <1>2, RefQuiet DEF Inv
<1>. QED  BY <1>1, <1>2, <1>3, Quiet

LEMMA TakeInv ==
  ASSUME Inv, NEW w \in Workers, Take(w)
  PROVE  Inv'
<1> DEFINE x == Head(port)
<1>1. /\ worker[w] = Idle /\ port # <<>> /\ port' = Tail(port)
      /\ UNCHANGED <<refCnt, message, owned, work, sendQ, sentQ, fresh, owed>>
  BY DEF Take, packets, session
<1>2. x \in Posts /\ PostOK(x)
  BY <1>1 DEF Inv, TypeInv
<1>3. port' \in Seq(Posts) /\ \A k \in DOMAIN port' : PostOK(port'[k])
  <2>1. PICK l \in Nat : l = Len(port) /\ l > 0 /\ DOMAIN port = 1 .. l
    BY <1>1 DEF Inv, TypeInv
  <2>2. /\ DOMAIN port' = 1 .. l - 1 /\ port' \in Seq(Posts)
        /\ \A k \in 1 .. l - 1 : port'[k] = port[k + 1]
    BY <1>1, <2>1 DEF Inv, TypeInv
  <2>3. \A k \in 1 .. l - 1 : k + 1 \in 1 .. l
    BY <2>1
  <2>. QED  BY <2>1, <2>2, <2>3 DEF Inv, TypeInv
<1>4. PICK n \in WorkerRecords :
        /\ WorkerOK(n) /\ worker' = [worker EXCEPT ![w] = n]
        /\ \/ x.packet = NULL /\ n.ids = <<>>
           \/ n.packet = x.packet /\ n.ids = x.ids
  <2>1. CASE x.kind = "sign"
    <3>1. PICK s \in Sessions : s = x.ids[1]
      BY <1>2 DEF Posts, PostOK
    <3>2. PICK n : n = [Idle EXCEPT !.at = s, !.pc = "sendPost"]
      OBVIOUS
    <3>3. n \in WorkerRecords /\ WorkerOK(n) /\ n.ids = <<>>
      BY <3>2, StartIs
    <3>4. worker' = [worker EXCEPT ![w] = n]
      BY <2>1, <3>1, <3>2 DEF Take
    <3>5. x.packet = NULL
      BY <1>2, <2>1 DEF PostOK
    <3>. QED  BY <3>3, <3>4, <3>5
  <2>2. CASE x.kind # "sign"
    <3>1. PICK n : n = [kind |-> x.kind, packet |-> x.packet, ids |-> x.ids, at |-> NULL, pc |-> "next"]
      OBVIOUS
    <3>2. n \in WorkerRecords /\ WorkerOK(n) /\ n.packet = x.packet /\ n.ids = x.ids
      <4>1. x.kind \in {"send", "last"} /\ x.packet # NULL /\ x.ids # <<>>
        BY <1>2, <2>2 DEF Posts, PostOK
      <4>. QED  BY <1>2, <3>1, <4>1 DEF WorkerRecords, WorkerOK, Posts
    <3>3. worker' = [worker EXCEPT ![w] = n]
      BY <2>2, <3>1 DEF Take
    <3>. QED  BY <3>2, <3>3
  <2>. QED  BY <2>1, <2>2
<1> HIDE DEF x
<1>5. TypeInv'
  BY <1>1, <1>3, <1>4, WorkerTyped DEF Inv, TypeInv
<1>6. WayKept
  <2> SUFFICES ASSUME NEW q \in Packets, NEW S PROVE OnTheWay(q, S)' = OnTheWay(q, S)
    BY DEF WayKept
  <2>1. /\ Num("port", PortIDs(q), S) = Num("port", PortIDs(q)', S) + CountOf(x, q, S)
        /\ Num("port", PortIDs(q)', S) \in Nat
    BY <1>1, PortTaken DEF Inv, x
  <2>2. /\ Num("worker", WorkerIDs(q)', S) + CountOf(worker[w], q, S)
             = Num("worker", WorkerIDs(q), S) + CountOf(n, q, S)
        /\ Num("worker", WorkerIDs(q)', S) \in Nat
    BY <1>4, WorkerMoved DEF Inv
  <2>3. CountOf(worker[w], q, S) = 0
    BY <1>1, IdleIs, CountNone DEF CountOf
  <2>4. CountOf(n, q, S) = CountOf(x, q, S)
    <3>1. q # NULL
      BY BroadcastAssumption
    <3>2. CASE x.packet = NULL /\ n.ids = <<>>
      BY <3>1, <3>2, CountNone DEF CountOf
    <3>3. CASE n.packet = x.packet /\ n.ids = x.ids
      BY <3>3 DEF CountOf
    <3>. QED  BY <1>4, <3>2, <3>3
  <2>5. /\ CountIn(work[q].ids, S) \in Nat /\ Num("port", PortIDs(q), S) \in Nat
        /\ Num("worker", WorkerIDs(q), S) \in Nat
    BY CopiesSplit DEF Inv
  <2>6. CountOf(x, q, S) \in Nat
    BY <1>2, CountType DEF CountOf, Posts
  <2>. QED  BY <1>1, <2>1, <2>2, <2>3, <2>4, <2>5, <2>6 DEF OnTheWay
<1>7. RefInv'
  BY <1>1, <1>6, RefQuiet DEF Inv
<1>. QED  BY <1>1, <1>5, <1>6, <1>7, Quiet

(* A worker is done with an addressee: a copy less is on its way.           *)
Lost(q, S, p, x) ==
  /\ OnTheWay(q, S) = OnTheWay(q, S)' + (IF q = p /\ x \in S THEN 1 ELSE 0)
  /\ OnTheWay(q, S) \in Nat /\ OnTheWay(q, S)' \in Nat

LEMMA OneLess ==
  ASSUME TypeInv, NEW w \in Workers, worker[w].pc = "next",
         NEW n \in WorkerRecords, n.ids = Tail(worker[w].ids),
         n.ids = <<>> \/ n.packet = worker[w].packet,
         worker' = [worker EXCEPT ![w] = n], UNCHANGED <<work, port>>, NEW q \in Packets, NEW S
  PROVE  Lost(q, S, worker[w].packet, Head(worker[w].ids))
<1>1. PICK i \in Seq(Sessions) : i = worker[w].ids /\ i # <<>>
  BY DEF TypeInv, WorkerRecords, WorkerOK
<1>2. PICK t \in Seq(Sessions) : t = Tail(i) /\ n.ids = t
  BY <1>1, HeadTailProperties
<1>3. /\ CountIn(i, S) = (IF Head(i) \in S THEN 1 ELSE 0) + CountIn(t, S)
      /\ Head(i) \in Sessions
  BY <1>1, <1>2, CountHead
<1>4. /\ Num("worker", WorkerIDs(q)', S) + CountOf(worker[w], q, S)
           = Num("worker", WorkerIDs(q), S) + CountOf(n, q, S)
      /\ Num("worker", WorkerIDs(q)', S) \in Nat
  BY WorkerMoved
<1>5. CountOf(n, q, S) = IF q = worker[w].packet THEN CountIn(t, S) ELSE 0
  BY <1>2, CountNone DEF CountOf
<1>6. CountOf(worker[w], q, S) = IF q = worker[w].packet THEN CountIn(i, S) ELSE 0
  BY <1>1 DEF CountOf
<1>7. /\ CountIn(work[q].ids, S) \in Nat /\ Num("port", PortIDs(q), S) \in Nat
      /\ Num("worker", WorkerIDs(q), S) \in Nat /\ OnTheWay(q, S) \in Nat
      /\ CountIn(i, S) \in Nat /\ CountIn(t, S) \in Nat
  BY CopiesSplit, CountType
<1>8. PortIDs(q)' = PortIDs(q)
  BY SamePort
<1>9. Num("worker", WorkerIDs(q), S) = Num("worker", WorkerIDs(q)', S) +
        (IF q = worker[w].packet /\ Head(i) \in S THEN 1 ELSE 0)
  BY <1>3, <1>4, <1>5, <1>6, <1>7
<1>. QED  BY <1>1, <1>4, <1>7, <1>8, <1>9 DEF Lost, OnTheWay

LEMMA NextIDInv ==
  ASSUME Inv, NEW w \in Workers, NextID(w)
  PROVE  Inv'
<1>1. TypeInv /\ worker[w] \in WorkerRecords /\ WorkerOK(worker[w]) /\ worker[w].pc = "next"
  BY DEF Inv, TypeInv, NextID
<1>2. PICK i \in Seq(Sessions) : i = worker[w].ids /\ i # <<>>
  BY <1>1 DEF WorkerRecords, WorkerOK
<1>3. PICK p \in Packets : p = worker[w].packet
  BY <1>1, <1>2 DEF WorkerRecords, WorkerOK
<1>4. PICK s \in Sessions : s = Head(i)
  BY <1>2, HeadTailProperties
<1>5. PICK t \in Seq(Sessions) : t = Tail(i)
  BY <1>2, HeadTailProperties
<1>6. p # NULL /\ s # NULL
  BY BroadcastAssumption
<1>7. PICK c \in {"sendPost", "cancel"} : c = IF worker[w].kind = "last" THEN "cancel" ELSE "sendPost"
  OBVIOUS
<1>8. PICK rest : rest = WithoutHead(worker[w])
  OBVIOUS
<1>9. rest \in WorkerRecords /\ rest.ids = t /\ rest.packet = p
  BY <1>1, <1>2, <1>3, <1>5, <1>8, PoppedIs
<1>10. PICK took : took = [rest EXCEPT !.at = s, !.pc = c]
  OBVIOUS
<1>11. took \in WorkerRecords /\ WorkerOK(took) /\ took.ids = t /\ took.packet = p
  BY <1>6, <1>9, <1>10, StepIs
<1>12. /\ AfterID(rest) \in WorkerRecords /\ WorkerOK(AfterID(rest)) /\ AfterID(rest).ids = t
       /\ t = <<>> \/ AfterID(rest).packet = p
  BY <1>6, <1>9, AfterIs
<1> DEFINE Takes == /\ sendQ' = [sendQ EXCEPT ![s] = Append(@, p)] /\ refCnt' = refCnt
                    /\ worker' = [worker EXCEPT ![w] = took]
           Refuses == /\ refCnt' = Freed(<<p>>) /\ sendQ' = sendQ
                      /\ worker' = [worker EXCEPT ![w] = AfterID(rest)]
<1>13. /\ UNCHANGED <<message, owned, work, port, sentQ, fresh>>
       /\ owed' = [owed EXCEPT ![message[p]][s] = @ - 1]
  BY <1>2, <1>3, <1>4 DEF NextID
<1>14. Takes \/ Refuses
  <2> DEFINE x == Head(worker[w].ids)
             z == connection[x] = "online" /\ Len(sendQ[x]) < eNET_PACKET_SEND_Q_MAX_SIZE
  <2>1. CASE z
    <3>1. /\ sendQ' = [sendQ EXCEPT ![x] = Append(@, worker[w].packet)] /\ refCnt' = refCnt
          /\ worker' = [worker EXCEPT ![w] = [WithoutHead(worker[w]) EXCEPT !.at = x,
                        !.pc = IF worker[w].kind = "last" THEN "cancel" ELSE "sendPost"]]
      BY <2>1 DEF NextID
    <3>2. worker' = [worker EXCEPT ![w] = [rest EXCEPT !.at = s, !.pc = c]]
      BY <1>2, <1>4, <1>7, <1>8, <3>1
    <3>. QED  BY <1>2, <1>3, <1>4, <1>10, <3>1, <3>2
  <2>2. CASE ~z
    <3>1. /\ refCnt' = Freed(<<worker[w].packet>>) /\ sendQ' = sendQ
          /\ worker' = [worker EXCEPT ![w] = AfterID(WithoutHead(worker[w]))]
      BY <2>2 DEF NextID
    <3>. QED  BY <1>3, <1>8, <3>1
  <2>. QED  BY <2>1, <2>2
<1>15. PICK n \in WorkerRecords :
         WorkerOK(n) /\ n.ids = t /\ (t = <<>> \/ n.packet = p) /\ worker' = [worker EXCEPT ![w] = n]
  BY <1>11, <1>12, <1>14
<1>16. \A q \in Packets : \A S :
         /\ OnTheWay(q, S) = OnTheWay(q, S)' + (IF q = p /\ s \in S THEN 1 ELSE 0)
         /\ OnTheWay(q, S) \in Nat /\ OnTheWay(q, S)' \in Nat
  <2> SUFFICES ASSUME NEW q \in Packets, NEW S
               PROVE  /\ OnTheWay(q, S) = OnTheWay(q, S)' + (IF q = p /\ s \in S THEN 1 ELSE 0)
                      /\ OnTheWay(q, S) \in Nat /\ OnTheWay(q, S)' \in Nat
    OBVIOUS
  <2>1. Head(worker[w].ids) = s /\ Tail(worker[w].ids) = t /\ worker[w].packet = p
    BY <1>2, <1>3, <1>4, <1>5
  <2>2. Lost(q, S, worker[w].packet, Head(worker[w].ids))
    <3>1. UNCHANGED <<work, port>>
      BY <1>13
    <3>2. n.ids = Tail(worker[w].ids) /\ (n.ids = <<>> \/ n.packet = worker[w].packet)
      BY <1>15, <2>1
    <3>. QED  BY <1>1, <1>15, <3>1, <3>2, OneLess
  <2>. QED  BY <2>1, <2>2 DEF Lost
<1>17. PICK m \in Messages : m = message[p] /\ m # NULL
  <2>1. OnTheWay(p, Sessions) # 0
    <3>1. PICK a \in Nat : a = OnTheWay(p, Sessions)'
      BY <1>16
    <3>2. OnTheWay(p, Sessions) = a + 1
      BY <1>16, <3>1
    <3>. QED  BY <3>2
  <2>. QED  BY <1>1, <2>1 DEF Inv, LiveInv, TypeInv
<1>18. /\ owed' \in [Messages -> [Sessions -> Int]]
       /\ \A x \in Messages : x # m => owed'[x] = owed[x]
       /\ \A r \in Sessions : owed'[m][r] = owed[m][r] - (IF r = s THEN 1 ELSE 0)
  <2>1. owed \in [Messages -> [Sessions -> Int]] /\ owed[m] \in [Sessions -> Int]
    BY <1>1 DEF TypeInv
  <2>2. PICK row : row = [owed[m] EXCEPT ![s] = @ - 1]
    OBVIOUS
  <2>3. row \in [Sessions -> Int] /\ \A r \in Sessions : row[r] = owed[m][r] - (IF r = s THEN 1 ELSE 0)
    BY <2>1, <2>2
  <2>4. owed' = [owed EXCEPT ![m] = row]
    BY <1>17, <1>13, <2>2
  <2>. QED  BY <2>1, <2>3, <2>4
<1>19. /\ refCnt' \in [Packets -> Int] /\ sendQ' \in [Sessions -> Seq(Packets)]
       /\ \A q \in Packets : refCnt'[q] - InQ(q)' = refCnt[q] - InQ(q) - (IF q = p THEN 1 ELSE 0)
       /\ \A q \in Packets : InQ(q)' \in Nat
  <2>1. CASE Takes
    <3>1. /\ sendQ' \in [Sessions -> Seq(Packets)]
          /\ \A q \in Packets : InQ(q)' = InQ(q) + (IF q = p THEN 1 ELSE 0)
      BY <1>1, <1>13, <2>1, Linked
    <3>2. \A q \in Packets : InQ(q) \in Nat /\ refCnt[q] \in Int
      BY <1>1, QueuesSplit DEF TypeInv
    <3>3. refCnt' = refCnt
      BY <2>1
    <3>4. refCnt' \in [Packets -> Int]
      BY <1>1, <3>3 DEF TypeInv
    <3>5. ASSUME NEW q \in Packets
          PROVE  /\ refCnt'[q] - InQ(q)' = refCnt[q] - InQ(q) - (IF q = p THEN 1 ELSE 0)
                 /\ InQ(q)' \in Nat
      <4>1. PICK a \in Nat : a = InQ(q)
        BY <3>2
      <4>2. PICK b \in Int : b = refCnt[q] /\ b = refCnt'[q]
        BY <3>2, <3>3
      <4>3. InQ(q)' = a + (IF q = p THEN 1 ELSE 0)
        BY <3>1, <4>1
      <4>. QED  BY <4>1, <4>2, <4>3
    <3>. QED  BY <3>1, <3>4, <3>5
  <2>2. CASE Refuses
    <3>1. <<p>> \in Seq(Packets) /\ \A q \in Packets : Copies(q, <<p>>) = IF q = p THEN 1 ELSE 0
      BY CopiesOfOne
    <3>2. PICK x \in Seq(Packets) : x = <<p>>
      BY <3>1
    <3>3. refCnt' \in [Packets -> Int] /\ \A q \in Packets : refCnt'[q] = refCnt[q] - Copies(q, x)
      BY <1>1, <2>2, <3>2, FreedIs
    <3>4. \A q \in Packets : InQ(q)' = InQ(q)
      BY <1>13, <2>2 DEF InQ
    <3>5. \A q \in Packets : InQ(q) \in Nat /\ refCnt[q] \in Int
      BY <1>1, QueuesSplit DEF TypeInv
    <3>6. sendQ' \in [Sessions -> Seq(Packets)]
      BY <1>1, <2>2 DEF TypeInv
    <3>7. ASSUME NEW q \in Packets
          PROVE  /\ refCnt'[q] - InQ(q)' = refCnt[q] - InQ(q) - (IF q = p THEN 1 ELSE 0)
                 /\ InQ(q)' \in Nat
      <4>1. PICK a \in Nat : a = InQ(q) /\ a = InQ(q)'
        BY <3>4, <3>5
      <4>2. PICK b \in Int : b = refCnt[q]
        BY <3>5
      <4>3. refCnt'[q] = b - (IF q = p THEN 1 ELSE 0)
        BY <3>1, <3>2, <3>3, <4>2
      <4>. QED  BY <4>1, <4>2, <4>3
    <3>. QED  BY <3>3, <3>6, <3>7
  <2>. QED  BY <1>14, <2>1, <2>2
<1> HIDE DEF Takes, Refuses
<1>20. TypeInv'
  <2>1. worker' \in [Workers -> WorkerRecords] /\ \A v \in Workers : WorkerOK(worker'[v])
    BY <1>1, <1>15, WorkerTyped
  <2>. QED  BY <1>1, <1>18, <1>19, <1>13, <2>1 DEF TypeInv
<1>21. RefInv'
  <2> SUFFICES ASSUME NEW q \in Packets
               PROVE  refCnt'[q] = Made(q)' + OnTheWay(q, Sessions)' + InQ(q)'
    BY DEF RefInv
  <2>1. Made(q)' = Made(q)
    BY <1>13 DEF Made
  <2>2. PICK a \in Nat : a = OnTheWay(q, Sessions)'
    BY <1>16
  <2>3. OnTheWay(q, Sessions) = a + (IF q = p THEN 1 ELSE 0)
    BY <1>16, <2>2
  <2>4. PICK b \in Nat : b = InQ(q)'
    BY <1>19
  <2>5. /\ Made(q) \in {0, 1} /\ OnTheWay(q, Sessions) \in Nat /\ InQ(q) \in Nat
        /\ refCnt[q] = Made(q) + OnTheWay(q, Sessions) + InQ(q)
    BY Counted
  <2>6. refCnt'[q] \in Int /\ refCnt'[q] - b = refCnt[q] - InQ(q) - (IF q = p THEN 1 ELSE 0)
    BY <1>19, <2>4
  <2>7. refCnt'[q] = Made(q) + a + b
    <3>1. PICK c1 \in Int : c1 = refCnt'[q]
      BY <2>6
    <3>2. PICK c2 \in Nat : c2 = InQ(q)
      BY <2>5
    <3>3. PICK c3 \in {0, 1} : c3 = Made(q)
      BY <2>5
    <3>4. refCnt[q] = c3 + (a + (IF q = p THEN 1 ELSE 0)) + c2
      BY <2>3, <2>5, <3>2, <3>3
    <3>5. c1 - b = refCnt[q] - c2 - (IF q = p THEN 1 ELSE 0)
      BY <2>6, <3>1, <3>2
    <3>6. c1 = c3 + a + b
      BY <3>4, <3>5
    <3>. QED  BY <3>1, <3>3, <3>6
  <2>. QED  BY <2>1, <2>2, <2>4, <2>7
<1>22. MessageInv'
  BY <1>13 DEF Inv, MessageInv
<1>23. LiveInv'
  <2> SUFFICES ASSUME NEW q \in Packets, message[q] = NULL
               PROVE  q \notin owned /\ OnTheWay(q, Sessions)' = 0
    BY <1>13 DEF LiveInv
  <2>1. q \notin owned /\ OnTheWay(q, Sessions) = 0 /\ q # p
    BY <1>17 DEF Inv, LiveInv
  <2>2. PICK a \in Nat : a = OnTheWay(q, Sessions)'
    BY <1>16
  <2>. QED  BY <1>16, <2>1, <2>2
<1>24. OwedInv'
  <2>1. ASSUME NEW q \in Packets, NEW r \in Sessions, message[q] # NULL
        PROVE  owed'[message[q]][r] = OnTheWay(q, {r})'
    <3>1. PICK a \in Nat : a = OnTheWay(q, {r})'
      BY <1>16
    <3>2. OnTheWay(q, {r}) = a + (IF q = p /\ r = s THEN 1 ELSE 0)
      BY <1>16, <3>1
    <3>3. owed[message[q]][r] = OnTheWay(q, {r})
      BY <2>1 DEF Inv, OwedInv
    <3>4. CASE q = p
      BY <1>17, <1>18, <3>1, <3>2, <3>3, <3>4
    <3>5. CASE q # p
      <4>1. message[q] # m /\ message[q] \in Messages
        BY <1>1, <1>17, <2>1, <3>5 DEF Inv, MessageInv, TypeInv
      <4>. QED  BY <1>18, <3>1, <3>2, <3>3, <3>5, <4>1
    <3>. QED  BY <3>4, <3>5
  <2>2. ASSUME NEW x \in Messages, NEW r \in Sessions, \A q \in Packets : message'[q] # x
        PROVE  owed'[x][r] = 0
    <3>1. x # m
      BY <1>17, <1>13, <2>2
    <3>2. owed[x][r] = 0
      BY <1>13, <2>2 DEF Inv, OwedInv
    <3>. QED  BY <1>18, <3>1, <3>2
  <2>. QED  BY <1>13, <2>1, <2>2 DEF OwedInv
<1>. QED  BY <1>20, <1>21, <1>22, <1>23, <1>24 DEF Inv

-------------------------------------------------------------------------------
(***************************************************************************)
(* The theorems.                                                           *)
(***************************************************************************)
LEMMA EmptyPlaces ==
  ASSUME NEW h, IsFiniteSet(DOMAIN h), \A x \in DOMAIN h : h[x] = <<>>, NEW kind, NEW S
  PROVE  Num(kind, h, S) = 0
<1>1. \A x \in DOMAIN h : Copy(kind, x, h[x]) = {}
  BY DEF Copy
<1>2. Held(kind, h, S) = {}
  BY <1>1 DEF Held, All
<1>. QED  BY <1>2, FS_EmptySet DEF Num

LEMMA InitInv == Init => Inv
<1> SUFFICES ASSUME Init PROVE Inv
  OBVIOUS
<1>1. <<>> \in Seq(Packets) /\ <<>> \in Seq(Posts)
  OBVIOUS
<1>2. TypeInv
  <2>1. port \in Seq(Posts) /\ \A k \in DOMAIN port : PostOK(port[k])
    BY DEF Init
  <2>2. worker \in [Workers -> WorkerRecords] /\ \A w \in Workers : WorkerOK(worker[w])
    BY IdleIs DEF Init
  <2>3. work \in [Packets -> WorkRecords] /\ \A p \in Packets : WorkOK(work[p])
    BY NoWorkIs DEF Init
  <2>. QED  BY <1>1, <2>1, <2>2, <2>3 DEF Init, TypeInv
<1>3. ASSUME NEW p \in Packets, NEW S PROVE OnTheWay(p, S) = 0
  <2>1. work[p].ids = <<>>
    BY NoWorkIs DEF Init
  <2>2. Num("port", PortIDs(p), S) = 0
    <3>1. DOMAIN PortIDs(p) = {}
      BY DEF Init, PortIDs
    <3>. QED  BY <3>1, EmptyPlaces, FS_EmptySet
  <2>3. Num("worker", WorkerIDs(p), S) = 0
    <3>1. DOMAIN WorkerIDs(p) = Workers /\ \A w \in Workers : WorkerIDs(p)[w] = <<>>
      BY IdleIs DEF Init, WorkerIDs
    <3>. QED  BY <3>1, EmptyPlaces, BroadcastAssumption
  <2>. QED  BY <2>1, <2>2, <2>3, CountNone DEF OnTheWay
<1>4. ASSUME NEW p \in Packets PROVE InQ(p) = 0
  <2>1. Num("send", sendQ, {p}) = 0
    BY EmptyPlaces, BroadcastAssumption DEF Init
  <2>2. Num("sent", sentQ, {p}) = 0
    BY EmptyPlaces, BroadcastAssumption DEF Init
  <2>. QED  BY <2>1, <2>2 DEF InQ
<1>5. RefInv
  BY <1>3, <1>4 DEF Init, RefInv, Made
<1>6. MessageInv /\ LiveInv
  BY <1>3 DEF Init, MessageInv, LiveInv
<1>7. OwedInv
  BY DEF Init, OwedInv
<1>. QED  BY <1>2, <1>5, <1>6, <1>7 DEF Inv

LEMMA NextInv == Inv /\ [Next]_vars => Inv'
<1> SUFFICES ASSUME Inv, [Next]_vars PROVE Inv'
  OBVIOUS
<1>1. ASSUME NEW p \in Packets, NEW m \in Messages, Alloc(p, m) PROVE Inv'
  BY <1>1, AllocInv
<1>2. ASSUME NEW p \in Packets, NEW ids \in IDSets, NEW kind \in {"send", "last"},
             SendSet(p, ids, kind)
      PROVE  Inv'
  BY <1>2, SendSetInv
<1>3. ASSUME NEW p \in Packets, NEW s \in Sessions, AsyncSendPacket(p, s) PROVE Inv'
  BY <1>3, AsyncSendPacketInv
<1>4. ASSUME NEW p \in Packets, Distribute(p) PROVE Inv'
  BY <1>4, PostChunkInv, PostRestInv DEF Distribute
<1>5. ASSUME NEW p \in Packets, Free(p) PROVE Inv'
  BY <1>5, FreeInv
<1>6. ASSUME NEW w \in Workers, NextID(w) PROVE Inv'
  BY <1>6, NextIDInv
<1>7. ASSUME NEW w \in Workers, SendPost(w) \/ SendAndDisconnectPost(w) PROVE Inv'
  <2>1. /\ worker[w].pc \in {"sendPost", "spin"}
        /\ DrainAndSend(worker[w].at) \/ UNCHANGED <<refCnt, session>>
        /\ Leave(w) /\ UNCHANGED <<message, owned, work, port, fresh, owed>>
    BY <1>7 DEF SendPost, SendAndDisconnectPost
  <2>. QED  BY <2>1, WalkInv
<1>8. ASSUME NEW w \in Workers, LastCancel(w) \/ SetSendFlagFalse(w) PROVE Inv'
  BY <1>8, PcInv
<1>9. ASSUME NEW w \in Workers, Take(w) PROVE Inv'
  BY <1>9, TakeInv
<1>10. ASSUME NEW w \in Workers, NEW s \in Sessions, OnSendComplete(w, s) PROVE Inv'
  BY <1>10, OnSendCompleteInv
<1>11. ASSUME NEW s \in Sessions, Disconnect(s) PROVE Inv'
  BY <1>11, DisconnectInv DEF Disconnect, packets
<1>12. ASSUME NEW s \in Sessions, Destroy(s) PROVE Inv'
  BY <1>12, DestroyInv
<1>13. CASE UNCHANGED vars
  BY <1>13, DisconnectInv DEF vars, packets, session
<1>14. CASE Next
  BY <1>1, <1>2, <1>3, <1>4, <1>5, <1>6, <1>7, <1>8, <1>9, <1>10, <1>11, <1>12, <1>14
     DEF Next, Walk, Dispatch
<1>. QED  BY <1>13, <1>14

LEMMA Invariant == Spec => []Inv
<1>1. Init => Inv
  BY InitInv
<1>2. Inv /\ [Next]_vars => Inv'
  BY NextInv
<1>. QED  BY <1>1, <1>2, PTL DEF Spec

(* refCnt_ counts the maker, the copies that are on their way and the       *)
(* places in queues, in every reachable state (NetPacket::IncreaseRefCount  *)
(* and Free, wherever a broadcast calls them).                              *)
THEOREM RefCountsAreExact == Spec => []RefCountIsExact
<1>1. ASSUME Inv PROVE RefCountIsExact
  <2> SUFFICES ASSUME NEW p \in Packets
               PROVE  refCnt[p] = Cardinality({p} \intersect owned) + Cardinality(CopiesOf(p))
                                + Cardinality(InQueues(p))
    BY DEF RefCountIsExact
  <2>1. TypeInv /\ refCnt[p] = Made(p) + OnTheWay(p, Sessions) + InQ(p)
    BY <1>1 DEF Inv, RefInv
  <2>2. Cardinality({p} \intersect owned) = Made(p)
    <3>1. {p} \intersect owned = IF p \in owned THEN {p} ELSE {}
      OBVIOUS
    <3>. QED  BY <3>1, FS_Singleton, FS_EmptySet DEF Made
  <2>3. {c \in CopiesOf(p) : c[4] \in Sessions} = CopiesOf(p)
    BY <2>1, CopiesTyped
  <2>4. Cardinality(CopiesOf(p)) = OnTheWay(p, Sessions)
    BY <2>1, <2>3, CopiesSplit
  <2>5. Cardinality(InQueues(p)) = InQ(p)
    BY <2>1, QueuesSplit
  <2>. QED  BY <2>1, <2>2, <2>4, <2>5
<1>. QED  BY <1>1, Invariant, PTL

(* Until a session took or refused its copy, one copy is on its way to it,  *)
(* however NetRoot::AsyncSendPacket and DisconnectAfterLastMessage cut the  *)
(* set and whoever works on the chunks.                                     *)
THEOREM EveryoneIsServedOnce == Spec => []EveryoneHearsOnce
<1>1. ASSUME Inv PROVE EveryoneHearsOnce
  <2> SUFFICES ASSUME NEW m \in Messages, NEW s \in Sessions
               PROVE  owed[m][s] =
                        Cardinality(UNION {OnWay(p, s) : p \in {p \in Packets : message[p] = m}})
    BY DEF EveryoneHearsOnce
  <2> DEFINE U == UNION {OnWay(p, s) : p \in {p \in Packets : message[p] = m}}
  <2>1. CASE \E p \in Packets : message[p] = m
    <3>1. PICK p \in Packets : message[p] = m
      BY <2>1
    <3>2. m # NULL
      BY BroadcastAssumption
    <3>3. {q \in Packets : message[q] = m} = {p}
      BY <1>1, <3>1, <3>2 DEF Inv, MessageInv
    <3>4. U = OnWay(p, s)
      BY <3>3
    <3>5. OnWay(p, s) = {c \in CopiesOf(p) : c[4] \in {s}}
      BY DEF OnWay
    <3>6. Cardinality({c \in CopiesOf(p) : c[4] \in {s}}) = OnTheWay(p, {s})
      BY <1>1, CopiesSplit DEF Inv
    <3>7. owed[m][s] = OnTheWay(p, {s})
      BY <1>1, <3>1, <3>2 DEF Inv, OwedInv
    <3>. QED  BY <3>4, <3>5, <3>6, <3>7
  <2>2. CASE \A p \in Packets : message[p] # m
    <3>1. U = {}
      BY <2>2
    <3>2. owed[m][s] = 0
      BY <1>1, <2>2 DEF Inv, OwedInv
    <3>. QED  BY <3>1, <3>2, FS_EmptySet
  <2>. QED  BY <2>1, <2>2
<1>. QED  BY <1>1, Invariant, PTL
===============================================================================
