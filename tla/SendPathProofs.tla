---------------------------- MODULE SendPathProofs ----------------------------
(***************************************************************************)
(* Theorems about SendPath, for any number of threads and packets and an   *)
(* array of any size.                                                      *)
(***************************************************************************)
EXTENDS SendPath, SequenceTheorems, FiniteSetTheorems, TLAPS

(***************************************************************************)
(* The inductive invariant.  Its middle is FlagInv: isSending_ is set      *)
(* while a thread fills the array or handles the completion, or the kernel *)
(* reads the array, and only one of them does.                             *)
(***************************************************************************)
Steps == {"idle", "isFull", "link", "count", "sendPost", "isSending", "spin", "drain",
          "clear", "WSASend", "pending", "disconnect", "cancel", "complete"}

TypeInv ==
  /\ pc \in [Threads -> Steps]
  /\ call \in [Threads -> Calls]
  /\ fresh \subseteq Packets /\ freed \subseteq Packets
  /\ sendQ \in Seq(Packets) /\ sentQ \in Seq(Packets) /\ pending \in Seq(Packets)
  /\ isSending \in BOOLEAN

(* Threads that have linked a packet and not counted it yet.                *)
Counting == {t \in Threads : pc[t] = "count"}

SizeInv == size = Len(sendQ) - Cardinality(Counting)

(* The steps at which a thread has the flag.                                *)
HasFlag == {"drain", "clear", "WSASend", "complete"}

FlagInv ==
  /\ \A t \in Threads : pc[t] \in HasFlag => isSending /\ pending = <<>>
  /\ \A t, u \in Threads : pc[t] \in HasFlag /\ pc[u] \in HasFlag => t = u
  /\ \A t \in Threads : pc[t] = "WSASend" => sentQ # <<>>
  /\ completion # "none" => pending # <<>>

PacketInv ==
  /\ \A t \in Threads : call[t].packet # NULL <=> pc[t] \in {"isFull", "link"}
  /\ \A t, u \in Threads : call[t].packet = call[u].packet /\ call[t].packet # NULL => t = u
  /\ IsInjective(sendQ)

(* Until its packet is counted a thread is in one of the calls of Send.     *)
CallInv ==
  \A t \in Threads :
    pc[t] \in {"isFull", "link", "count"} => call[t].kind \in {"send", "async", "last"}

Inv == TypeInv /\ SizeInv /\ FlagInv /\ CallInv /\ PacketInv /\ PacketHasOneOwner

(* What has been drained and not been given to WSASend yet.                 *)
Drained == IF \E t \in Threads : pc[t] \in {"drain", "WSASend"} THEN sentQ ELSE <<>>

(* A destroyed session does nothing any more.                               *)
DeadInv ==
  dead => /\ isIOCanceled /\ signs = 0 /\ pending = <<>>
          /\ \A t \in Threads : pc[t] = "idle"

(* \o and <<_>> as operators of their own, which the provers do not expand.  *)
Cat(a, b) == a \o b
Single(a) == <<a>>

OrderInv ==
  /\ wired \in Seq(Packets) /\ order \in Seq(Packets) /\ signs \in Nat
  /\ DeadInv
  /\ linked /\ ~dead => order = Cat(Cat(wired, Drained), sendQ)
  /\ SentInOrder

-------------------------------------------------------------------------------
(* Sequences and the sets of their values.                                  *)

LEMMA NoValues == Values(<<>>) = {} /\ IsInjective(<<>>)
BY DEF Values, IsInjective

LEMMA ValuesInSet ==
  ASSUME NEW S, NEW q \in Seq(S)
  PROVE  Values(q) \subseteq S
BY DEF Values

LEMMA ValuesOfAppend ==
  ASSUME NEW S, NEW q \in Seq(S), NEW x \in S
  PROVE  /\ Append(q, x) \in Seq(S)
         /\ Values(Append(q, x)) = Values(q) \union {x}
         /\ IsInjective(q) /\ x \notin Values(q) => IsInjective(Append(q, x))
<1> DEFINE a == Append(q, x)
<1>1. /\ a \in Seq(S) /\ Len(q) \in Nat
      /\ DOMAIN q = 1 .. Len(q) /\ DOMAIN a = 1 .. Len(q) + 1
      /\ a[Len(q) + 1] = x /\ \A n \in 1 .. Len(q) : a[n] = q[n]
  OBVIOUS
<1> HIDE DEF a
<1>2. \A n \in DOMAIN a : n \in DOMAIN q \/ n = Len(q) + 1
  BY <1>1
<1>3. \A n \in DOMAIN q : n \in DOMAIN a
  BY <1>1
<1>4. Len(q) + 1 \in DOMAIN a
  BY <1>1
<1>5. Values(a) = Values(q) \union {x}
  BY <1>1, <1>2, <1>3, <1>4 DEF Values
<1>6. ASSUME IsInjective(q), x \notin Values(q) PROVE IsInjective(a)
  BY <1>1, <1>2, <1>6 DEF Values, IsInjective
<1> QED
  BY <1>1, <1>5, <1>6 DEF a

LEMMA ValuesOfTail ==
  ASSUME NEW S, NEW q \in Seq(S), q # <<>>, IsInjective(q)
  PROVE  /\ Tail(q) \in Seq(S) /\ Head(q) \in S
         /\ Len(Tail(q)) = Len(q) - 1
         /\ Head(q) \in Values(q)
         /\ Values(Tail(q)) = Values(q) \ {Head(q)}
         /\ IsInjective(Tail(q))
<1> DEFINE r == Tail(q)
<1>1. /\ r \in Seq(S) /\ Len(q) \in Nat /\ Len(q) > 0
      /\ DOMAIN q = 1 .. Len(q) /\ DOMAIN r = 1 .. Len(q) - 1 /\ Len(r) = Len(q) - 1
      /\ Head(q) = q[1] /\ \A n \in 1 .. Len(q) - 1 : r[n] = q[n + 1]
  OBVIOUS
<1> HIDE DEF r
<1>2. 1 \in DOMAIN q /\ q[1] \in S
  BY <1>1
<1>3. \A n \in DOMAIN r : n \in Nat /\ n + 1 \in DOMAIN q /\ n + 1 # 1 /\ r[n] = q[n + 1]
  BY <1>1
<1>4. \A n \in DOMAIN q : n # 1 => n - 1 \in DOMAIN r /\ r[n - 1] = q[n]
  BY <1>1
<1>5. \A m, n \in DOMAIN q : q[m] = q[n] => m = n
  BY DEF IsInjective
<1>6. Values(r) \subseteq Values(q) \ {q[1]}
  BY <1>2, <1>3, <1>5 DEF Values
<1>7. Values(q) \ {q[1]} \subseteq Values(r)
  BY <1>4 DEF Values
<1>8. IsInjective(r)
  <2> SUFFICES ASSUME NEW m \in DOMAIN r, NEW n \in DOMAIN r, r[m] = r[n] PROVE m = n
    BY DEF IsInjective
  <2>1. m + 1 = n + 1
    BY <1>3, <1>5
  <2> QED
    BY <2>1, <1>3
<1> QED
  BY <1>1, <1>2, <1>6, <1>7, <1>8 DEF r, Values

-------------------------------------------------------------------------------
(* Steps in which one thread moves.                                         *)

LEMMA PcMove ==
  ASSUME TypeInv, NEW t \in Threads, NEW w, pc' = [pc EXCEPT ![t] = w]
  PROVE  pc'[t] = w /\ \A u \in Threads : u # t => pc'[u] = pc[u]
BY DEF TypeInv

LEMMA FlagMove ==
  ASSUME TypeInv, FlagInv, NEW t \in Threads, NEW w, pc' = [pc EXCEPT ![t] = w],
         UNCHANGED <<isSending, pending>>,
         w \in HasFlag => pc[t] \in HasFlag,
         w = "WSASend" => sentQ' # <<>>,
         sentQ' = sentQ,
         completion' # "none" => pending # <<>>
  PROVE  FlagInv'
<1>1. pc'[t] = w /\ \A u \in Threads : u # t => pc'[u] = pc[u]
  BY PcMove
<1>2. \A u \in Threads : pc'[u] \in HasFlag => pc[u] \in HasFlag
  BY <1>1
<1>3. \A u \in Threads : pc'[u] = "WSASend" => sentQ' # <<>>
  BY <1>1 DEF FlagInv
<1> QED
  BY <1>2, <1>3 DEF FlagInv

LEMMA CountMove ==
  ASSUME TypeInv, SizeInv, NEW t \in Threads, NEW w, pc' = [pc EXCEPT ![t] = w],
         pc[t] # "count", w # "count", UNCHANGED <<size, sendQ>>
  PROVE  SizeInv'
<1>1. Counting' = Counting
  BY PcMove DEF Counting
<1> QED
  BY <1>1 DEF SizeInv

LEMMA HoldersMove ==
  ASSUME TypeInv, PacketInv, NEW t \in Threads, NEW w, pc' = [pc EXCEPT ![t] = w],
         \A u \in Threads : u # t => call'[u].packet = call[u].packet,
         call'[t].packet # NULL <=> w \in {"isFull", "link"}
  PROVE  \A u \in Threads : call'[u].packet # NULL <=> pc'[u] \in {"isFull", "link"}
<1> SUFFICES ASSUME NEW u \in Threads
             PROVE  call'[u].packet # NULL <=> pc'[u] \in {"isFull", "link"}
  OBVIOUS
<1>1. pc'[t] = w /\ (u # t => pc'[u] = pc[u])
  BY PcMove
<1>2. call[u].packet # NULL <=> pc[u] \in {"isFull", "link"}
  BY DEF PacketInv
<1>3. CASE u = t
  BY <1>1, <1>3
<1>4. CASE u # t
  <2>1. call'[u].packet = call[u].packet /\ pc'[u] = pc[u]
    BY <1>1, <1>4
  <2> QED
    BY <1>2, <2>1
<1> QED
  BY <1>3, <1>4

LEMMA HeldKept ==
  ASSUME \A u \in Threads : call'[u].packet = call[u].packet
  PROVE  Held' = Held
BY DEF Held

LEMMA CallMove ==
  ASSUME TypeInv, CallInv, NEW t \in Threads, NEW w, pc' = [pc EXCEPT ![t] = w],
         \A u \in Threads : u # t => call'[u] = call[u],
         w \in {"isFull", "link", "count"} => call'[t].kind \in {"send", "async", "last"}
  PROVE  CallInv'
<1> SUFFICES ASSUME NEW u \in Threads, pc'[u] \in {"isFull", "link", "count"}
             PROVE  call'[u].kind \in {"send", "async", "last"}
  BY DEF CallInv
<1>1. pc'[t] = w /\ (u # t => pc'[u] = pc[u])
  BY PcMove
<1>2. CASE u = t
  BY <1>1, <1>2
<1>3. CASE u # t
  <2>1. pc[u] \in {"isFull", "link", "count"} /\ call'[u] = call[u]
    BY <1>1, <1>3
  <2> QED
    BY <2>1 DEF CallInv
<1> QED
  BY <1>2, <1>3

(* Steps that leave all packets where they are.                             *)
LEMMA QuietMove ==
  ASSUME Inv, NEW t \in Threads, NEW w \in Steps, pc' = [pc EXCEPT ![t] = w],
         UNCHANGED <<fresh, sendQ, sentQ, freed, size, isSending, pending>>,
         call' \in [Threads -> Calls],
         \A u \in Threads : u # t => call'[u] = call[u],
         call'[t].packet = call[t].packet,
         pc[t] \notin {"isFull", "link", "count"}, w \notin {"isFull", "link", "count"},
         w \in HasFlag => pc[t] \in HasFlag,
         w = "WSASend" => sentQ # <<>>,
         completion' # "none" => pending # <<>>
  PROVE  Inv'
<1>1. TypeInv /\ SizeInv /\ FlagInv /\ CallInv /\ PacketInv /\ PacketHasOneOwner
  BY DEF Inv
<1>2. TypeInv'
  BY <1>1 DEF TypeInv
<1>3. SizeInv'
  BY <1>1, CountMove
<1>4. FlagInv'
  BY <1>1, FlagMove
<1>5. \A u \in Threads : call'[u].packet = call[u].packet
  OBVIOUS
<1>6. PacketInv'
  BY <1>1, <1>5, PcMove DEF PacketInv
<1>7. PacketHasOneOwner'
  BY <1>1, <1>5, HeldKept DEF PacketHasOneOwner
<1>8. CallInv'
  BY <1>1, CallMove
<1> QED
  BY <1>2, <1>3, <1>4, <1>6, <1>7, <1>8 DEF Inv

-------------------------------------------------------------------------------
(* The steps that move a packet or the flag.                                *)

LEMMA SendKeeps ==
  ASSUME Inv, NEW t \in Threads, NEW p \in Packets,
         NEW kind \in {"send", "async", "last"}, Send(t, p, kind)
  PROVE  Inv'
<1>1. TypeInv /\ SizeInv /\ FlagInv /\ CallInv /\ PacketInv /\ PacketHasOneOwner
  BY DEF Inv
<1>2. /\ pc[t] = "idle" /\ p \in fresh /\ fresh' = fresh \ {p}
      /\ UNCHANGED <<sendQ, size, isSending, sentQ, pending, completion>>
  BY DEF Send, queue, kernel
<1>3. p \notin Held \union Values(sendQ) \union Values(sentQ) \union freed
  BY <1>1, <1>2 DEF PacketHasOneOwner, TypeInv
<1>4. p # NULL /\ p \in Packets
  BY SendAssumption
<1>5. CASE isIOCanceled
  <2>1. freed' = freed \union {p} /\ pc' = [pc EXCEPT ![t] = "cancel"] /\ call' = call
    BY <1>5 DEF Send, Goto
  <2>2. TypeInv'
    BY <1>1, <1>2, <2>1 DEF TypeInv, Steps
  <2>3. SizeInv'
    BY <1>1, <1>2, <2>1, CountMove
  <2>4. FlagInv'
    BY <1>1, <1>2, <2>1, FlagMove DEF HasFlag, FlagInv
  <2>5. PacketInv'
    BY <1>1, <1>2, <2>1, PcMove DEF PacketInv
  <2>6. PacketHasOneOwner'
    BY <1>1, <1>2, <1>3, <2>1, HeldKept DEF PacketHasOneOwner, TypeInv
  <2>7. CallInv'
    BY <1>1, <2>1, CallMove
  <2> QED
    BY <2>2, <2>3, <2>4, <2>5, <2>6, <2>7 DEF Inv
<1>6. CASE ~isIOCanceled
  <2>1. /\ pc' = [pc EXCEPT ![t] = "isFull"] /\ freed' = freed
        /\ call' = [call EXCEPT ![t] = [kind |-> kind, packet |-> p]]
    BY <1>6 DEF Send, Goto
  <2>2. call'[t].packet = p /\ \A u \in Threads : u # t => call'[u] = call[u]
    BY <1>1, <2>1 DEF TypeInv
  <2>3. TypeInv'
    BY <1>1, <1>2, <2>1 DEF TypeInv, Steps, Calls
  <2>4. SizeInv'
    BY <1>1, <1>2, <2>1, CountMove
  <2>5. FlagInv'
    BY <1>1, <1>2, <2>1, FlagMove DEF HasFlag, FlagInv
  <2>6. call[t].packet = NULL
    BY <1>1, <1>2 DEF PacketInv
  <2>7. Held' = Held \union {p}
    BY <1>4, <2>2, <2>6 DEF Held
  <2>8. PacketInv'
    <3>1. \A u \in Threads : call[u].packet # p
      BY <1>3, <1>4 DEF Held
    <3>2. \A u \in Threads : call'[u].packet # NULL <=> pc'[u] \in {"isFull", "link"}
      <4>1. \A u \in Threads : u # t => call'[u].packet = call[u].packet
        BY <2>2
      <4> QED
        BY <1>1, <1>4, <2>1, <2>2, <4>1, HoldersMove
    <3>3. \A u, v \in Threads :
            call'[u].packet = call'[v].packet /\ call'[u].packet # NULL => u = v
      BY <1>1, <2>2, <3>1 DEF PacketInv
    <3> QED
      BY <1>1, <1>2, <3>2, <3>3 DEF PacketInv, IsInjective
  <2>9. PacketHasOneOwner'
    BY <1>1, <1>2, <1>3, <2>1, <2>7 DEF PacketHasOneOwner, TypeInv
  <2>10. CallInv'
    <3>1. call'[t].kind \in {"send", "async", "last"}
      BY <1>1, <2>1 DEF TypeInv
    <3> QED
      BY <1>1, <2>1, <2>2, <3>1, CallMove
  <2> QED
    BY <2>3, <2>4, <2>5, <2>8, <2>9, <2>10 DEF Inv
<1> QED
  BY <1>5, <1>6

(* The thread gives up its packet.                                          *)
LEMMA PacketGivenUp ==
  ASSUME TypeInv, PacketInv, NEW t \in Threads, call[t].packet # NULL,
         call'[t].packet = NULL, \A u \in Threads : u # t => call'[u].packet = call[u].packet
  PROVE  /\ Held' = Held \ {call[t].packet} /\ call[t].packet \in Held
         /\ call[t].packet \in Packets
         /\ \A u, v \in Threads :
              call'[u].packet = call'[v].packet /\ call'[u].packet # NULL => u = v
<1>1. \A u \in Threads : u # t => call[u].packet # call[t].packet
  BY DEF PacketInv
<1>2. Held' = Held \ {call[t].packet} /\ call[t].packet \in Held
  BY <1>1 DEF Held
<1>3. call[t].packet \in Packets
  BY DEF TypeInv, Calls
<1> QED
  BY <1>2, <1>3 DEF PacketInv

LEMMA IsFullKeeps ==
  ASSUME Inv, NEW t \in Threads, IsFull(t)
  PROVE  Inv'
<1>1. TypeInv /\ SizeInv /\ FlagInv /\ CallInv /\ PacketInv /\ PacketHasOneOwner
  BY DEF Inv
<1>2. /\ pc[t] = "isFull"
      /\ UNCHANGED <<fresh, sendQ, size, isSending, sentQ, pending, completion>>
  BY DEF IsFull, queue, kernel
<1>3. PICK w \in {"disconnect", "link"} : pc' = [pc EXCEPT ![t] = w]
  BY DEF IsFull, Goto
<1>4. SizeInv'
  BY <1>1, <1>2, <1>3, CountMove
<1>5. FlagInv'
  BY <1>1, <1>2, <1>3, FlagMove DEF HasFlag, FlagInv
<1>6. CASE pc' = [pc EXCEPT ![t] = "disconnect"]
  <2>1. freed' = freed \union {call[t].packet} /\ call' = [call EXCEPT ![t] = NoCall]
    <3>1. pc'[t] = "disconnect"
      BY <1>1, <1>6, PcMove
    <3>2. [pc EXCEPT ![t] = "link"][t] = "link"
      BY <1>1 DEF TypeInv
    <3> QED
      BY <3>1, <3>2 DEF IsFull, Goto
  <2>2. call'[t].packet = NULL /\ \A u \in Threads : u # t => call'[u] = call[u]
    BY <1>1, <2>1 DEF TypeInv, NoCall
  <2>3. call[t].packet # NULL
    BY <1>1, <1>2 DEF PacketInv
  <2>4. /\ Held' = Held \ {call[t].packet} /\ call[t].packet \in Held
        /\ call[t].packet \in Packets
        /\ \A u, v \in Threads :
             call'[u].packet = call'[v].packet /\ call'[u].packet # NULL => u = v
    BY <1>1, <2>2, <2>3, PacketGivenUp
  <2>5. NoCall \in Calls
    BY DEF NoCall, Calls
  <2>6. TypeInv'
    BY <1>1, <1>2, <1>6, <2>1, <2>4, <2>5 DEF TypeInv, Steps
  <2>7. PacketInv'
    <3>1. \A u \in Threads : call'[u].packet # NULL <=> pc'[u] \in {"isFull", "link"}
      BY <1>1, <1>6, <2>2, HoldersMove
    <3> QED
      BY <1>1, <1>2, <2>4, <3>1 DEF PacketInv, IsInjective
  <2>8. PacketHasOneOwner'
    BY <1>1, <1>2, <2>1, <2>4 DEF PacketHasOneOwner
  <2>9. CallInv'
    BY <1>1, <1>6, <2>2, CallMove
  <2> QED
    BY <1>4, <1>5, <2>6, <2>7, <2>8, <2>9 DEF Inv
<1>7. CASE pc' = [pc EXCEPT ![t] = "link"]
  <2>1. freed' = freed /\ call' = call
    <3>1. pc'[t] = "link"
      BY <1>1, <1>7, PcMove
    <3>2. [pc EXCEPT ![t] = "disconnect"][t] = "disconnect"
      BY <1>1 DEF TypeInv
    <3> QED
      BY <3>1, <3>2 DEF IsFull, Goto
  <2>2. TypeInv'
    BY <1>1, <1>2, <1>7, <2>1 DEF TypeInv, Steps
  <2>3. PacketInv'
    BY <1>1, <1>2, <1>7, <2>1, PcMove DEF PacketInv, IsInjective
  <2>4. PacketHasOneOwner'
    BY <1>1, <1>2, <2>1, HeldKept DEF PacketHasOneOwner
  <2>5. CallInv'
    BY <1>1, <1>2, <1>7, <2>1, CallMove DEF CallInv
  <2> QED
    BY <1>4, <1>5, <2>2, <2>3, <2>4, <2>5 DEF Inv
<1> QED
  BY <1>3, <1>6, <1>7

LEMMA LinkKeeps ==
  ASSUME Inv, NEW t \in Threads, Link(t)
  PROVE  Inv'
<1>1. TypeInv /\ SizeInv /\ FlagInv /\ CallInv /\ PacketInv /\ PacketHasOneOwner
  BY DEF Inv
<1> DEFINE p == call[t].packet
<1>2. /\ pc[t] = "link" /\ pc' = [pc EXCEPT ![t] = "count"]
      /\ sendQ' = Append(sendQ, p) /\ call' = [call EXCEPT ![t].packet = NULL]
      /\ UNCHANGED <<fresh, size, isSending, sentQ, pending, completion, freed>>
  BY DEF Link, Goto, kernel
<1>3. /\ call'[t].packet = NULL /\ call'[t] \in Calls /\ call'[t].kind = call[t].kind
      /\ \A u \in Threads : u # t => call'[u] = call[u]
  BY <1>1, <1>2 DEF TypeInv, Calls
<1>4. p # NULL
  BY <1>1, <1>2 DEF PacketInv
<1>5. /\ Held' = Held \ {p} /\ p \in Held /\ p \in Packets
      /\ \A u, v \in Threads :
           call'[u].packet = call'[v].packet /\ call'[u].packet # NULL => u = v
  BY <1>1, <1>3, <1>4, PacketGivenUp
<1> HIDE DEF p
<1>6. p \notin Values(sendQ)
  BY <1>1, <1>5 DEF PacketHasOneOwner
<1>7. /\ sendQ' \in Seq(Packets) /\ Values(sendQ') = Values(sendQ) \union {p}
      /\ IsInjective(sendQ') /\ Len(sendQ') = Len(sendQ) + 1 /\ Len(sendQ) \in Nat
  <2>1. sendQ \in Seq(Packets) /\ IsInjective(sendQ)
    BY <1>1 DEF TypeInv, PacketInv
  <2>2. Len(sendQ') = Len(sendQ) + 1 /\ Len(sendQ) \in Nat
    BY <1>2, <1>5, <2>1
  <2> QED
    BY <1>2, <1>5, <1>6, <2>1, <2>2, ValuesOfAppend
<1>8. TypeInv'
  <2>1. call' \in [Threads -> Calls]
    BY <1>1, <1>2, <1>3 DEF TypeInv
  <2> QED
    BY <1>1, <1>2, <1>7, <2>1 DEF TypeInv, Steps
<1>9. SizeInv'
  <2>1. Counting' = Counting \union {t} /\ t \notin Counting
    BY <1>1, <1>2, PcMove DEF Counting
  <2>2. IsFiniteSet(Counting)
    BY SendAssumption, FS_Subset DEF Counting
  <2>3. Cardinality(Counting') = Cardinality(Counting) + 1 /\ Cardinality(Counting) \in Nat
    BY <2>1, <2>2, FS_AddElement, FS_CardinalityType
  <2> QED
    BY <1>1, <1>2, <1>7, <2>3 DEF SizeInv
<1>10. FlagInv'
  BY <1>1, <1>2, FlagMove DEF HasFlag, FlagInv
<1>11. PacketInv'
  <2>1. \A u \in Threads : call'[u].packet # NULL <=> pc'[u] \in {"isFull", "link"}
    <3>1. \A u \in Threads : u # t => call'[u].packet = call[u].packet
      BY <1>3
    <3> QED
      BY <1>1, <1>2, <1>3, <3>1, HoldersMove
  <2> QED
    BY <1>5, <1>7, <2>1 DEF PacketInv
<1>12. PacketHasOneOwner'
  BY <1>1, <1>2, <1>5, <1>7 DEF PacketHasOneOwner
<1>13. CallInv'
  BY <1>1, <1>2, <1>3, CallMove DEF CallInv
<1> QED
  BY <1>8, <1>9, <1>10, <1>11, <1>12, <1>13 DEF Inv

LEMMA CountKeeps ==
  ASSUME Inv, NEW t \in Threads, Count(t)
  PROVE  Inv'
<1>1. TypeInv /\ SizeInv /\ FlagInv /\ CallInv /\ PacketInv /\ PacketHasOneOwner
  BY DEF Inv
<1>2. /\ pc[t] = "count" /\ size' = size + 1 /\ call' = call
      /\ UNCHANGED <<fresh, sendQ, isSending, sentQ, pending, completion, freed>>
  BY DEF Count, kernel
<1>3. PICK w \in {"sendPost", "isSending", "disconnect"} : pc' = [pc EXCEPT ![t] = w]
  <2>1. call[t].kind \in {"send", "async", "last"}
    BY <1>1, <1>2 DEF CallInv
  <2> QED
    BY <2>1 DEF Count, Goto
<1>4. TypeInv'
  BY <1>1, <1>2, <1>3 DEF TypeInv, Steps
<1>5. SizeInv'
  <2>1. Counting' = Counting \ {t} /\ t \in Counting
    BY <1>1, <1>2, <1>3, PcMove DEF Counting
  <2>2. IsFiniteSet(Counting)
    BY SendAssumption, FS_Subset DEF Counting
  <2>3. Cardinality(Counting') = Cardinality(Counting) - 1 /\ Cardinality(Counting) \in Nat
    BY <2>1, <2>2, FS_RemoveElement, FS_CardinalityType
  <2>4. Len(sendQ) \in Nat /\ Len(sendQ') = Len(sendQ)
    BY <1>1, <1>2 DEF TypeInv
  <2> QED
    BY <1>1, <1>2, <2>3, <2>4 DEF SizeInv
<1>6. FlagInv'
  BY <1>1, <1>2, <1>3, FlagMove DEF HasFlag, FlagInv
<1>7. CallInv'
  BY <1>1, <1>2, <1>3, CallMove
<1>8. PacketInv'
  BY <1>1, <1>2, <1>3, PcMove DEF PacketInv, IsInjective
<1>9. PacketHasOneOwner'
  BY <1>1, <1>2, HeldKept DEF PacketHasOneOwner
<1> QED
  BY <1>4, <1>5, <1>6, <1>7, <1>8, <1>9 DEF Inv

(* No thread has the flag while it is clear, and the kernel reads nothing.  *)
LEMMA ClearFlagIsFree ==
  ASSUME Inv, ~isSending
  PROVE  pending = <<>> /\ \A t \in Threads : pc[t] \notin HasFlag
BY DEF Inv, FlagInv, PacketHasOneOwner

(* SendPost and SendAndDisconnectPost when they get the flag.               *)
LEMMA TakeFlagKeeps ==
  ASSUME Inv, NEW t \in Threads, pc[t] \in {"sendPost", "spin"}, ~isSending, TakeFlag(t),
         UNCHANGED <<fresh, sendQ, size, pending, completion>>,
         call' \in [Threads -> Calls],
         \A u \in Threads : u # t => call'[u] = call[u], call'[t].packet = call[t].packet
  PROVE  Inv'
<1>1. TypeInv /\ SizeInv /\ FlagInv /\ CallInv /\ PacketInv /\ PacketHasOneOwner
  BY DEF Inv
<1>2. /\ isSending' = TRUE /\ freed' = freed \union Values(sentQ) /\ sentQ' = <<>>
      /\ pc' = [pc EXCEPT ![t] = "drain"]
  BY DEF TakeFlag, Goto
<1>3. pc'[t] = "drain" /\ \A u \in Threads : u # t => pc'[u] = pc[u]
  BY <1>1, <1>2, PcMove
<1>4. pending = <<>> /\ \A u \in Threads : pc[u] \notin HasFlag
  BY ClearFlagIsFree
<1>5. TypeInv'
  <2>1. Values(sentQ) \subseteq Packets
    BY <1>1, ValuesInSet DEF TypeInv
  <2>2. <<>> \in Seq(Packets)
    OBVIOUS
  <2> QED
    BY <1>1, <1>2, <2>1, <2>2 DEF TypeInv, Steps
<1>6. SizeInv'
  BY <1>1, <1>2, CountMove
<1>7. FlagInv'
  BY <1>1, <1>2, <1>3, <1>4 DEF FlagInv, HasFlag
<1>8. CallInv'
  BY <1>1, <1>2, CallMove
<1>9. \A u \in Threads : call'[u].packet = call[u].packet
  OBVIOUS
<1>10. PacketInv'
  BY <1>1, <1>3, <1>9 DEF PacketInv, IsInjective
<1>11. PacketHasOneOwner'
  BY <1>1, <1>2, <1>4, <1>9, HeldKept, NoValues DEF PacketHasOneOwner
<1> QED
  BY <1>5, <1>6, <1>7, <1>8, <1>10, <1>11 DEF Inv

LEMMA DrainKeeps ==
  ASSUME Inv, NEW t \in Threads, Drain(t)
  PROVE  Inv'
<1>1. TypeInv /\ SizeInv /\ FlagInv /\ CallInv /\ PacketInv /\ PacketHasOneOwner
  BY DEF Inv
<1>2. /\ pc[t] = "drain" /\ size > 0 /\ size' = size - 1
      /\ sendQ' = Tail(sendQ) /\ sentQ' = Append(sentQ, Head(sendQ))
      /\ UNCHANGED <<pc, call, fresh, isSending, pending, completion, freed>>
  BY DEF Drain, kernel
<1>3. sendQ \in Seq(Packets) /\ sentQ \in Seq(Packets) /\ IsInjective(sendQ)
  BY <1>1 DEF TypeInv, PacketInv
<1>4. IsFiniteSet(Counting) /\ Cardinality(Counting) \in Nat /\ Len(sendQ) \in Nat
  BY <1>3, SendAssumption, FS_Subset, FS_CardinalityType DEF Counting
<1>5. sendQ # <<>>
  <2>1. Len(sendQ) > 0
    BY <1>1, <1>2, <1>4 DEF SizeInv
  <2> QED
    BY <2>1
<1>6. /\ sendQ' \in Seq(Packets) /\ Head(sendQ) \in Packets
      /\ Len(sendQ') = Len(sendQ) - 1 /\ Head(sendQ) \in Values(sendQ)
      /\ Values(sendQ') = Values(sendQ) \ {Head(sendQ)} /\ IsInjective(sendQ')
  BY <1>2, <1>3, <1>5, ValuesOfTail
<1>7. /\ sentQ' \in Seq(Packets)
      /\ Values(sentQ') = Values(sentQ) \union {Head(sendQ)}
  BY <1>2, <1>3, <1>6, ValuesOfAppend
<1>8. TypeInv'
  BY <1>1, <1>2, <1>6, <1>7 DEF TypeInv
<1>9. SizeInv'
  <2>1. Counting' = Counting
    BY <1>2 DEF Counting
  <2> QED
    BY <1>1, <1>2, <1>4, <1>6, <2>1 DEF SizeInv
<1>10. FlagInv'
  <2>1. \A u \in Threads : pc[u] # "WSASend"
    BY <1>1, <1>2 DEF FlagInv, HasFlag
  <2> QED
    BY <1>1, <1>2, <2>1 DEF FlagInv
<1>11. CallInv'
  BY <1>1, <1>2 DEF CallInv
<1>12. PacketInv'
  BY <1>1, <1>2, <1>6 DEF PacketInv
<1>13. PacketHasOneOwner'
  <2>1. pending = <<>>
    BY <1>1, <1>2 DEF FlagInv, HasFlag
  <2>2. Held' = Held
    BY <1>2, HeldKept
  <2> QED
    BY <1>1, <1>2, <1>6, <1>7, <2>1, <2>2 DEF PacketHasOneOwner
<1> QED
  BY <1>8, <1>9, <1>10, <1>11, <1>12, <1>13 DEF Inv

(* A thread that has the flag clears it.                                    *)
LEMMA FlagGivenUp ==
  ASSUME Inv, NEW t \in Threads, NEW w \in {"idle", "sendPost"}, pc[t] \in HasFlag,
         pc' = [pc EXCEPT ![t] = w], isSending' = FALSE,
         UNCHANGED <<call, fresh, size, sendQ, sentQ, pending, completion, freed>>
  PROVE  Inv'
<1>1. TypeInv /\ SizeInv /\ FlagInv /\ CallInv /\ PacketInv /\ PacketHasOneOwner
  BY DEF Inv
<1>2. pc'[t] = w /\ \A u \in Threads : u # t => pc'[u] = pc[u]
  BY <1>1, PcMove
<1>3. pc[t] \notin {"isFull", "link", "count"} /\ w \notin HasFlag
  BY DEF HasFlag
<1>4. pending = <<>> /\ \A u \in Threads : u # t => pc[u] \notin HasFlag
  BY <1>1 DEF FlagInv
<1>5. TypeInv'
  BY <1>1 DEF TypeInv, Steps
<1>6. SizeInv'
  BY <1>1, <1>3, CountMove
<1>7. FlagInv'
  <2>1. \A u \in Threads : pc'[u] \notin HasFlag
    BY <1>2, <1>3, <1>4
  <2>2. \A u \in Threads : pc'[u] # "WSASend"
    BY <2>1 DEF HasFlag
  <2> QED
    BY <1>1, <2>1, <2>2 DEF FlagInv
<1>8. CallInv'
  BY <1>1, CallMove
<1>9. PacketInv'
  BY <1>1, <1>2, <1>3 DEF PacketInv, IsInjective
<1>10. PacketHasOneOwner'
  BY <1>1, <1>4, HeldKept DEF PacketHasOneOwner
<1> QED
  BY <1>5, <1>6, <1>7, <1>8, <1>9, <1>10 DEF Inv

LEMMA WSASendKeeps ==
  ASSUME Inv, NEW t \in Threads, WSASend(t)
  PROVE  Inv'
<1>1. TypeInv /\ SizeInv /\ FlagInv /\ CallInv /\ PacketInv /\ PacketHasOneOwner
  BY DEF Inv
<1>2. /\ pc[t] = "WSASend"
      /\ UNCHANGED <<call, fresh, sendQ, size, isSending, sentQ, freed>>
  BY DEF WSASend, queue
<1>3. isSending /\ sentQ # <<>> /\ \A u \in Threads : u # t => pc[u] \notin HasFlag
  BY <1>1, <1>2 DEF FlagInv, HasFlag
<1>4. CASE linked
  <2>1. /\ pending' = sentQ
        /\ \/ completion' = "sent" /\ pc' = [pc EXCEPT ![t] = "idle"]
           \/ completion' = "none" /\ pc' = [pc EXCEPT ![t] = "pending"]
    BY <1>4 DEF WSASend, Goto
  <2>2. PICK w \in {"idle", "pending"} : pc' = [pc EXCEPT ![t] = w]
    BY <2>1
  <2>3. pc'[t] = w /\ \A u \in Threads : u # t => pc'[u] = pc[u]
    BY <1>1, <2>2, PcMove
  <2>4. TypeInv'
    BY <1>1, <1>2, <2>1, <2>2 DEF TypeInv, Steps
  <2>5. SizeInv'
    BY <1>1, <1>2, <2>2, CountMove
  <2>6. FlagInv'
    <3>1. \A u \in Threads : pc'[u] \notin HasFlag
      BY <1>3, <2>3 DEF HasFlag
    <3>2. \A u \in Threads : pc'[u] # "WSASend"
      BY <3>1 DEF HasFlag
    <3> QED
      BY <1>3, <2>1, <3>1, <3>2 DEF FlagInv
  <2>7. CallInv'
    BY <1>1, <1>2, <2>2, CallMove
  <2>8. PacketInv'
    BY <1>1, <1>2, <2>3 DEF PacketInv, IsInjective
  <2>9. PacketHasOneOwner'
    BY <1>1, <1>2, <1>3, <2>1, HeldKept DEF PacketHasOneOwner
  <2> QED
    BY <2>4, <2>5, <2>6, <2>7, <2>8, <2>9 DEF Inv
<1>5. CASE ~linked
  <2>1. pc' = [pc EXCEPT ![t] = "idle"] /\ UNCHANGED <<pending, completion>>
    BY <1>5 DEF WSASend, Goto, kernel
  <2>2. completion' # "none" => pending # <<>>
    BY <1>1, <2>1 DEF FlagInv
  <2>3. call' \in [Threads -> Calls]
    BY <1>1, <1>2 DEF TypeInv
  <2> QED
    BY <1>2, <2>1, <2>2, <2>3, QuietMove DEF Steps, HasFlag
<1> QED
  BY <1>4, <1>5

(* A thread that holds no packet forgets what it was called for.            *)
LEMMA CallForgotten ==
  ASSUME Inv, NEW t \in Threads, pc[t] = "idle", call' = [call EXCEPT ![t] = NoCall]
  PROVE  /\ call' \in [Threads -> Calls]
         /\ \A u \in Threads : u # t => call'[u] = call[u]
         /\ call'[t].packet = call[t].packet
<1>1. NoCall \in Calls /\ NoCall.packet = NULL
  BY DEF NoCall, Calls
<1>2. call \in [Threads -> Calls] /\ call[t].packet = NULL
  BY DEF Inv, TypeInv, PacketInv
<1> QED
  BY <1>1, <1>2

LEMMA OnCompletionKeeps ==
  ASSUME Inv, NEW t \in Threads, OnCompletion(t)
  PROVE  Inv'
<1>1. TypeInv /\ SizeInv /\ FlagInv /\ CallInv /\ PacketInv /\ PacketHasOneOwner
  BY DEF Inv
<1>2. /\ pc[t] = "idle" /\ completion # "none" /\ pending' = <<>> /\ completion' = "none"
      /\ call' = [call EXCEPT ![t] = NoCall]
      /\ UNCHANGED <<fresh, sendQ, size, isSending, sentQ, freed>>
  BY DEF OnCompletion, queue
<1>3. PICK w \in {"disconnect", "complete", "idle"} : pc' = [pc EXCEPT ![t] = w]
  BY DEF OnCompletion, Goto
<1>4. pc'[t] = w /\ \A u \in Threads : u # t => pc'[u] = pc[u]
  BY <1>1, <1>3, PcMove
<1>5. isSending /\ \A u \in Threads : pc[u] \notin HasFlag
  BY <1>1, <1>2 DEF FlagInv, PacketHasOneOwner
<1>6. /\ call' \in [Threads -> Calls]
      /\ \A u \in Threads : u # t => call'[u] = call[u]
      /\ call'[t].packet = call[t].packet
  BY <1>2, CallForgotten
<1>7. \A u \in Threads : call'[u].packet = call[u].packet
  BY <1>6
<1>8. TypeInv'
  BY <1>1, <1>2, <1>3, <1>6 DEF TypeInv, Steps
<1>9. SizeInv'
  BY <1>1, <1>2, <1>3, CountMove
<1>10. FlagInv'
  <2>1. \A u \in Threads : pc'[u] \in HasFlag => u = t
    BY <1>4, <1>5
  <2>2. \A u \in Threads : pc'[u] # "WSASend"
    BY <1>4, <1>5 DEF HasFlag
  <2> QED
    BY <1>2, <1>5, <2>1, <2>2 DEF FlagInv
<1>11. CallInv'
  BY <1>1, <1>3, <1>6, CallMove
<1>12. PacketInv'
  <2>1. \A u \in Threads : call'[u].packet # NULL <=> pc'[u] \in {"isFull", "link"}
    BY <1>1, <1>2, <1>3, <1>4, <1>7 DEF PacketInv
  <2> QED
    BY <1>1, <1>2, <1>7, <2>1 DEF PacketInv, IsInjective
<1>13. PacketHasOneOwner'
  BY <1>1, <1>2, <1>7, HeldKept DEF PacketHasOneOwner
<1> QED
  BY <1>8, <1>9, <1>10, <1>11, <1>12, <1>13 DEF Inv

LEMMA DestroyKeeps ==
  ASSUME Inv, Destroy
  PROVE  Inv'
<1>1. TypeInv /\ SizeInv /\ FlagInv /\ CallInv /\ PacketInv /\ PacketHasOneOwner
  BY DEF Inv
<1>2. /\ \A t \in Threads : pc[t] = "idle"
      /\ pending = <<>> /\ sentQ' = <<>> /\ sendQ' = <<>> /\ size' = 0
      /\ freed' = freed \union Values(sentQ) \union Values(sendQ) /\ isSending' = FALSE
      /\ UNCHANGED <<pc, call, fresh, pending, completion>>
  BY DEF Destroy, kernel
<1>3. TypeInv'
  <2>1. Values(sentQ) \subseteq Packets /\ Values(sendQ) \subseteq Packets
    BY <1>1, ValuesInSet DEF TypeInv
  <2>2. <<>> \in Seq(Packets)
    OBVIOUS
  <2> QED
    BY <1>1, <1>2, <2>1, <2>2 DEF TypeInv
<1>4. SizeInv'
  <2>1. Counting' = {}
    BY <1>2 DEF Counting
  <2>2. Cardinality(Counting') = 0 /\ Len(sendQ') = 0
    BY <1>2, <2>1, FS_EmptySet
  <2> QED
    BY <1>2, <2>2 DEF SizeInv
<1>5. FlagInv'
  BY <1>1, <1>2 DEF FlagInv, HasFlag
<1>6. CallInv'
  BY <1>1, <1>2 DEF CallInv
<1>7. PacketInv'
  BY <1>1, <1>2, NoValues DEF PacketInv
<1>8. PacketHasOneOwner'
  BY <1>1, <1>2, HeldKept, NoValues DEF PacketHasOneOwner
<1> QED
  BY <1>3, <1>4, <1>5, <1>6, <1>7, <1>8 DEF Inv

(* Steps in which no thread moves and no packet does.                       *)
LEMMA StillKeeps ==
  ASSUME Inv,
         UNCHANGED <<pc, call, fresh, sendQ, size, sentQ, freed, isSending, pending>>,
         completion' # "none" => pending # <<>>
  PROVE  Inv'
<1>1. Held' = Held
  BY DEF Held
<1> QED
  BY <1>1 DEF Inv, TypeInv, SizeInv, Counting, FlagInv, CallInv, PacketInv, IsInjective,
              PacketHasOneOwner

(* The other steps of a thread that sends or disconnects.                   *)
LEMMA WalkKeeps ==
  ASSUME Inv, NEW t \in Threads, Walk(t)
  PROVE  Inv'
<1>1. TypeInv /\ FlagInv
  BY DEF Inv
<1>2. completion # "none" => pending # <<>>
  BY <1>1 DEF FlagInv
<1>3. call \in [Threads -> Calls]
  BY <1>1 DEF TypeInv
<1>4. CASE IsFull(t) \/ Link(t) \/ Count(t)
  BY <1>4, IsFullKeeps, LinkKeeps, CountKeeps
<1>5. CASE IsSending(t)
  <2>1. /\ pc' = [pc EXCEPT ![t] = "idle"] /\ pc[t] = "isSending"
        /\ UNCHANGED <<call, fresh, sendQ, sentQ, freed, size, isSending, pending, completion>>
    BY <1>5 DEF IsSending, TurnAway, Goto, queue, kernel
  <2> QED
    BY <1>2, <1>3, <2>1, QuietMove DEF Steps, HasFlag
<1>6. CASE SendPost(t)
  <2>1. /\ pc[t] = "sendPost"
        /\ UNCHANGED <<call, fresh, sendQ, size, pending, completion>>
    BY <1>6 DEF SendPost, queue, kernel
  <2>2. CASE isSending
    <3>1. /\ pc' = [pc EXCEPT ![t] = "idle"] /\ UNCHANGED <<isSending, freed, sentQ>>
      BY <1>6, <2>2 DEF SendPost, TurnAway, Goto
    <3> QED
      BY <1>2, <1>3, <2>1, <3>1, QuietMove DEF Steps, HasFlag
  <2>3. CASE ~isSending
    <3>1. TakeFlag(t)
      BY <1>6, <2>3 DEF SendPost
    <3> QED
      BY <1>3, <2>1, <2>3, <3>1, TakeFlagKeeps
  <2> QED
    BY <2>2, <2>3
<1>7. CASE SendAndDisconnectPost(t)
  <2>1. /\ pc[t] = "spin"
        /\ UNCHANGED <<fresh, sendQ, size, pending, completion>>
    BY <1>7 DEF SendAndDisconnectPost, queue, kernel
  <2>2. CASE isSending
    <3>1. pc' = [pc EXCEPT ![t] = "idle"] /\ UNCHANGED <<call, isSending, freed, sentQ>>
      BY <1>7, <2>2 DEF SendAndDisconnectPost, Goto
    <3> QED
      BY <1>2, <1>3, <2>1, <3>1, QuietMove DEF Steps, HasFlag
  <2>3. CASE ~isSending
    <3>1. TakeFlag(t) /\ call' = [call EXCEPT ![t].kind = "lastSend"]
      BY <1>7, <2>3 DEF SendAndDisconnectPost
    <3>2. /\ call' \in [Threads -> Calls]
          /\ \A u \in Threads : u # t => call'[u] = call[u]
          /\ call'[t].packet = call[t].packet
      BY <1>3, <3>1 DEF Calls
    <3> QED
      BY <2>1, <2>3, <3>1, <3>2, TakeFlagKeeps
  <2> QED
    BY <2>2, <2>3
<1>8. CASE Drain(t)
  BY <1>8, DrainKeeps
<1>9. CASE DrainEnd(t)
  <2>1. PICK w \in {"clear", "WSASend"} :
          /\ pc' = [pc EXCEPT ![t] = w] /\ (w = "WSASend" => sentQ # <<>>)
    BY <1>9 DEF DrainEnd, Goto
  <2>2. /\ pc[t] = "drain"
        /\ UNCHANGED <<call, fresh, sendQ, sentQ, freed, size, isSending, pending, completion>>
    BY <1>9 DEF DrainEnd, queue, kernel
  <2> QED
    BY <1>2, <1>3, <2>1, <2>2, QuietMove DEF Steps, HasFlag
<1>10. CASE ClearFlag(t)
  <2>1. /\ pc[t] \in HasFlag /\ pc' = [pc EXCEPT ![t] = "idle"] /\ isSending' = FALSE
        /\ UNCHANGED <<call, fresh, size, sendQ, sentQ, pending, completion, freed>>
    BY <1>10 DEF ClearFlag, HasFlag, Goto, queue, kernel
  <2> QED
    BY <2>1, FlagGivenUp
<1>11. CASE WSASend(t)
  BY <1>11, WSASendKeeps
<1>12. CASE Pending(t)
  <2>1. PICK w \in {"cancel", "idle", "disconnect"} : pc' = [pc EXCEPT ![t] = w]
    BY <1>12 DEF Pending, Goto
  <2>2. /\ pc[t] = "pending"
        /\ UNCHANGED <<call, fresh, sendQ, sentQ, freed, size, isSending, pending, completion>>
    BY <1>12 DEF Pending, queue, kernel
  <2> QED
    BY <1>2, <1>3, <2>1, <2>2, QuietMove DEF Steps, HasFlag
<1>13. CASE SetCanceled(t)
  <2>1. /\ pc[t] = "disconnect" /\ pc' = [pc EXCEPT ![t] = "cancel"]
        /\ UNCHANGED <<call, fresh, sendQ, sentQ, freed, size, isSending, pending, completion>>
    BY <1>13 DEF SetCanceled, Goto, queue, kernel
  <2> QED
    BY <1>2, <1>3, <2>1, QuietMove DEF Steps, HasFlag
<1>14. CASE CancelIO(t)
  <2>1. PICK w \in {"spin", "idle"} : pc' = [pc EXCEPT ![t] = w]
    BY <1>14 DEF CancelIO, Goto
  <2>2. /\ pc[t] = "cancel"
        /\ UNCHANGED <<call, fresh, sendQ, sentQ, freed, size, isSending, pending>>
    BY <1>14 DEF CancelIO, queue
  <2>3. completion' # "none" => pending # <<>>
    BY <1>2, <1>14 DEF CancelIO
  <2> QED
    BY <1>3, <2>1, <2>2, <2>3, QuietMove DEF Steps, HasFlag
<1>15. CASE SetSendFlagFalse(t)
  <2>1. /\ pc[t] \in HasFlag /\ pc' = [pc EXCEPT ![t] = "sendPost"] /\ isSending' = FALSE
        /\ UNCHANGED <<call, fresh, size, sendQ, sentQ, pending, completion, freed>>
    BY <1>15 DEF SetSendFlagFalse, HasFlag, Goto, queue, kernel
  <2> QED
    BY <2>1, FlagGivenUp
<1> QED
  BY <1>4, <1>5, <1>6, <1>7, <1>8, <1>9, <1>10, <1>11, <1>12, <1>13, <1>14, <1>15 DEF Walk

LEMMA StepKeeps ==
  ASSUME Inv, [Next]_vars
  PROVE  Inv'
<1>1. completion # "none" => pending # <<>>
  BY DEF Inv, FlagInv
<1>2. ASSUME NEW t \in Threads, Walk(t) PROVE Inv'
  BY <1>2, WalkKeeps
<1>3. ASSUME NEW t \in Threads, Disconnect(t) PROVE Inv'
  <2>1. /\ pc[t] = "idle" /\ pc' = [pc EXCEPT ![t] = "disconnect"]
        /\ call' = [call EXCEPT ![t] = NoCall]
        /\ UNCHANGED <<fresh, sendQ, sentQ, freed, size, isSending, pending, completion>>
    BY <1>3 DEF Disconnect, Goto, queue, kernel
  <2> QED
    BY <1>1, <2>1, CallForgotten, QuietMove DEF Steps, HasFlag
<1>4. ASSUME NEW t \in Threads, TakeSign(t) PROVE Inv'
  <2>1. /\ pc[t] = "idle" /\ pc' = [pc EXCEPT ![t] = "sendPost"]
        /\ call' = [call EXCEPT ![t] = NoCall]
        /\ UNCHANGED <<fresh, sendQ, sentQ, freed, size, isSending, pending, completion>>
    BY <1>4 DEF TakeSign, Goto, queue, kernel
  <2> QED
    BY <1>1, <2>1, CallForgotten, QuietMove DEF Steps, HasFlag
<1>5. CASE KernelCompletes
  <2>1. /\ pending # <<>>
        /\ UNCHANGED <<pc, call, fresh, sendQ, size, sentQ, freed, isSending, pending>>
    BY <1>5 DEF KernelCompletes, queue
  <2> QED
    BY <2>1, StillKeeps
<1>6. CASE ConnectionBreaks
  <2>1. UNCHANGED <<pc, call, fresh, sendQ, size, sentQ, freed, isSending, pending, completion>>
    BY <1>6 DEF ConnectionBreaks, queue, kernel
  <2> QED
    BY <1>1, <2>1, StillKeeps
<1>7. CASE UNCHANGED vars
  <2>1. UNCHANGED <<pc, call, fresh, sendQ, size, sentQ, freed, isSending, pending, completion>>
    BY <1>7 DEF vars, queue, kernel
  <2> QED
    BY <1>1, <2>1, StillKeeps
<1> QED
  BY <1>2, <1>3, <1>4, <1>5, <1>6, <1>7, SendKeeps, OnCompletionKeeps, DestroyKeeps
     DEF Next, Completion

LEMMA InitKeeps == Init => Inv
<1> SUFFICES ASSUME Init PROVE Inv
  OBVIOUS
<1>1. NoCall \in Calls /\ NoCall.packet = NULL
  BY DEF NoCall, Calls
<1>2. \A t \in Threads : pc[t] = "idle" /\ call[t] = NoCall
  BY DEF Init
<1>3. TypeInv
  <2>1. <<>> \in Seq(Packets)
    OBVIOUS
  <2> QED
    BY <1>1, <2>1 DEF Init, TypeInv, Steps
<1>4. SizeInv
  <2>1. Counting = {}
    BY <1>2 DEF Counting
  <2>2. Cardinality(Counting) = 0 /\ Len(sendQ) = 0 /\ size = 0
    BY <2>1, FS_EmptySet DEF Init
  <2> QED
    BY <2>2 DEF SizeInv
<1>5. FlagInv
  BY <1>2 DEF Init, FlagInv, HasFlag
<1>6. CallInv
  BY <1>2 DEF CallInv
<1>7. PacketInv
  BY <1>1, <1>2, NoValues DEF Init, PacketInv
<1>8. PacketHasOneOwner
  <2>1. Held = {}
    BY <1>1, <1>2 DEF Held
  <2> QED
    BY <2>1, NoValues DEF Init, PacketHasOneOwner
<1> QED
  BY <1>3, <1>4, <1>5, <1>6, <1>7, <1>8 DEF Inv

THEOREM InvInvariant == Spec => []Inv
BY InitKeeps, StepKeeps, PTL DEF Spec

(***************************************************************************)
(* A packet is with its sender, in sendQ_, in sentQ_ or freed, never in    *)
(* two of these places and never in none; and what a WSASend reads is all  *)
(* of sentQ_.  It holds with any number of threads in SendPost,            *)
(* SendAndDisconnectPost and Disconnect, because isSending_ is clear only  *)
(* when neither a thread nor the kernel uses the array (FlagInv).          *)
(***************************************************************************)
THEOREM PacketsHaveOneOwner == Spec => []PacketHasOneOwner
<1>1. Inv => PacketHasOneOwner
  BY DEF Inv
<1> QED
  BY <1>1, InvInvariant, PTL

-------------------------------------------------------------------------------
(* The order on the wire.                                                   *)

LEMMA CatIsSeq == ASSUME NEW S, NEW a \in Seq(S), NEW b \in Seq(S) PROVE Cat(a, b) \in Seq(S)
BY DEF Cat

LEMMA CatAssoc ==
  ASSUME NEW S, NEW a \in Seq(S), NEW b \in Seq(S), NEW c \in Seq(S)
  PROVE  Cat(Cat(a, b), c) = Cat(a, Cat(b, c))
BY ConcatAssociative DEF Cat

LEMMA CatLast ==
  ASSUME NEW S, NEW a \in Seq(S), NEW p \in S
  PROVE  Single(p) \in Seq(S) /\ Append(a, p) = Cat(a, Single(p))
<1>1. Single(p) \in Seq(S)
  BY DEF Single
<1>2. Append(a, p) = a \o <<p>>
  BY AppendIsConcat
<1> QED
  BY <1>1, <1>2 DEF Cat, Single

LEMMA CatFirst ==
  ASSUME NEW S, NEW q \in Seq(S), q # <<>>
  PROVE  Head(q) \in S /\ Tail(q) \in Seq(S) /\ q = Cat(Single(Head(q)), Tail(q))
BY HeadTailProperties, ConcatProperties DEF Cat, Single

LEMMA DrainMovesHead ==
  ASSUME NEW S, NEW w \in Seq(S), NEW d \in Seq(S), NEW q \in Seq(S), q # <<>>
  PROVE  Cat(Cat(w, d), q) = Cat(Cat(w, Append(d, Head(q))), Tail(q))
<1> DEFINE h == Head(q)
           r == Tail(q)
<1>1. h \in S /\ r \in Seq(S) /\ q = Cat(Single(h), r)
  BY CatFirst
<1> HIDE DEF h, r
<1>2. Single(h) \in Seq(S) /\ Append(d, h) = Cat(d, Single(h))
  BY <1>1, CatLast
<1>3. Cat(w, d) \in Seq(S)
  BY CatIsSeq
<1>4. Cat(Cat(w, d), q) = Cat(Cat(Cat(w, d), Single(h)), r)
  BY <1>1, <1>2, <1>3, CatAssoc
<1>5. Cat(Cat(w, d), Single(h)) = Cat(w, Cat(d, Single(h)))
  BY <1>2, CatAssoc
<1> QED
  BY <1>2, <1>4, <1>5 DEF h, r

LEMMA AppendGoesLast ==
  ASSUME NEW S, NEW w \in Seq(S), NEW q \in Seq(S), NEW p \in S
  PROVE  Append(Cat(w, q), p) = Cat(w, Append(q, p))
<1>1. Cat(w, q) \in Seq(S)
  BY CatIsSeq
<1>2. /\ Single(p) \in Seq(S) /\ Append(Cat(w, q), p) = Cat(Cat(w, q), Single(p))
      /\ Append(q, p) = Cat(q, Single(p))
  BY <1>1, CatLast
<1> QED
  BY <1>1, <1>2, CatAssoc

LEMMA BeginsWith ==
  ASSUME NEW S, NEW w \in Seq(S), NEW q \in Seq(S)
  PROVE  Len(w) <= Len(Cat(w, q)) /\ \A n \in 1 .. Len(w) : w[n] = Cat(w, q)[n]
BY DEF Cat

(* A destroyed session stays as it is.                                      *)
LEMMA DeadKeeps ==
  ASSUME Inv, DeadInv, [Next]_vars
  PROVE  DeadInv'
<1>1. CASE dead
  <2>1. /\ isIOCanceled /\ signs = 0 /\ pending = <<>> /\ completion = "none"
        /\ \A t \in Threads : pc[t] = "idle"
    BY <1>1 DEF DeadInv, Inv, FlagInv
  <2>2. \A t \in Threads : ~Walk(t)
    BY <2>1 DEF Walk, IsFull, Link, Count, IsSending, SendPost, SendAndDisconnectPost, Drain,
                DrainEnd, ClearFlag, WSASend, Pending, SetCanceled, CancelIO, SetSendFlagFalse
  <2>3. \A t \in Threads : ~Disconnect(t) /\ ~OnCompletion(t) /\ ~TakeSign(t)
    <3>1. ~(signs > 0)
      BY <2>1
    <3> QED
      BY <2>1, <3>1 DEF Disconnect, OnCompletion, TakeSign
  <2>4. \A t \in Threads, p \in Packets, kind \in {"send", "async", "last"} : ~Send(t, p, kind)
    BY <1>1 DEF Send
  <2>5. ~KernelCompletes /\ ~Destroy
    BY <1>1, <2>1 DEF KernelCompletes, Destroy
  <2>6. ConnectionBreaks \/ UNCHANGED vars
    BY <2>2, <2>3, <2>4, <2>5 DEF Next, Completion
  <2>7. UNCHANGED <<isIOCanceled, signs, pending, pc>>
    BY <2>6 DEF ConnectionBreaks, vars, session, kernel
  <2> QED
    BY <2>1, <2>7 DEF DeadInv
<1>2. CASE ~dead
  <2>1. CASE Destroy
    BY <2>1 DEF Destroy, DeadInv, kernel
  <2>2. CASE ~Destroy
    <3>1. ASSUME NEW t \in Threads, Walk(t) PROVE UNCHANGED dead
      BY <3>1 DEF Walk, IsFull, Link, Count, IsSending, SendPost, SendAndDisconnectPost, Drain,
                  DrainEnd, ClearFlag, WSASend, Pending, SetCanceled, CancelIO,
                  SetSendFlagFalse, session
    <3>2. ASSUME NEW t \in Threads, Disconnect(t) \/ OnCompletion(t) \/ TakeSign(t)
          PROVE  UNCHANGED dead
      BY <3>2 DEF Disconnect, OnCompletion, TakeSign, session
    <3>3. ASSUME NEW t \in Threads, NEW p \in Packets,
                 NEW kind \in {"send", "async", "last"}, Send(t, p, kind)
          PROVE  UNCHANGED dead
      BY <3>3 DEF Send, session
    <3>4. KernelCompletes \/ ConnectionBreaks \/ UNCHANGED vars => UNCHANGED dead
      BY DEF KernelCompletes, ConnectionBreaks, vars, session
    <3> QED
      BY <1>2, <2>2, <3>1, <3>2, <3>3, <3>4 DEF Next, Completion, DeadInv
  <2> QED
    BY <2>1, <2>2
<1> QED
  BY <1>1, <1>2

(* Nothing is linked, drained or sent.                                      *)
LEMMA OrderKept ==
  ASSUME OrderInv, DeadInv', UNCHANGED <<wired, order>>, signs' \in Nat,
         linked' /\ ~dead' => /\ linked /\ ~dead
                              /\ UNCHANGED sendQ /\ Drained' = Drained
  PROVE  OrderInv'
BY DEF OrderInv, SentInOrder

(* A thread that has nothing drained moves to a step where it has not.      *)
LEMMA DrainedKept ==
  ASSUME TypeInv, NEW t \in Threads, NEW w, pc' = [pc EXCEPT ![t] = w],
         pc[t] \notin {"drain", "WSASend"}, w \notin {"drain", "WSASend"}, UNCHANGED sentQ
  PROVE  Drained' = Drained
<1>1. pc'[t] = w /\ \A u \in Threads : u # t => pc'[u] = pc[u]
  BY PcMove
<1>2. (\E u \in Threads : pc'[u] \in {"drain", "WSASend"})
        <=> \E u \in Threads : pc[u] \in {"drain", "WSASend"}
  BY <1>1
<1> QED
  BY <1>2 DEF Drained

LEMMA DrainedByOne ==
  ASSUME Inv, NEW t \in Threads, pc[t] \in HasFlag, pc[t] \notin {"drain", "WSASend"}
  PROVE  Drained = <<>>
BY DEF Inv, FlagInv, HasFlag, Drained

-------------------------------------------------------------------------------
LEMMA LinkKeepsOrder ==
  ASSUME Inv, OrderInv, DeadInv', NEW t \in Threads, Link(t)
  PROVE  OrderInv'
<1> DEFINE p == call[t].packet
<1>1. TypeInv /\ PacketInv
  BY DEF Inv
<1>2. /\ pc[t] = "link" /\ pc' = [pc EXCEPT ![t] = "count"]
      /\ sendQ' = Append(sendQ, p) /\ order' = Append(order, p)
      /\ UNCHANGED <<wired, sentQ, signs, linked, dead>>
  BY DEF Link, Goto, kernel, session
<1>3. p \in Packets
  BY <1>1, <1>2 DEF TypeInv, PacketInv, Calls
<1> HIDE DEF p
<1>4. /\ wired \in Seq(Packets) /\ order \in Seq(Packets) /\ signs \in Nat
      /\ sendQ \in Seq(Packets) /\ sentQ \in Seq(Packets)
  BY <1>1 DEF OrderInv, TypeInv
<1>5. order' \in Seq(Packets) /\ Len(order') = Len(order) + 1
      /\ \A n \in 1 .. Len(order) : order'[n] = order[n]
  BY <1>2, <1>3, <1>4
<1>6. SentInOrder'
  <2>1. Len(wired) \in Nat /\ Len(order) \in Nat /\ Len(wired) <= Len(order)
        /\ \A n \in 1 .. Len(wired) : wired[n] = order[n]
    BY <1>4 DEF OrderInv, SentInOrder
  <2>2. \A n \in 1 .. Len(wired) : n \in 1 .. Len(order)
    BY <2>1
  <2>3. \A n \in 1 .. Len(wired) : wired[n] = order'[n]
    BY <1>5, <2>1, <2>2
  <2>4. Len(wired) <= Len(order')
    BY <1>5, <2>1
  <2> QED
    BY <1>2, <2>3, <2>4 DEF SentInOrder
<1>7. ASSUME linked', ~dead' PROVE order' = Cat(Cat(wired', Drained'), sendQ')
  <2>1. Drained' = Drained
    BY <1>1, <1>2, DrainedKept
  <2>2. order = Cat(Cat(wired, Drained), sendQ)
    BY <1>2, <1>7 DEF OrderInv
  <2>3. Cat(wired, Drained) \in Seq(Packets)
    <3>1. <<>> \in Seq(Packets)
      OBVIOUS
    <3>2. Drained \in Seq(Packets)
      BY <1>4, <3>1 DEF Drained
    <3> QED
      BY <1>4, <3>2, CatIsSeq
  <2>4. Append(Cat(Cat(wired, Drained), sendQ), p)
          = Cat(Cat(wired, Drained), Append(sendQ, p))
    BY <1>3, <1>4, <2>3, AppendGoesLast
  <2> QED
    BY <1>2, <2>1, <2>2, <2>4, Zenon
<1> QED
  BY <1>2, <1>4, <1>5, <1>6, <1>7 DEF OrderInv

LEMMA DrainKeepsOrder ==
  ASSUME Inv, OrderInv, DeadInv', NEW t \in Threads, Drain(t)
  PROVE  OrderInv'
<1>1. TypeInv /\ SizeInv
  BY DEF Inv
<1>2. /\ pc[t] = "drain" /\ size > 0
      /\ sendQ' = Tail(sendQ) /\ sentQ' = Append(sentQ, Head(sendQ))
      /\ UNCHANGED <<pc, order, wired, signs, linked, dead>>
  BY DEF Drain, kernel, session
<1>3. /\ wired \in Seq(Packets) /\ sendQ \in Seq(Packets) /\ sentQ \in Seq(Packets)
      /\ signs \in Nat
  BY <1>1 DEF TypeInv, OrderInv
<1>4. sendQ # <<>>
  <2>1. Cardinality(Counting) \in Nat /\ Len(sendQ) \in Nat
    BY <1>3, SendAssumption, FS_Subset, FS_CardinalityType DEF Counting
  <2>2. Len(sendQ) > 0
    BY <1>1, <1>2, <2>1 DEF SizeInv
  <2> QED
    BY <2>2
<1>5. Drained = sentQ /\ Drained' = sentQ'
  BY <1>2 DEF Drained
<1>6. Cat(Cat(wired, sentQ), sendQ) = Cat(Cat(wired, sentQ'), sendQ')
  <2>1. Cat(Cat(wired, sentQ), sendQ)
          = Cat(Cat(wired, Append(sentQ, Head(sendQ))), Tail(sendQ))
    BY <1>3, <1>4, DrainMovesHead
  <2> QED
    BY <1>2, <2>1, Zenon
<1> QED
  BY <1>2, <1>3, <1>5, <1>6 DEF OrderInv, SentInOrder

LEMMA WSASendKeepsOrder ==
  ASSUME Inv, OrderInv, DeadInv', NEW t \in Threads, WSASend(t)
  PROVE  OrderInv'
<1>1. TypeInv /\ FlagInv
  BY DEF Inv
<1>2. /\ pc[t] = "WSASend"
      /\ UNCHANGED <<order, sendQ, sentQ, signs, linked, dead>>
  BY DEF WSASend, queue, session
<1>3. PICK w \in {"idle", "pending"} : pc' = [pc EXCEPT ![t] = w]
  BY DEF WSASend, Goto
<1>4. pc'[t] = w /\ \A u \in Threads : u # t => pc'[u] = pc[u]
  BY <1>1, <1>3, PcMove
<1>5. Drained = sentQ /\ Drained' = <<>>
  <2>1. \A u \in Threads : u # t => pc[u] \notin {"drain", "WSASend"}
    BY <1>1, <1>2 DEF FlagInv, HasFlag
  <2>2. \A u \in Threads : pc'[u] \notin {"drain", "WSASend"}
    BY <1>4, <2>1
  <2> QED
    BY <1>2, <2>2 DEF Drained
<1>6. /\ wired \in Seq(Packets) /\ order \in Seq(Packets) /\ signs \in Nat
      /\ sendQ \in Seq(Packets) /\ sentQ \in Seq(Packets)
  BY <1>1 DEF OrderInv, TypeInv
<1>7. CASE linked
  <2>1. wired' = Cat(wired, sentQ)
    BY <1>7 DEF WSASend, Cat
  <2>2. ~dead
    BY <1>2 DEF OrderInv, DeadInv
  <2>3. order = Cat(wired', sendQ)
    <3>1. order = Cat(Cat(wired, sentQ), sendQ)
      BY <1>5, <1>7, <2>2 DEF OrderInv
    <3> QED
      BY <2>1, <3>1
  <2>4. wired' \in Seq(Packets)
    BY <1>6, <2>1, CatIsSeq
  <2>5. Cat(wired', <<>>) = wired'
    BY <2>4, ConcatEmptySeq DEF Cat
  <2>6. order' = Cat(Cat(wired', Drained'), sendQ')
    BY <1>2, <1>5, <2>3, <2>5
  <2>7. SentInOrder'
    <3>1. Len(wired') <= Len(order) /\ \A n \in 1 .. Len(wired') : wired'[n] = order[n]
      BY <1>6, <2>3, <2>4, BeginsWith
    <3> QED
      BY <1>2, <3>1 DEF SentInOrder
  <2> QED
    BY <1>2, <1>6, <2>4, <2>6, <2>7 DEF OrderInv
<1>8. CASE ~linked
  <2>1. UNCHANGED wired
    BY <1>8 DEF WSASend, kernel
  <2> QED
    BY <1>2, <1>6, <1>8, <2>1, OrderKept
<1> QED
  BY <1>7, <1>8

LEMMA DrainEndKeepsOrder ==
  ASSUME Inv, OrderInv, DeadInv', NEW t \in Threads, DrainEnd(t)
  PROVE  OrderInv'
<1>1. TypeInv /\ FlagInv
  BY DEF Inv
<1>2. /\ pc[t] = "drain"
      /\ UNCHANGED <<order, wired, sendQ, sentQ, signs, linked, dead>>
  BY DEF DrainEnd, queue, session, kernel
<1>3. Drained = sentQ /\ signs \in Nat
  BY <1>2 DEF Drained, OrderInv
<1>4. CASE sentQ = <<>>
  <2>1. Drained' = <<>>
    BY <1>2, <1>4 DEF Drained
  <2> QED
    BY <1>2, <1>3, <1>4, <2>1, OrderKept
<1>5. CASE sentQ # <<>>
  <2>1. pc' = [pc EXCEPT ![t] = "WSASend"]
    BY <1>5 DEF DrainEnd, Goto
  <2>2. pc'[t] = "WSASend"
    BY <1>1, <2>1, PcMove
  <2>3. Drained' = sentQ
    BY <1>2, <2>2 DEF Drained
  <2> QED
    BY <1>2, <1>3, <2>3, OrderKept
<1> QED
  BY <1>4, <1>5

LEMMA TakeFlagKeepsOrder ==
  ASSUME Inv, OrderInv, DeadInv', ~isSending, NEW t \in Threads, TakeFlag(t),
         UNCHANGED <<order, wired, sendQ, signs, linked, dead>>
  PROVE  OrderInv'
<1>1. Drained = <<>>
  BY ClearFlagIsFree DEF Drained, HasFlag
<1>2. Drained' = <<>>
  BY DEF TakeFlag, Drained
<1> QED
  BY <1>1, <1>2, OrderKept DEF OrderInv

-------------------------------------------------------------------------------
LEMMA WalkKeepsOrder ==
  ASSUME Inv, OrderInv, DeadInv', NEW t \in Threads, Walk(t)
  PROVE  OrderInv'
<1>1. TypeInv /\ signs \in Nat /\ signs + 1 \in Nat
  BY DEF Inv, OrderInv
<1>2. ASSUME NEW w \in Steps \ {"drain", "WSASend"}, pc' = [pc EXCEPT ![t] = w],
             pc[t] \notin {"drain", "WSASend"}, signs' \in Nat,
             UNCHANGED <<order, wired, sendQ, sentQ, linked, dead>>
      PROVE  OrderInv'
  BY <1>1, <1>2, DrainedKept, OrderKept
<1>3. CASE IsFull(t) \/ Count(t)
  <2>1. PICK w \in {"disconnect", "link", "sendPost", "isSending"} :
          pc' = [pc EXCEPT ![t] = w]
    <3>1. pc[t] = "count" => call[t].kind \in {"send", "async", "last"}
      BY DEF Inv, CallInv
    <3> QED
      BY <1>3, <3>1 DEF IsFull, Count, Goto
  <2>2. pc[t] \in {"isFull", "count"} /\ signs' = signs
        /\ UNCHANGED <<order, wired, sendQ, sentQ, linked, dead>>
    BY <1>3 DEF IsFull, Count, queue, kernel, session
  <2> QED
    BY <1>1, <1>2, <2>1, <2>2 DEF Steps
<1>4. CASE IsSending(t)
  <2>1. /\ pc' = [pc EXCEPT ![t] = "idle"] /\ pc[t] = "isSending"
        /\ signs' \in {signs, signs + 1}
        /\ UNCHANGED <<order, wired, sendQ, sentQ, linked, dead>>
    BY <1>4 DEF IsSending, TurnAway, Goto, queue, kernel, session
  <2> QED
    BY <1>1, <1>2, <2>1 DEF Steps
<1>5. CASE SendPost(t)
  <2>1. pc[t] = "sendPost" /\ UNCHANGED <<order, wired, sendQ, signs, linked, dead>>
    BY <1>5 DEF SendPost, queue, kernel, session
  <2>2. CASE isSending
    <3>1. pc' = [pc EXCEPT ![t] = "idle"] /\ UNCHANGED sentQ
      BY <1>5, <2>2 DEF SendPost, TurnAway, Goto
    <3> QED
      BY <1>1, <1>2, <2>1, <3>1 DEF Steps
  <2>3. CASE ~isSending
    <3>1. TakeFlag(t)
      BY <1>5, <2>3 DEF SendPost
    <3> QED
      BY <2>1, <2>3, <3>1, TakeFlagKeepsOrder
  <2> QED
    BY <2>2, <2>3
<1>6. CASE SendAndDisconnectPost(t)
  <2>1. pc[t] = "spin" /\ UNCHANGED <<order, wired, sendQ, signs, linked, dead>>
    BY <1>6 DEF SendAndDisconnectPost, queue, kernel, session
  <2>2. CASE isSending
    <3>1. pc' = [pc EXCEPT ![t] = "idle"] /\ UNCHANGED sentQ
      BY <1>6, <2>2 DEF SendAndDisconnectPost, Goto
    <3> QED
      BY <1>1, <1>2, <2>1, <3>1 DEF Steps
  <2>3. CASE ~isSending
    <3>1. TakeFlag(t)
      BY <1>6, <2>3 DEF SendAndDisconnectPost
    <3> QED
      BY <2>1, <2>3, <3>1, TakeFlagKeepsOrder
  <2> QED
    BY <2>2, <2>3
<1>7. CASE ClearFlag(t) \/ SetSendFlagFalse(t) \/ SetCanceled(t)
  <2>1. PICK w \in {"idle", "sendPost", "cancel"} : pc' = [pc EXCEPT ![t] = w]
    BY <1>7 DEF ClearFlag, SetSendFlagFalse, SetCanceled, Goto
  <2>2. pc[t] \in {"clear", "complete", "disconnect"} /\ signs' = signs
        /\ UNCHANGED <<order, wired, sendQ, sentQ, linked, dead>>
    BY <1>7 DEF ClearFlag, SetSendFlagFalse, SetCanceled, queue, kernel, session
  <2> QED
    BY <1>1, <1>2, <2>1, <2>2 DEF Steps
<1>8. CASE Pending(t) \/ CancelIO(t)
  <2>1. PICK w \in {"idle", "disconnect", "spin", "cancel"} : pc' = [pc EXCEPT ![t] = w]
    BY <1>8 DEF Pending, CancelIO, Goto
  <2>2. pc[t] \in {"pending", "cancel"} /\ signs' = signs
        /\ UNCHANGED <<order, wired, sendQ, sentQ, linked, dead>>
    BY <1>8 DEF Pending, CancelIO, queue, kernel, session
  <2> QED
    BY <1>1, <1>2, <2>1, <2>2 DEF Steps
<1> QED
  BY <1>3, <1>4, <1>5, <1>6, <1>7, <1>8, LinkKeepsOrder, DrainKeepsOrder, WSASendKeepsOrder,
     DrainEndKeepsOrder DEF Walk

LEMMA StepKeepsOrder ==
  ASSUME Inv, OrderInv, [Next]_vars
  PROVE  OrderInv'
<1>1. DeadInv' /\ TypeInv /\ signs \in Nat
  BY DeadKeeps DEF Inv, OrderInv
<1>2. ASSUME NEW t \in Threads, NEW w \in {"disconnect", "sendPost", "complete", "idle",
                                           "cancel", "isFull"},
             pc' = [pc EXCEPT ![t] = w], pc[t] = "idle", signs' \in Nat,
             UNCHANGED <<order, wired, sendQ, sentQ, linked, dead>>
      PROVE  OrderInv'
  BY <1>1, <1>2, DrainedKept, OrderKept
<1>3. ASSUME NEW t \in Threads, Disconnect(t) \/ OnCompletion(t) PROVE OrderInv'
  <2>1. /\ pc[t] = "idle" /\ signs' = signs
        /\ UNCHANGED <<order, wired, sendQ, sentQ, linked, dead>>
    BY <1>3 DEF Disconnect, OnCompletion, queue, kernel, session
  <2>2. PICK w \in {"disconnect", "complete", "idle"} : pc' = [pc EXCEPT ![t] = w]
    BY <1>3 DEF Disconnect, OnCompletion, Goto
  <2> QED
    BY <1>1, <1>2, <2>1, <2>2
<1>4. ASSUME NEW t \in Threads, TakeSign(t) PROVE OrderInv'
  <2>1. /\ pc[t] = "idle" /\ pc' = [pc EXCEPT ![t] = "sendPost"]
        /\ signs > 0 /\ signs' = signs - 1
        /\ UNCHANGED <<order, wired, sendQ, sentQ, linked, dead>>
    BY <1>4 DEF TakeSign, Goto, queue, kernel, session
  <2>2. signs' \in Nat
    BY <1>1, <2>1
  <2> QED
    BY <1>2, <2>1, <2>2
<1>5. ASSUME NEW t \in Threads, NEW p \in Packets, NEW kind \in {"send", "async", "last"},
             Send(t, p, kind)
      PROVE  OrderInv'
  <2>1. /\ pc[t] = "idle" /\ signs' = signs
        /\ UNCHANGED <<order, wired, sendQ, sentQ, linked, dead>>
    BY <1>5 DEF Send, queue, kernel, session
  <2>2. PICK w \in {"cancel", "isFull"} : pc' = [pc EXCEPT ![t] = w]
    BY <1>5 DEF Send, Goto
  <2> QED
    BY <1>1, <1>2, <2>1, <2>2
<1>6. CASE KernelCompletes \/ UNCHANGED vars
  <2>1. UNCHANGED <<pc, order, wired, sendQ, sentQ, linked, dead, signs>>
    BY <1>6 DEF KernelCompletes, vars, queue, kernel, session
  <2>2. Drained' = Drained
    BY <2>1 DEF Drained
  <2> QED
    BY <1>1, <2>1, <2>2, OrderKept
<1>7. CASE ConnectionBreaks
  <2>1. ~linked' /\ UNCHANGED <<order, wired, signs>>
    BY <1>7 DEF ConnectionBreaks, queue, kernel
  <2> QED
    BY <1>1, <2>1, OrderKept
<1>8. CASE Destroy
  <2>1. dead' /\ UNCHANGED <<order, wired, signs>>
    BY <1>8 DEF Destroy, kernel
  <2> QED
    BY <1>1, <2>1, OrderKept
<1> QED
  BY <1>1, <1>3, <1>4, <1>5, <1>6, <1>7, <1>8, WalkKeepsOrder DEF Next, Completion

LEMMA InitKeepsOrder == Init => OrderInv
<1> SUFFICES ASSUME Init PROVE OrderInv
  OBVIOUS
<1>1. /\ wired = <<>> /\ order = <<>> /\ sendQ = <<>> /\ sentQ = <<>> /\ signs = 0 /\ ~dead
  BY DEF Init
<1>2. Drained = <<>>
  BY <1>1 DEF Drained
<1>3. order = Cat(Cat(wired, Drained), sendQ) /\ wired \in Seq(Packets) /\ order \in Seq(Packets)
  BY <1>1, <1>2 DEF Cat
<1>4. SentInOrder
  BY <1>1 DEF SentInOrder
<1> QED
  BY <1>1, <1>3, <1>4 DEF OrderInv, DeadInv

(***************************************************************************)
(* What the kernel is given of a session is, in order and without a gap,   *)
(* what was linked into sendQ_: while the connection is up, the packets    *)
(* linked are those sent, those drained and those still queued (OrderInv). *)
(***************************************************************************)
THEOREM PacketsGoInOrder == Spec => []SentInOrder
<1>1. Inv /\ OrderInv /\ [Next]_vars => OrderInv'
  BY StepKeepsOrder
<1>2. OrderInv => SentInOrder
  BY DEF OrderInv
<1> QED
  BY <1>1, <1>2, InvInvariant, InitKeepsOrder, PTL DEF Spec
===============================================================================
