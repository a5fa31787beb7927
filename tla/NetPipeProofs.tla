----------------------------- MODULE NetPipeProofs -----------------------------
(***************************************************************************)
(* Theorems about NetPipe, for any number of sessions, pipes and codes and *)
(* for the real limits of the managers.                                    *)
(***************************************************************************)
EXTENDS NetPipe, FiniteSetTheorems, WellFoundedInduction, TLAPS

(***************************************************************************)
(* The inductive invariant.  SlotInv says all that concerns one session:   *)
(* its references, the queue its ID is in, its user, its jobs, and why the *)
(* pipe it moves to is not about to be stopped.                            *)
(***************************************************************************)
Sessions == [id : IDs \union {NULL}, ioCount : Int, linked : BOOLEAN, deleted : BOOLEAN,
             curPipe : Pipes \union {NULL}, destPipe : Pipes \union {NULL}, isMoving : BOOLEAN]

Queued(q) == q \in [Pipes -> Seq(IDs)]

TypeInv ==
  /\ session \in [Slots -> Sessions]
  /\ fresh \subseteq IDs /\ entering \subseteq Slots
  /\ jobQ \in [Slots -> Seq(IDs)] /\ waited \in [Slots -> Nat]
  /\ user \in [IDs -> [curPipe : Pipes \union {NULL}, isMoving : BOOLEAN]]
  /\ users \in [Pipes -> SUBSET IDs]
  /\ Queued(joinQ) /\ Queued(moveInQ) /\ Queued(moveOutQ) /\ Queued(leaveQ)
  /\ zeroUserCount \in [Pipes -> Nat] /\ stopFlag \in [Pipes -> BOOLEAN]
  /\ place = [p \in Pipes |-> place[p]] /\ at = [p \in Pipes |-> at[p]]

(* No two sessions have one ID, and what is not handed out nobody has.      *)
IDInv ==
  /\ \A r, s \in Slots : session[r].id = session[s].id /\ session[s].id # NULL => r = s
  /\ \A s \in Slots : session[s].id \notin fresh

(* Every ID in a queue or a pipe is a session's, and in a queue only once.  *)
Distinct(q) == \A m, n \in 1 .. Len(q) : q[m] = q[n] => m = n
IsSession(i) == \E s \in Slots : session[s].id = i
InOrder(q) == \A p \in Pipes : Distinct(q[p]) /\ \A i \in Values(q[p]) : IsSession(i)

QueueInv == InOrder(joinQ) /\ InOrder(moveInQ) /\ InOrder(moveOutQ) /\ InOrder(leaveQ)
UsersInv == \A p \in Pipes : \A i \in users[p] : IsSession(i)

(* A pipe that is stopped, or not yet created, is in no list.               *)
StopInv ==
  \A p \in Pipes :
    /\ stopFlag[p] => place[p] = 0
    /\ at[p] = "unused" => place[p] = 0 /\ ~stopFlag[p]

(* The requests that session s waits for.                                   *)
WantsJoin(s, p) ==
  /\ session[s].isMoving /\ s \notin entering
  /\ session[s].curPipe = NULL /\ session[s].destPipe = p
WantsOut(s, p) ==
  session[s].isMoving /\ session[s].curPipe = p /\ session[s].id \in users[p]
WantsIn(s, p) ==
  /\ session[s].isMoving /\ session[s].curPipe # NULL /\ session[s].destPipe = p
  /\ session[s].id \notin users[session[s].curPipe]
WantsLeave(s, p) == session[s].deleted /\ session[s].curPipe = p

References(s) ==
  (IF session[s].linked THEN 1 ELSE 0) + (IF session[s].isMoving THEN 1 ELSE 0)

RecordInv(s) ==
  /\ session[s].ioCount = References(s)
  /\ session[s].deleted <=> session[s].ioCount = 0
  /\ session[s].deleted => session[s].curPipe # NULL
  /\ session[s].isMoving <=> session[s].destPipe # NULL
  /\ s \in entering => session[s].isMoving /\ session[s].curPipe = NULL

RequestInv(s) ==
  \A p \in Pipes :
    /\ session[s].id \in Values(joinQ[p]) <=> WantsJoin(s, p)
    /\ session[s].id \in Values(moveOutQ[p]) <=> WantsOut(s, p)
    /\ session[s].id \in Values(moveInQ[p]) <=> WantsIn(s, p)
    /\ session[s].id \in Values(leaveQ[p]) <=> WantsLeave(s, p)

UserInv(s) ==
  /\ \A p \in Pipes : session[s].id \in users[p] =>
       /\ session[s].curPipe = p
       /\ user[session[s].id] = [curPipe |-> p, isMoving |-> session[s].isMoving]
  /\ session[s].curPipe # NULL =>
       session[s].id \in users[session[s].curPipe] \/ session[s].isMoving

(* The pipe that a session moves to is listed and young.                    *)
PipeInv(s) ==
  /\ session[s].destPipe # NULL =>
       /\ place[session[s].destPipe] # 0
       /\ zeroUserCount[session[s].destPipe] <= SKIP_ROUNDS + waited[s]
  /\ session[s].curPipe # NULL /\ ~session[s].isMoving => ~stopFlag[session[s].curPipe]

JobInv(s) == Values(jobQ[s]) \subseteq {session[s].id}

SlotInv(s) ==
  IF session[s].id = NULL
  THEN session[s] = Free /\ s \notin entering /\ jobQ[s] = <<>>
  ELSE RecordInv(s) /\ RequestInv(s) /\ UserInv(s) /\ PipeInv(s) /\ JobInv(s)

Inv ==
  /\ TypeInv /\ IDInv /\ QueueInv /\ UsersInv /\ StopInv
  /\ \A s \in Slots : SlotInv(s)
  /\ errors = {}

-------------------------------------------------------------------------------
(* Queues: what they hold after a request is added or taken.                *)

LEMMA AppendValues ==
  ASSUME NEW q \in Seq(IDs), NEW x \in IDs
  PROVE  /\ Values(Append(q, x)) = Values(q) \union {x}
         /\ Distinct(q) /\ x \notin Values(q) => Distinct(Append(q, x))
<1> DEFINE a == Append(q, x)
<1>1. Len(a) = Len(q) + 1 /\ Len(q) \in Nat
  OBVIOUS
<1>2. \A n \in 1 .. Len(q) : a[n] = q[n]
  OBVIOUS
<1>3. a[Len(q) + 1] = x
  OBVIOUS
<1>4. 1 .. Len(a) = (1 .. Len(q)) \union {Len(q) + 1}
  BY <1>1
<1> HIDE DEF a
<1>5. Values(a) = Values(q) \union {x}
  BY <1>1, <1>2, <1>3, <1>4 DEF Values
<1>6. ASSUME Distinct(q), x \notin Values(q)
      PROVE  Distinct(a)
  BY <1>1, <1>2, <1>3, <1>4, <1>6 DEF Distinct, Values
<1>. QED  BY <1>5, <1>6 DEF a

LEMMA TailValues ==
  ASSUME NEW q \in Seq(IDs), q # <<>>, Distinct(q)
  PROVE  /\ Head(q) \in Values(q) /\ Head(q) \in IDs
         /\ Values(Tail(q)) = Values(q) \ {Head(q)}
         /\ Distinct(Tail(q)) /\ Tail(q) \in Seq(IDs)
<1> DEFINE t == Tail(q)
<1>1. Len(q) \in Nat /\ Len(q) > 0 /\ Len(t) = Len(q) - 1
  OBVIOUS
<1>2. \A n \in 1 .. Len(t) : t[n] = q[n + 1]
  OBVIOUS
<1>3. Head(q) = q[1] /\ t \in Seq(IDs) /\ q[1] \in IDs
  OBVIOUS
<1> HIDE DEF t
<1>4. Head(q) \in Values(q)
  BY <1>1, <1>3 DEF Values
<1>5. Values(t) \subseteq Values(q) \ {Head(q)}
  BY <1>1, <1>2, <1>3 DEF Values, Distinct
<1>6. ASSUME NEW n \in 1 .. Len(q), q[n] # q[1]
      PROVE  q[n] \in Values(t)
  <2>1. n - 1 \in 1 .. Len(t) /\ t[n - 1] = q[n]
    BY <1>1, <1>2, <1>6
  <2>. QED  BY <2>1 DEF Values
<1>7. Values(q) \ {Head(q)} \subseteq Values(t)
  BY <1>3, <1>6 DEF Values
<1>8. Distinct(t)
  <2> SUFFICES ASSUME NEW m \in 1 .. Len(t), NEW n \in 1 .. Len(t), t[m] = t[n]
               PROVE  m = n
    BY DEF Distinct
  <2>1. m + 1 \in 1 .. Len(q) /\ n + 1 \in 1 .. Len(q)
    BY <1>1
  <2>2. t[m] = q[m + 1] /\ t[n] = q[n + 1]
    BY <1>2
  <2>3. m + 1 = n + 1
    BY <2>1, <2>2 DEF Distinct
  <2>. QED  BY <2>3, <1>1
<1>. QED  BY <1>3, <1>4, <1>5, <1>7, <1>8 DEF t

LEMMA EnqueueValues ==
  ASSUME NEW q, Queued(q), NEW p \in Pipes, NEW x \in IDs
  PROVE  /\ Queued(Enqueue(q, p, x))
         /\ \A r \in Pipes : Values(Enqueue(q, p, x)[r]) =
              IF r = p THEN Values(q[p]) \union {x} ELSE Values(q[r])
         /\ (\A r \in Pipes : Distinct(q[r])) /\ x \notin Values(q[p]) =>
              \A r \in Pipes : Distinct(Enqueue(q, p, x)[r])
<1>1. q[p] \in Seq(IDs) /\ Append(q[p], x) \in Seq(IDs)
  BY DEF Queued
<1>2. Enqueue(q, p, x)[p] = Append(q[p], x) /\ \A r \in Pipes \ {p} : Enqueue(q, p, x)[r] = q[r]
  BY DEF Queued, Enqueue
<1>3. Queued(Enqueue(q, p, x))
  BY <1>1 DEF Queued, Enqueue
<1>4. \A r \in Pipes : Values(Enqueue(q, p, x)[r]) =
        IF r = p THEN Values(q[p]) \union {x} ELSE Values(q[r])
  BY <1>1, <1>2, AppendValues
<1>5. ASSUME \A r \in Pipes : Distinct(q[r]), x \notin Values(q[p])
      PROVE  \A r \in Pipes : Distinct(Enqueue(q, p, x)[r])
  BY <1>1, <1>2, <1>5, AppendValues
<1>. QED  BY <1>3, <1>4, <1>5

(* The same, of the queue after the step and element by element.            *)
LEMMA Enqueued ==
  ASSUME NEW q, NEW new, NEW p \in Pipes, NEW x \in IDs,
         Queued(q), \A r \in Pipes : Distinct(q[r]) /\ x \notin Values(q[r]),
         new = Enqueue(q, p, x)
  PROVE  /\ Queued(new) /\ \A r \in Pipes : Distinct(new[r])
         /\ \A r \in Pipes : \A j \in IDs \ {x} : j \in Values(new[r]) <=> j \in Values(q[r])
         /\ \A r \in Pipes : x \in Values(new[r]) <=> r = p
<1>1. \A r \in Pipes : Values(Enqueue(q, p, x)[r]) =
        IF r = p THEN Values(q[p]) \union {x} ELSE Values(q[r])
  BY EnqueueValues
<1>2. \A r \in Pipes : Values(new[r]) =
        IF r = p THEN Values(q[p]) \union {x} ELSE Values(q[r])
  BY <1>1
<1>3. \A r \in Pipes : \A j \in IDs \ {x} : j \in Values(new[r]) <=> j \in Values(q[r])
  BY <1>2
<1>4. \A r \in Pipes : x \in Values(new[r]) <=> r = p
  BY <1>2
<1>5. Queued(new) /\ \A r \in Pipes : Distinct(new[r])
  BY EnqueueValues
<1>. QED  BY <1>3, <1>4, <1>5

LEMMA DequeueValues ==
  ASSUME NEW q, Queued(q), \A r \in Pipes : Distinct(q[r]), NEW p \in Pipes, q[p] # <<>>
  PROVE  /\ Queued(Dequeue(q, p)) /\ \A r \in Pipes : Distinct(Dequeue(q, p)[r])
         /\ Head(q[p]) \in Values(q[p]) /\ Head(q[p]) \in IDs
         /\ \A r \in Pipes : Values(Dequeue(q, p)[r]) =
              IF r = p THEN Values(q[p]) \ {Head(q[p])} ELSE Values(q[r])
<1>1. q[p] \in Seq(IDs) /\ Distinct(q[p])
  BY DEF Queued
<1>2. Dequeue(q, p)[p] = Tail(q[p]) /\ \A r \in Pipes \ {p} : Dequeue(q, p)[r] = q[r]
  BY DEF Queued, Dequeue
<1>3. Tail(q[p]) \in Seq(IDs)
  BY <1>1, TailValues
<1>4. Queued(Dequeue(q, p))
  BY <1>3 DEF Queued, Dequeue
<1>5. Values(Dequeue(q, p)[p]) = Values(q[p]) \ {Head(q[p])} /\ Distinct(Dequeue(q, p)[p])
  BY <1>1, <1>2, TailValues
<1>6. \A r \in Pipes : Distinct(Dequeue(q, p)[r])
  BY <1>2, <1>5
<1>7. Head(q[p]) \in Values(q[p]) /\ Head(q[p]) \in IDs
  BY <1>1, TailValues
<1>. QED  BY <1>2, <1>4, <1>5, <1>6, <1>7

LEMMA Dequeued ==
  ASSUME NEW q, NEW p \in Pipes, Queued(q), \A r \in Pipes : Distinct(q[r]), q[p] # <<>>,
         \A r \in Pipes : Head(q[p]) \in Values(q[r]) => r = p
  PROVE  \A r \in Pipes : Values(Dequeue(q, p)[r]) = Values(q[r]) \ {Head(q[p])}
<1>1. \A r \in Pipes : Values(Dequeue(q, p)[r]) =
        IF r = p THEN Values(q[p]) \ {Head(q[p])} ELSE Values(q[r])
  BY DequeueValues
<1>. QED  BY <1>1

LEMMA ValuesAreIDs ==
  ASSUME NEW q, Queued(q), NEW p \in Pipes
  PROVE  Values(q[p]) \subseteq IDs
<1>1. q[p] \in Seq(IDs)
  BY DEF Queued
<1>. QED  BY <1>1 DEF Values

-------------------------------------------------------------------------------
(* What one session sees of a step of another.                              *)

AllDistinct ==
  \A p \in Pipes :
    /\ Distinct(joinQ[p]) /\ Distinct(moveInQ[p])
    /\ Distinct(moveOutQ[p]) /\ Distinct(leaveQ[p])

SameSlot(r) == session'[r] = session[r] /\ (r \in entering' <=> r \in entering) /\ jobQ'[r] = jobQ[r]

SameID(i) ==
  /\ user'[i] = user[i]
  /\ \A p \in Pipes :
       /\ i \in users'[p] <=> i \in users[p]
       /\ i \in Values(joinQ'[p]) <=> i \in Values(joinQ[p])
       /\ i \in Values(moveInQ'[p]) <=> i \in Values(moveInQ[p])
       /\ i \in Values(moveOutQ'[p]) <=> i \in Values(moveOutQ[p])
       /\ i \in Values(leaveQ'[p]) <=> i \in Values(leaveQ[p])

Nowhere(i) ==
  \A p \in Pipes :
    /\ i \notin users[p] /\ i \notin Values(joinQ[p]) /\ i \notin Values(moveInQ[p])
    /\ i \notin Values(moveOutQ[p]) /\ i \notin Values(leaveQ[p])

LEMMA OtherSlot ==
  ASSUME NEW r \in Slots, session[r] \in Sessions, SlotInv(r), SameSlot(r),
         session[r].id # NULL => SameID(session[r].id) /\ PipeInv(r)'
  PROVE  SlotInv(r)'
<1>1. CASE session[r].id = NULL
  BY <1>1 DEF SlotInv, SameSlot
<1>2. CASE session[r].id # NULL
  <2>1. SameID(session[r].id) /\ session'[r] = session[r]
    BY <1>2 DEF SameSlot
  <2>2. RecordInv(r) /\ RequestInv(r) /\ UserInv(r) /\ JobInv(r)
    BY <1>2 DEF SlotInv
  <2>3. RecordInv(r)'
    BY <2>2 DEF RecordInv, References, SameSlot
  <2>4. RequestInv(r)'
    <3> SUFFICES ASSUME NEW p \in Pipes
                 PROVE  /\ session'[r].id \in Values(joinQ'[p]) <=> WantsJoin(r, p)'
                        /\ session'[r].id \in Values(moveOutQ'[p]) <=> WantsOut(r, p)'
                        /\ session'[r].id \in Values(moveInQ'[p]) <=> WantsIn(r, p)'
                        /\ session'[r].id \in Values(leaveQ'[p]) <=> WantsLeave(r, p)'
      BY DEF RequestInv
    <3>1. WantsJoin(r, p)' <=> WantsJoin(r, p)
      BY DEF WantsJoin, SameSlot
    <3>2. WantsOut(r, p)' <=> WantsOut(r, p)
      BY <2>1 DEF WantsOut, SameID
    <3>3. WantsIn(r, p)' <=> WantsIn(r, p)
      BY <2>1 DEF WantsIn, SameID, Sessions
    <3>4. WantsLeave(r, p)' <=> WantsLeave(r, p)
      BY <2>1 DEF WantsLeave
    <3>. QED  BY <2>1, <2>2, <3>1, <3>2, <3>3, <3>4 DEF RequestInv, SameID
  <2>5. UserInv(r)'
    BY <2>1, <2>2 DEF UserInv, SameID, Sessions
  <2>6. JobInv(r)'
    BY <2>2 DEF JobInv, SameSlot
  <2>. QED  BY <1>2, <2>1, <2>3, <2>4, <2>5, <2>6 DEF SlotInv
<1>. QED  BY <1>1, <1>2

(* A step of slot s and of the ID i that it has, gets or loses.             *)
ActorStep(s, i) ==
  /\ \A r \in Slots \ {s} : SameSlot(r) /\ waited'[r] = waited[r]
  /\ \A j \in IDs \ {i} : SameID(j)
  /\ \A p \in Pipes : zeroUserCount'[p] <= zeroUserCount[p]
  /\ fresh' \subseteq fresh /\ place' = place /\ stopFlag' = stopFlag /\ at' = at /\ errors' = errors

LEMMA ActorKeepsInv ==
  ASSUME Inv, NEW s \in Slots, NEW i \in IDs, ActorStep(s, i),
         TypeInv', AllDistinct', SlotInv(s)',
         \A r \in Slots \ {s} : session[r].id # i,
         session[s].id \in {i, NULL},
         session'[s].id = i \/ (session'[s].id = NULL /\ Nowhere(i)'),
         i \notin fresh'
  PROVE  Inv'
<1>1. TypeInv /\ IDInv /\ QueueInv /\ UsersInv /\ StopInv /\ errors = {}
  BY DEF Inv
<1>2. \A r \in Slots \ {s} : session'[r] = session[r]
  BY DEF ActorStep, SameSlot
<1>3. IDInv'
  <2>1. \A r \in Slots : session'[r].id \notin fresh'
    <3>1. session'[s].id \notin fresh'
      BY PipeAssumption DEF TypeInv
    <3>2. \A r \in Slots \ {s} : session'[r].id \notin fresh'
      BY <1>1, <1>2 DEF IDInv, ActorStep
    <3>. QED  BY <3>1, <3>2
  <2>2. ASSUME NEW r \in Slots, NEW t \in Slots, session'[r].id = session'[t].id, session'[t].id # NULL
        PROVE  r = t
    <3>1. CASE r # s /\ t # s
      BY <1>1, <1>2, <2>2, <3>1 DEF IDInv
    <3>2. CASE r = s /\ t # s
      BY <1>2, <2>2, <3>2
    <3>3. CASE r # s /\ t = s
      BY <1>2, <2>2, <3>3
    <3>. QED  BY <3>1, <3>2, <3>3
  <2>. QED  BY <2>1, <2>2 DEF IDInv
<1>4. ASSUME NEW j \in IDs, j # i, IsSession(j)
      PROVE  IsSession(j)'
  <2>1. PICK r \in Slots : session[r].id = j
    BY <1>4 DEF IsSession
  <2>2. r # s
    BY <1>4, <2>1, PipeAssumption
  <2>. QED  BY <1>2, <2>1, <2>2 DEF IsSession
<1>5. IsSession(i)' \/ Nowhere(i)'
  BY DEF IsSession
<1>6. ASSUME NEW p \in Pipes
      PROVE  /\ \A j \in Values(joinQ'[p]) : IsSession(j)'
             /\ \A j \in Values(moveInQ'[p]) : IsSession(j)'
             /\ \A j \in Values(moveOutQ'[p]) : IsSession(j)'
             /\ \A j \in Values(leaveQ'[p]) : IsSession(j)'
             /\ \A j \in users'[p] : IsSession(j)'
  <2>1. /\ Values(joinQ'[p]) \subseteq IDs /\ Values(moveInQ'[p]) \subseteq IDs
        /\ Values(moveOutQ'[p]) \subseteq IDs /\ Values(leaveQ'[p]) \subseteq IDs
    BY ValuesAreIDs DEF TypeInv
  <2>2. users'[p] \subseteq IDs
    BY DEF TypeInv
  <2>3. \A j \in IDs \ {i} : SameID(j)
    BY DEF ActorStep
  <2>4. \A j \in IDs \ {i} :
          /\ j \in Values(joinQ'[p]) => IsSession(j)
          /\ j \in Values(moveInQ'[p]) => IsSession(j)
          /\ j \in Values(moveOutQ'[p]) => IsSession(j)
          /\ j \in Values(leaveQ'[p]) => IsSession(j)
          /\ j \in users'[p] => IsSession(j)
    BY <1>1, <2>3 DEF SameID, QueueInv, InOrder, UsersInv
  <2>. QED  BY <1>4, <1>5, <2>1, <2>2, <2>4 DEF Nowhere
<1>7. QueueInv' /\ UsersInv'
  BY <1>6 DEF QueueInv, InOrder, UsersInv, AllDistinct
<1>8. StopInv'
  BY <1>1 DEF StopInv, ActorStep
<1>9. ASSUME NEW r \in Slots, r # s
      PROVE  SlotInv(r)'
  <2>1. SameSlot(r) /\ waited'[r] = waited[r] /\ session'[r] = session[r] /\ session[r] \in Sessions
    BY <1>1, <1>9 DEF ActorStep, SameSlot, TypeInv
  <2>2. ASSUME session[r].id # NULL
        PROVE  SameID(session[r].id) /\ PipeInv(r)'
    <3>1. session[r].id \in IDs \ {i}
      BY <1>9, <2>1, <2>2 DEF Sessions
    <3>2. PipeInv(r)
      BY <2>2 DEF Inv, SlotInv
    <3>3. session[r].destPipe \in Pipes \union {NULL} /\ waited[r] \in Nat
      BY <1>1, <2>1 DEF Sessions, TypeInv
    <3>4. \A p \in Pipes : zeroUserCount[p] \in Nat /\ zeroUserCount'[p] \in Nat
                           /\ zeroUserCount'[p] <= zeroUserCount[p]
      BY <1>1 DEF TypeInv, ActorStep
    <3>5. PipeInv(r)'
      BY <2>1, <3>2, <3>3, <3>4, PipeAssumption DEF PipeInv, ActorStep
    <3>. QED  BY <3>1, <3>5 DEF ActorStep
  <2>. QED  BY <2>1, <2>2, OtherSlot DEF Inv
<1>10. errors' = {}
  BY <1>1 DEF ActorStep
<1>. QED  BY <1>3, <1>7, <1>8, <1>9, <1>10 DEF Inv

(* A step that leaves the sessions and their requests alone.                *)
LEMMA ManagerKeepsInv ==
  ASSUME Inv, TypeInv', StopInv',
         UNCHANGED <<session, jobQ, fresh, entering, user, users, queues, errors>>,
         \A s \in Slots : session[s].id # NULL => PipeInv(s)'
  PROVE  Inv'
<1> USE DEF queues
<1>1. TypeInv /\ IDInv /\ QueueInv /\ UsersInv /\ errors = {}
  BY DEF Inv
<1>2. IDInv'
  BY <1>1 DEF IDInv
<1>3. QueueInv' /\ UsersInv'
  BY <1>1 DEF QueueInv, UsersInv, InOrder, IsSession
<1>4. ASSUME NEW s \in Slots
      PROVE  SlotInv(s)'
  <2>1. SlotInv(s) /\ session[s] \in Sessions
    BY DEF Inv, TypeInv
  <2>2. SameSlot(s) /\ SameID(session[s].id)
    BY DEF SameSlot, SameID
  <2>. QED  BY <2>1, <2>2, OtherSlot
<1>. QED  BY <1>1, <1>2, <1>3, <1>4 DEF Inv

LEMMA NotASession ==
  ASSUME Inv, NEW i \in IDs, ~IsSession(i)
  PROVE  Nowhere(i)
BY DEF Inv, QueueInv, UsersInv, InOrder, Nowhere

LEMMA InvDistinct ==
  ASSUME Inv
  PROVE  AllDistinct
BY DEF Inv, QueueInv, InOrder, AllDistinct

LEMMA OneSession ==
  ASSUME Inv, NEW s \in Slots, session[s].id # NULL
  PROVE  /\ session[s].id \in IDs /\ session[s].id \notin fresh
         /\ \A r \in Slots \ {s} : session[r].id # session[s].id
         /\ RecordInv(s) /\ RequestInv(s) /\ UserInv(s) /\ PipeInv(s) /\ JobInv(s)
<1>1. session[s] \in Sessions
  BY DEF Inv, TypeInv
<1>2. session[s].id \in IDs
  BY <1>1 DEF Sessions
<1>. QED  BY <1>2 DEF Inv, IDInv, SlotInv

LEMMA SlotOf ==
  ASSUME Inv, NEW i \in IDs, IsSession(i)
  PROVE  Slot(i) \in Slots /\ session[Slot(i)].id = i
BY DEF Slot, IsSession

LEMMA InitInv ==
  ASSUME Init
  PROVE  Inv
<1>1. TypeInv
  <2>1. session \in [Slots -> Sessions]
    BY DEF Init, Free, Sessions
  <2>2. Queued(joinQ) /\ Queued(moveInQ) /\ Queued(moveOutQ) /\ Queued(leaveQ)
    BY DEF Init, EmptyQ, Queued
  <2>3. user \in [IDs -> [curPipe : Pipes \union {NULL}, isMoving : BOOLEAN]]
    BY DEF Init, NoUser
  <2>4. /\ place = [p \in Pipes |-> place[p]]
        /\ at = [p \in Pipes |-> at[p]]
    <3>1. place = [p \in Pipes |-> place[p]]
      BY Zenon DEF Init
    <3>2. at = [p \in Pipes |-> at[p]]
      BY Zenon DEF Init
    <3>. QED  BY <3>1, <3>2
  <2>5. fresh \subseteq IDs /\ entering \subseteq Slots /\ users \in [Pipes -> SUBSET IDs]
    BY DEF Init
  <2>6. jobQ \in [Slots -> Seq(IDs)] /\ waited \in [Slots -> Nat]
    BY DEF Init
  <2>7. zeroUserCount \in [Pipes -> Nat] /\ stopFlag \in [Pipes -> BOOLEAN]
    BY DEF Init
  <2>. QED  BY <2>1, <2>2, <2>3, <2>4, <2>5, <2>6, <2>7 DEF TypeInv
<1>2. IDInv
  BY PipeAssumption DEF Init, Free, IDInv
<1>3. QueueInv
  <2> SUFFICES ASSUME NEW q, q = EmptyQ
               PROVE  InOrder(q)
    BY DEF QueueInv, Init
  <2>1. \A p \in Pipes : q[p] = <<>>
    BY DEF EmptyQ
  <2>2. Distinct(<<>>) /\ Values(<<>>) = {}
    BY DEF Distinct, Values
  <2>. QED  BY <2>1, <2>2 DEF InOrder
<1>4. UsersInv
  BY DEF Init, UsersInv
<1>5. StopInv
  <2> SUFFICES ASSUME NEW p \in Pipes
               PROVE  /\ ~stopFlag[p]
                      /\ at[p] = "unused" => place[p] = 0
    BY DEF StopInv
  <2>1. ~stopFlag[p]
    BY DEF Init
  <2>2. CASE p = First(PipeCode[p])
    BY <2>1, <2>2 DEF Init
  <2>3. CASE p # First(PipeCode[p])
    BY <2>1, <2>3 DEF Init
  <2>. QED  BY <2>2, <2>3, <2>1
<1>6. ASSUME NEW s \in Slots
      PROVE  SlotInv(s)
  BY DEF Init, SlotInv, Free
<1>7. errors = {}
  BY DEF Init
<1>. QED  BY <1>1, <1>2, <1>3, <1>4, <1>5, <1>6, <1>7 DEF Inv

-------------------------------------------------------------------------------
(* Sessions.                                                                *)

LEMMA AcceptInv ==
  ASSUME Inv, NEW s \in Slots, NEW i \in IDs, Accept(s, i)
  PROVE  Inv'
<1> USE DEF sessions, queues, managed
<1>1. TypeInv /\ IDInv
  BY DEF Inv
<1>2. session[s] = Free /\ s \notin entering /\ jobQ[s] = <<>>
  BY DEF Accept, Inv, SlotInv
<1>3. \A r \in Slots : session[r].id # i
  BY DEF Accept, Inv, IDInv
<1>4. Nowhere(i)
  BY <1>3, NotASession DEF IsSession
<1> DEFINE new == [Free EXCEPT !.id = i, !.ioCount = 1, !.linked = TRUE]
<1>5. /\ new.id = i /\ new.ioCount = 1 /\ new.linked = TRUE /\ new.deleted = FALSE
      /\ new.curPipe = NULL /\ new.destPipe = NULL /\ new.isMoving = FALSE /\ new \in Sessions
  <2>1. Free \in Sessions /\ Free.deleted = FALSE /\ Free.curPipe = NULL
        /\ Free.destPipe = NULL /\ Free.isMoving = FALSE
    BY DEF Free, Sessions
  <2>2. 1 \in Int
    OBVIOUS
  <2>. QED  BY Zenon, <2>1, <2>2 DEF Sessions
<1>6. session' = [session EXCEPT ![s] = new]
  BY DEF Accept
<1> HIDE DEF new
<1>7. session'[s] = new /\ \A r \in Slots \ {s} : session'[r] = session[r]
  BY <1>1, <1>6 DEF TypeInv
<1>8. TypeInv'
  <2>1. session' \in [Slots -> Sessions]
    BY <1>1, <1>5, <1>6 DEF TypeInv
  <2>. QED  BY <1>1, <2>1 DEF TypeInv, Accept, Queued
<1>9. AllDistinct'
  BY InvDistinct DEF AllDistinct, Accept
<1>10. ActorStep(s, i)
  <2>1. \A r \in Slots \ {s} : SameSlot(r) /\ waited'[r] = waited[r]
    BY <1>7 DEF SameSlot, Accept
  <2>2. \A j \in IDs : SameID(j)
    BY DEF SameID, Accept
  <2>3. \A p \in Pipes : zeroUserCount'[p] <= zeroUserCount[p]
    BY <1>1 DEF TypeInv, Accept
  <2>. QED  BY <2>1, <2>2, <2>3 DEF ActorStep, Accept
<1>11. SlotInv(s)'
  <2>1. RecordInv(s)'
    <3>1. References(s)' = 1
      BY <1>5, <1>7 DEF References
    <3>2. s \notin entering'
      BY <1>2 DEF Accept
    <3>. QED  BY <1>5, <1>7, <3>1, <3>2 DEF RecordInv
  <2>2. RequestInv(s)'
    BY <1>4, <1>5, <1>7, PipeAssumption
       DEF RequestInv, WantsJoin, WantsOut, WantsIn, WantsLeave, Nowhere, Accept
  <2>3. UserInv(s)'
    BY <1>4, <1>5, <1>7 DEF UserInv, Nowhere, Accept
  <2>4. PipeInv(s)'
    BY <1>5, <1>7 DEF PipeInv
  <2>5. JobInv(s)'
    BY <1>2 DEF JobInv, Accept, Values
  <2>6. session'[s].id # NULL
    BY <1>5, <1>7, PipeAssumption
  <2>. QED  BY <2>1, <2>2, <2>3, <2>4, <2>5, <2>6 DEF SlotInv
<1>12. session[s].id \in {i, NULL} /\ session'[s].id = i /\ i \notin fresh'
  BY <1>5, <1>7 DEF Accept
<1>. QED  BY <1>3, <1>8, <1>9, <1>10, <1>11, <1>12, ActorKeepsInv

(* left is what DecrementIOCount(s, new) makes of the session.              *)
Decrement(s, new, left) ==
  /\ left \in Sessions
  /\ left.id = new.id /\ left.ioCount = new.ioCount - 1 /\ left.linked = new.linked
  /\ left.curPipe = new.curPipe /\ left.destPipe = new.destPipe
  /\ left.isMoving = new.isMoving
  /\ \/ /\ left.ioCount > 0 /\ left.deleted = new.deleted
        /\ session' = [session EXCEPT ![s] = left] /\ jobQ' = jobQ /\ leaveQ' = leaveQ
     \/ /\ left.ioCount = 0 /\ left.curPipe # NULL /\ left.deleted = TRUE
        /\ session' = [session EXCEPT ![s] = left] /\ jobQ' = jobQ
        /\ leaveQ' = Enqueue(leaveQ, left.curPipe, left.id)
     \/ /\ left.ioCount = 0 /\ left.curPipe = NULL
        /\ session' = [session EXCEPT ![s] = Free] /\ leaveQ' = leaveQ
        /\ jobQ' = [jobQ EXCEPT ![s] = <<>>]

LEMMA Decremented ==
  ASSUME NEW s \in Slots, NEW new \in Sessions, DecrementIOCount(s, new)
  PROVE  \E left : Decrement(s, new, left)
<1> DEFINE left == [new EXCEPT !.ioCount = @ - 1]
           gone == [left EXCEPT !.deleted = TRUE]
<1>1. new.ioCount - 1 \in Int
  BY DEF Sessions
<1>2. left \in Sessions
  BY Zenon, <1>1 DEF Sessions
<1>3. gone \in Sessions
  BY Zenon, <1>2 DEF Sessions
<1>4. /\ left.id = new.id /\ left.ioCount = new.ioCount - 1 /\ left.linked = new.linked
      /\ left.curPipe = new.curPipe /\ left.destPipe = new.destPipe
      /\ left.isMoving = new.isMoving /\ left.deleted = new.deleted
  BY Zenon DEF Sessions
<1>5. /\ gone.id = new.id /\ gone.ioCount = new.ioCount - 1 /\ gone.linked = new.linked
      /\ gone.curPipe = new.curPipe /\ gone.destPipe = new.destPipe
      /\ gone.isMoving = new.isMoving /\ gone.deleted = TRUE
  BY Zenon, <1>2, <1>4 DEF Sessions
<1>6. \/ /\ left.ioCount > 0
         /\ session' = [session EXCEPT ![s] = left] /\ jobQ' = jobQ /\ leaveQ' = leaveQ
      \/ /\ left.ioCount = 0 /\ left.curPipe # NULL
         /\ session' = [session EXCEPT ![s] = gone] /\ jobQ' = jobQ
         /\ leaveQ' = Enqueue(leaveQ, left.curPipe, left.id)
      \/ /\ left.ioCount = 0 /\ left.curPipe = NULL
         /\ session' = [session EXCEPT ![s] = Free] /\ leaveQ' = leaveQ
         /\ jobQ' = [jobQ EXCEPT ![s] = <<>>]
  BY Zenon DEF DecrementIOCount
<1> HIDE DEF left, gone
<1>7. CASE /\ left.ioCount > 0
           /\ session' = [session EXCEPT ![s] = left] /\ jobQ' = jobQ /\ leaveQ' = leaveQ
  BY <1>2, <1>4, <1>7 DEF Decrement
<1>8. CASE /\ left.ioCount = 0 /\ left.curPipe # NULL
           /\ session' = [session EXCEPT ![s] = gone] /\ jobQ' = jobQ
           /\ leaveQ' = Enqueue(leaveQ, left.curPipe, left.id)
  BY <1>3, <1>4, <1>5, <1>8 DEF Decrement
<1>9. CASE /\ left.ioCount = 0 /\ left.curPipe = NULL
           /\ session' = [session EXCEPT ![s] = Free] /\ leaveQ' = leaveQ
           /\ jobQ' = [jobQ EXCEPT ![s] = <<>>]
  BY <1>2, <1>4, <1>9 DEF Decrement
<1>. QED  BY <1>6, <1>7, <1>8, <1>9

LEMMA FreeIsASession == Free \in Sessions /\ Free.id = NULL
  BY DEF Free, Sessions

LEMMA DisconnectInv ==
  ASSUME Inv, NEW s \in Slots, Disconnect(s)
  PROVE  Inv'
<1> USE DEF sessions, queues, managed
<1> DEFINE new == [session[s] EXCEPT !.linked = FALSE]
<1>1. TypeInv /\ session[s] \in Sessions /\ AllDistinct
  BY InvDistinct DEF Inv, TypeInv
<1>2. session[s].id # NULL
  <2>1. session[s].linked = TRUE
    BY <1>1 DEF Disconnect, Sessions
  <2>. QED  BY <2>1 DEF Inv, SlotInv, Free
<1>3. PICK i \in IDs : i = session[s].id
  BY <1>2, OneSession
<1>4. /\ i # NULL /\ i \in IDs /\ i \notin fresh /\ \A r \in Slots \ {s} : session[r].id # i
      /\ RecordInv(s) /\ RequestInv(s) /\ UserInv(s) /\ PipeInv(s) /\ JobInv(s)
  BY <1>2, <1>3, OneSession
<1>5. new \in Sessions
  BY Zenon, <1>1 DEF Sessions
<1>6. /\ new.id = i /\ new.ioCount = session[s].ioCount /\ new.linked = FALSE
      /\ new.curPipe = session[s].curPipe /\ new.destPipe = session[s].destPipe
      /\ new.isMoving = session[s].isMoving /\ new.deleted = session[s].deleted
  BY Zenon, <1>1, <1>3 DEF Sessions
<1>7. DecrementIOCount(s, new)
  BY Zenon DEF Disconnect
<1> HIDE DEF new
<1>8. PICK left : Decrement(s, new, left)
  BY <1>5, <1>7, Decremented
<1>9. /\ left \in Sessions /\ left.id = i /\ left.ioCount = session[s].ioCount - 1
       /\ left.linked = FALSE
       /\ left.curPipe = session[s].curPipe /\ left.destPipe = session[s].destPipe
       /\ left.isMoving = session[s].isMoving
  BY <1>6, <1>8 DEF Decrement
<1>10. \/ /\ left.ioCount > 0 /\ left.deleted = session[s].deleted
          /\ session' = [session EXCEPT ![s] = left] /\ jobQ' = jobQ /\ leaveQ' = leaveQ
       \/ /\ left.ioCount = 0 /\ left.curPipe # NULL /\ left.deleted = TRUE
          /\ session' = [session EXCEPT ![s] = left] /\ jobQ' = jobQ
          /\ leaveQ' = Enqueue(leaveQ, left.curPipe, left.id)
       \/ /\ left.ioCount = 0 /\ left.curPipe = NULL
          /\ session' = [session EXCEPT ![s] = Free] /\ leaveQ' = leaveQ
          /\ jobQ' = [jobQ EXCEPT ![s] = <<>>]
  BY <1>6, <1>8 DEF Decrement
<1>11. /\ session[s].deleted = FALSE /\ session[s].isMoving \in BOOLEAN
      /\ left.ioCount = IF session[s].isMoving THEN 1 ELSE 0
  <2>1. session[s].linked = TRUE /\ session[s].isMoving \in BOOLEAN /\ session[s].deleted \in BOOLEAN
    BY <1>1 DEF Disconnect, Sessions
  <2>2. session[s].ioCount = 1 + (IF session[s].isMoving THEN 1 ELSE 0)
    BY <1>4, <2>1 DEF RecordInv, References
  <2>3. session[s].ioCount # 0
    BY <2>1, <2>2
  <2>4. session[s].deleted = FALSE
    BY <1>4, <2>1, <2>3 DEF RecordInv
  <2>. QED  BY <1>9, <2>1, <2>2, <2>4
<1>12. /\ waited' = waited /\ fresh' = fresh /\ entering' = entering /\ user' = user
      /\ users' = users /\ joinQ' = joinQ /\ moveInQ' = moveInQ /\ moveOutQ' = moveOutQ
      /\ at' = at /\ stopFlag' = stopFlag /\ zeroUserCount' = zeroUserCount
      /\ place' = place /\ errors' = errors
  BY DEF Disconnect
<1>13. \A r \in Slots \ {s} : session'[r] = session[r] /\ jobQ'[r] = jobQ[r]
  BY <1>1, <1>10 DEF TypeInv
<1>14. ASSUME /\ Queued(leaveQ') /\ \A p \in Pipes : Distinct(leaveQ'[p])
              /\ \A p \in Pipes : \A j \in IDs \ {i} :
                   j \in Values(leaveQ'[p]) <=> j \in Values(leaveQ[p])
              /\ session'[s] \in Sessions /\ jobQ'[s] \in Seq(IDs)
              /\ session'[s].id = i \/ (session'[s].id = NULL /\ Nowhere(i)')
              /\ SlotInv(s)'
       PROVE  Inv'
  <2>1. TypeInv'
    <3>1. session' \in [Slots -> Sessions] /\ jobQ' \in [Slots -> Seq(IDs)]
      BY <1>1, <1>9, <1>10, <1>14, FreeIsASession DEF TypeInv
    <3>. QED  BY <1>1, <1>12, <1>14, <3>1 DEF TypeInv
  <2>2. AllDistinct'
    BY <1>1, <1>12, <1>14 DEF AllDistinct
  <2>3. ActorStep(s, i)
    <3>1. \A r \in Slots \ {s} : SameSlot(r) /\ waited'[r] = waited[r]
      BY <1>12, <1>13 DEF SameSlot
    <3>2. \A j \in IDs \ {i} : SameID(j)
      BY <1>12, <1>14 DEF SameID
    <3>3. \A p \in Pipes : zeroUserCount'[p] <= zeroUserCount[p]
      BY <1>1, <1>12 DEF TypeInv
    <3>. QED  BY <1>12, <3>1, <3>2, <3>3 DEF ActorStep
  <2>4. session[s].id = i
    BY <1>3
  <2>. QED  BY <1>4, <1>12, <1>14, <2>1, <2>2, <2>3, <2>4, ActorKeepsInv
<1>15. CASE /\ left.ioCount > 0 /\ left.deleted = session[s].deleted
            /\ session' = [session EXCEPT ![s] = left] /\ jobQ' = jobQ /\ leaveQ' = leaveQ
  <2>1. session'[s] = left /\ session[s].isMoving = TRUE /\ session[s].id = i
    BY <1>1, <1>11, <1>15, <1>3 DEF TypeInv
  <2>2. RecordInv(s)'
    <3>1. References(s)' = 1 /\ left.ioCount = 1
      <4>1. left.ioCount = 1
        BY <1>11, <2>1
      <4>2. session'[s].linked = FALSE /\ session'[s].isMoving = TRUE
        BY <1>9, <2>1
      <4>. QED  BY <4>1, <4>2 DEF References
    <3>2. session[s].destPipe # NULL /\ (s \in entering => session[s].curPipe = NULL)
      BY <1>4, <2>1 DEF RecordInv
    <3>3. left.deleted = FALSE /\ left.isMoving = TRUE /\ left.destPipe # NULL
      BY <1>9, <1>11, <1>15, <2>1, <3>2
    <3>. QED  BY <1>9, <1>12, <2>1, <3>1, <3>2, <3>3 DEF RecordInv
  <2>3. RequestInv(s)'
    BY <1>4, <1>9, <1>11, <1>12, <1>15, <2>1
       DEF RequestInv, WantsJoin, WantsOut, WantsIn, WantsLeave
  <2>4. UserInv(s)' /\ PipeInv(s)' /\ JobInv(s)'
    BY <1>4, <1>9, <1>12, <1>15, <2>1 DEF UserInv, PipeInv, JobInv
  <2>5. SlotInv(s)'
    BY <1>4, <1>9, <2>1, <2>2, <2>3, <2>4 DEF SlotInv
  <2>. QED  BY <1>1, <1>9, <1>14, <1>15, <2>1, <2>5 DEF TypeInv, AllDistinct
<1>16. CASE /\ left.ioCount = 0 /\ left.curPipe # NULL /\ left.deleted = TRUE
            /\ session' = [session EXCEPT ![s] = left] /\ jobQ' = jobQ
            /\ leaveQ' = Enqueue(leaveQ, left.curPipe, left.id)
  <2>1. session'[s] = left /\ session[s].isMoving = FALSE /\ session[s].id = i
    BY <1>1, <1>11, <1>16, <1>3 DEF TypeInv
  <2>2. left.curPipe \in Pipes /\ left.id = i /\ left.destPipe = NULL
    BY <1>4, <1>9, <1>16, <2>1 DEF Sessions, RecordInv
  <2>3. \A p \in Pipes : /\ i \notin Values(leaveQ[p]) /\ i \notin Values(joinQ[p])
                         /\ i \notin Values(moveInQ[p]) /\ i \notin Values(moveOutQ[p])
    BY <1>4, <1>11, <2>1 DEF RequestInv, WantsJoin, WantsOut, WantsIn, WantsLeave
  <2>4. /\ Queued(leaveQ') /\ \A p \in Pipes : Distinct(leaveQ'[p])
        /\ \A p \in Pipes : Values(leaveQ'[p]) =
             IF p = left.curPipe THEN Values(leaveQ[p]) \union {i} ELSE Values(leaveQ[p])
    <3>1. Queued(leaveQ) /\ (\A p \in Pipes : Distinct(leaveQ[p])) /\ i \notin Values(leaveQ[left.curPipe])
      BY <1>1, <2>2, <2>3 DEF TypeInv, AllDistinct
    <3>2. leaveQ' = Enqueue(leaveQ, left.curPipe, i)
      BY <1>16, <2>2
    <3>3. \A p \in Pipes : Values(Enqueue(leaveQ, left.curPipe, i)[p]) =
            IF p = left.curPipe THEN Values(leaveQ[left.curPipe]) \union {i} ELSE Values(leaveQ[p])
      BY <2>2, <3>1, EnqueueValues
    <3>4. Queued(leaveQ') /\ \A p \in Pipes : Distinct(leaveQ'[p])
      BY <2>2, <3>1, <3>2, EnqueueValues
    <3>. QED  BY <3>2, <3>3, <3>4
  <2>5. RecordInv(s)'
    <3>1. References(s)' = 0
      BY <1>9, <2>1 DEF References
    <3>2. s \notin entering
      BY <1>4, <2>1 DEF RecordInv
    <3>. QED  BY <1>9, <1>12, <1>16, <2>1, <2>2, <3>1, <3>2 DEF RecordInv
  <2>6. RequestInv(s)'
    BY <1>9, <1>12, <1>16, <2>1, <2>2, <2>3, <2>4
       DEF RequestInv, WantsJoin, WantsOut, WantsIn, WantsLeave
  <2>7. UserInv(s)' /\ PipeInv(s)' /\ JobInv(s)'
    BY <1>4, <1>9, <1>12, <1>16, <2>1 DEF UserInv, PipeInv, JobInv
  <2>8. SlotInv(s)'
    BY <1>4, <2>1, <2>2, <2>5, <2>6, <2>7 DEF SlotInv
  <2>9. \A p \in Pipes : \A j \in IDs \ {i} : j \in Values(leaveQ'[p]) <=> j \in Values(leaveQ[p])
    BY <2>4
  <2>10. jobQ'[s] \in Seq(IDs)
    BY <1>1, <1>16 DEF TypeInv
  <2>. QED  BY <1>14, <1>9, <2>1, <2>2, <2>4, <2>8, <2>9, <2>10
<1>17. CASE /\ left.ioCount = 0 /\ left.curPipe = NULL
            /\ session' = [session EXCEPT ![s] = Free] /\ leaveQ' = leaveQ
            /\ jobQ' = [jobQ EXCEPT ![s] = <<>>]
  <2>1. /\ session'[s] = Free /\ session[s].isMoving = FALSE /\ session[s].id = i
        /\ session[s].curPipe = NULL /\ jobQ'[s] = <<>>
    BY <1>1, <1>9, <1>11, <1>17, <1>3 DEF TypeInv
  <2>2. Nowhere(i)'
    <3>1. Nowhere(i)
      BY <1>4, <1>11, <2>1, PipeAssumption
         DEF Nowhere, RequestInv, WantsJoin, WantsOut, WantsIn, WantsLeave, UserInv
    <3>. QED  BY <3>1, <1>12, <1>17 DEF Nowhere
  <2>3. s \notin entering'
    BY <1>4, <1>12, <2>1 DEF RecordInv
  <2>4. SlotInv(s)'
    BY <2>1, <2>3, FreeIsASession DEF SlotInv
  <2>5. jobQ'[s] \in Seq(IDs)
    BY <2>1
  <2>. QED  BY <1>1, <1>14, <1>17, <2>1, <2>2, <2>4, <2>5, FreeIsASession DEF TypeInv, AllDistinct
<1>. QED  BY <1>10, <1>15, <1>16, <1>17

-------------------------------------------------------------------------------
(* Jobs.                                                                    *)

LEMMA JobStep ==
  ASSUME Inv, NEW s \in Slots, session[s].id # NULL,
         NEW q \in Seq(IDs), Values(q) \subseteq {session[s].id},
         jobQ' = [jobQ EXCEPT ![s] = q],
         UNCHANGED <<session, waited, fresh, entering, user, users, queues, at, managed, errors>>
  PROVE  Inv'
<1> USE DEF sessions, queues, managed
<1>1. TypeInv /\ AllDistinct
  BY InvDistinct DEF Inv
<1>2. PICK i \in IDs : i = session[s].id
  BY OneSession
<1>3. /\ i # NULL /\ i \notin fresh /\ \A r \in Slots \ {s} : session[r].id # i
      /\ RecordInv(s) /\ RequestInv(s) /\ UserInv(s) /\ PipeInv(s)
  BY <1>2, OneSession
<1>4. jobQ'[s] = q /\ \A r \in Slots \ {s} : jobQ'[r] = jobQ[r]
  BY <1>1 DEF TypeInv
<1>5. TypeInv'
  <2>1. jobQ' \in [Slots -> Seq(IDs)]
    BY <1>1 DEF TypeInv
  <2>. QED  BY <1>1, <2>1 DEF TypeInv, Queued
<1>6. AllDistinct'
  BY <1>1 DEF AllDistinct
<1>7. ActorStep(s, i)
  <2>1. \A r \in Slots \ {s} : SameSlot(r) /\ waited'[r] = waited[r]
    BY <1>4 DEF SameSlot
  <2>2. \A j \in IDs : SameID(j)
    BY DEF SameID
  <2>3. \A p \in Pipes : zeroUserCount'[p] <= zeroUserCount[p]
    BY <1>1 DEF TypeInv
  <2>. QED  BY <2>1, <2>2, <2>3 DEF ActorStep
<1>8. SlotInv(s)'
  <2>1. RecordInv(s)' /\ UserInv(s)' /\ PipeInv(s)'
    BY <1>3 DEF RecordInv, References, UserInv, PipeInv
  <2>2. RequestInv(s)'
    BY <1>3 DEF RequestInv, WantsJoin, WantsOut, WantsIn, WantsLeave
  <2>3. JobInv(s)'
    BY <1>4 DEF JobInv
  <2>. QED  BY <1>2, <1>3, <2>1, <2>2, <2>3 DEF SlotInv
<1>. QED  BY <1>2, <1>3, <1>5, <1>6, <1>7, <1>8, ActorKeepsInv

LEMMA EnqueueJobInv ==
  ASSUME Inv, NEW s \in Slots, EnqueueJob(s)
  PROVE  Inv'
<1>1. session[s] \in Sessions /\ jobQ[s] \in Seq(IDs)
  BY DEF Inv, TypeInv
<1>2. session[s].id # NULL
  <2>1. session[s].linked = TRUE
    BY <1>1 DEF EnqueueJob, Sessions
  <2>. QED  BY <2>1 DEF Inv, SlotInv, Free
<1>3. session[s].id \in IDs /\ JobInv(s)
  BY <1>2, OneSession
<1> DEFINE q == Append(jobQ[s], session[s].id)
<1>4. q \in Seq(IDs) /\ Values(q) = Values(jobQ[s]) \union {session[s].id}
  BY <1>1, <1>3, AppendValues
<1>5. Values(q) \subseteq {session[s].id}
  BY <1>3, <1>4 DEF JobInv
<1>6. jobQ' = [jobQ EXCEPT ![s] = q]
  BY DEF EnqueueJob
<1>7. UNCHANGED <<session, waited, fresh, entering, user, users, queues, at, managed, errors>>
  BY DEF EnqueueJob
<1> HIDE DEF q
<1>. QED  BY <1>2, <1>4, <1>5, <1>6, <1>7, JobStep

LEMMA DequeueJobInv ==
  ASSUME Inv, NEW p \in Pipes, NEW i \in IDs, DequeueJob(p, i)
  PROVE  Inv'
<1> DEFINE s == Slot(i)
<1>1. IsSession(i)
  BY DEF Inv, UsersInv, DequeueJob, HasJob
<1>2. s \in Slots /\ session[s].id = i /\ i # NULL
  BY <1>1, SlotOf, PipeAssumption
<1>3. jobQ[s] \in Seq(IDs) /\ jobQ[s] # <<>> /\ JobInv(s)
  BY <1>2, OneSession DEF Inv, TypeInv, DequeueJob, HasJob
<1>4. /\ jobQ' = [jobQ EXCEPT ![s] = Tail(jobQ[s])] \/ Head(jobQ[s]) # i
      /\ \/ Head(jobQ[s]) # i
         \/ UNCHANGED <<session, waited, fresh, entering, user, users, queues, at, managed, errors>>
  BY DEF DequeueJob
<1> HIDE DEF s
<1>5. /\ Head(jobQ[s]) \in Values(jobQ[s]) /\ Tail(jobQ[s]) \in Seq(IDs)
      /\ Values(Tail(jobQ[s])) \subseteq Values(jobQ[s])
  <2>1. Head(jobQ[s]) = jobQ[s][1] /\ Len(jobQ[s]) \in Nat /\ Len(jobQ[s]) >= 1
    BY <1>3
  <2>2. Tail(jobQ[s]) \in Seq(IDs) /\ Len(Tail(jobQ[s])) = Len(jobQ[s]) - 1
    BY <1>3
  <2>3. \A n \in 1 .. Len(Tail(jobQ[s])) : Tail(jobQ[s])[n] = jobQ[s][n + 1]
    BY <1>3
  <2>. QED  BY <2>1, <2>2, <2>3 DEF Values
<1>6. Head(jobQ[s]) = i /\ Values(Tail(jobQ[s])) \subseteq {session[s].id}
  BY <1>2, <1>3, <1>5 DEF JobInv
<1>. QED  BY <1>2, <1>4, <1>5, <1>6, JobStep

-------------------------------------------------------------------------------
(* Moves.                                                                   *)

(* The pipe that is found is listed and young, and no pipe ages.            *)
LEMMA FoundPipe ==
  ASSUME Inv, NEW p \in Pipes, FindPipe_LoadBalanced(PipeCode[p], p)
  PROVE  /\ place[p] # 0 /\ zeroUserCount'[p] <= SKIP_ROUNDS
         /\ zeroUserCount' \in [Pipes -> Nat]
         /\ \A q \in Pipes : zeroUserCount'[q] <= zeroUserCount[q]
<1>1. zeroUserCount \in [Pipes -> Nat]
  BY DEF Inv, TypeInv
<1>2. \/ place[p] # 0 /\ zeroUserCount[p] <= SKIP_ROUNDS /\ zeroUserCount' = zeroUserCount
      \/ place[p] # 0 /\ zeroUserCount' = [zeroUserCount EXCEPT ![p] = 0]
  BY DEF FindPipe_LoadBalanced, InList, IsFirst
<1>. QED  BY <1>1, <1>2, PipeAssumption

(* The session as StartMove leaves it.                                      *)
Moving(s, p, new) ==
  /\ new \in Sessions /\ new.id = session[s].id /\ new.ioCount = session[s].ioCount + 1
  /\ new.linked = session[s].linked /\ new.deleted = session[s].deleted
  /\ new.curPipe = session[s].curPipe /\ new.destPipe = p /\ new.isMoving = TRUE
  /\ session' = [session EXCEPT ![s] = new]

LEMMA Started ==
  ASSUME Inv, NEW s \in Slots, NEW p \in Pipes, StartMove(s, p)
  PROVE  /\ jobQ' = [jobQ EXCEPT ![s] = <<>>] /\ waited' = waited
         /\ \E new : Moving(s, p, new)
<1> DEFINE new == [session[s] EXCEPT !.ioCount = @ + 1, !.isMoving = TRUE, !.destPipe = p]
<1>1. session \in [Slots -> Sessions] /\ session[s] \in Sessions
  BY DEF Inv, TypeInv
<1>2. session[s].ioCount + 1 \in Int
  BY <1>1 DEF Sessions
<1>3. new \in Sessions
  BY Zenon, <1>1, <1>2 DEF Sessions
<1>4. /\ new.id = session[s].id /\ new.ioCount = session[s].ioCount + 1
      /\ new.linked = session[s].linked /\ new.deleted = session[s].deleted
      /\ new.curPipe = session[s].curPipe /\ new.destPipe = p /\ new.isMoving = TRUE
  BY Zenon, <1>1 DEF Sessions
<1>5. session' = [session EXCEPT ![s] = new]
  BY Zenon DEF StartMove
<1>6. jobQ' = [jobQ EXCEPT ![s] = <<>>] /\ waited' = waited
  BY DEF StartMove
<1> HIDE DEF new
<1>. QED  BY <1>3, <1>4, <1>5, <1>6 DEF Moving

LEMMA MovePipeByIDInv ==
  ASSUME Inv, NEW s \in Slots, NEW p \in Pipes, MovePipeByID(s, p)
  PROVE  Inv'
<1> USE DEF sessions, queues, managed
<1>1. TypeInv /\ AllDistinct /\ session[s] \in Sessions
  BY InvDistinct DEF Inv, TypeInv
<1>2. session[s].linked = TRUE /\ session[s].isMoving = FALSE /\ session[s].curPipe = NULL
  BY <1>1 DEF MovePipeByID, Sessions
<1>3. PICK i \in IDs : i = session[s].id
  <2>1. session[s].id # NULL
    BY <1>2 DEF Inv, SlotInv, Free
  <2>. QED  BY <2>1, OneSession
<1>4. /\ i # NULL /\ i \notin fresh /\ \A r \in Slots \ {s} : session[r].id # i
      /\ RecordInv(s) /\ RequestInv(s) /\ UserInv(s)
  BY <1>3, PipeAssumption, OneSession
<1>5. PICK new : Moving(s, p, new)
  BY Started DEF MovePipeByID
<1>6. /\ jobQ' = [jobQ EXCEPT ![s] = <<>>] /\ waited' = waited
      /\ place[p] # 0 /\ zeroUserCount'[p] <= SKIP_ROUNDS /\ zeroUserCount' \in [Pipes -> Nat]
      /\ \A q \in Pipes : zeroUserCount'[q] <= zeroUserCount[q]
  BY Started, FoundPipe DEF MovePipeByID
<1>7. /\ session'[s] = new /\ \A r \in Slots \ {s} : session'[r] = session[r]
      /\ jobQ'[s] = <<>> /\ \A r \in Slots \ {s} : jobQ'[r] = jobQ[r]
      /\ session' \in [Slots -> Sessions] /\ jobQ' \in [Slots -> Seq(IDs)]
  BY <1>1, <1>5, <1>6 DEF Moving, TypeInv
<1>8. /\ new.id = i /\ new.linked = TRUE /\ new.deleted = session[s].deleted
      /\ new.curPipe = NULL /\ new.destPipe = p /\ new.isMoving = TRUE
      /\ new.ioCount = session[s].ioCount + 1
  BY <1>2, <1>3, <1>5 DEF Moving
<1>9. /\ fresh' = fresh /\ entering' = entering \union {s} /\ user' = user /\ users' = users
      /\ joinQ' = joinQ /\ moveInQ' = moveInQ /\ moveOutQ' = moveOutQ /\ leaveQ' = leaveQ
      /\ at' = at /\ stopFlag' = stopFlag /\ place' = place /\ errors' = errors
  BY DEF MovePipeByID
<1>10. Nowhere(i)
  <2> SUFFICES ASSUME NEW q \in Pipes
               PROVE  /\ i \notin users[q] /\ i \notin Values(joinQ[q]) /\ i \notin Values(moveInQ[q])
                      /\ i \notin Values(moveOutQ[q]) /\ i \notin Values(leaveQ[q])
    BY DEF Nowhere
  <2>1. session[s].curPipe # q
    BY <1>2, PipeAssumption
  <2>. QED  BY <1>2, <1>3, <1>4, <2>1
            DEF RequestInv, WantsJoin, WantsOut, WantsIn, WantsLeave, UserInv
<1>11. TypeInv'
  BY <1>1, <1>6, <1>7, <1>9 DEF TypeInv
<1>12. AllDistinct'
  BY <1>1, <1>9 DEF AllDistinct
<1>13. ActorStep(s, i)
  <2>1. \A r \in Slots \ {s} : SameSlot(r) /\ waited'[r] = waited[r]
    BY <1>6, <1>7, <1>9 DEF SameSlot
  <2>2. \A j \in IDs : SameID(j)
    BY <1>9 DEF SameID
  <2>. QED  BY <1>6, <1>9, <2>1, <2>2 DEF ActorStep
<1>14. SlotInv(s)'
  <2>1. RecordInv(s)'
    <3>1. References(s) = 1
      BY <1>2 DEF References
    <3>2. References(s)' = 2
      BY <1>7, <1>8 DEF References
    <3>3. session[s].ioCount = 1 /\ session[s].deleted = FALSE
      BY <1>1, <1>4, <3>1 DEF RecordInv, Sessions
    <3>4. new.ioCount = 2 /\ new.deleted = FALSE /\ new.destPipe # NULL
      BY <1>8, <3>3, PipeAssumption
    <3>. QED  BY <1>7, <1>8, <3>2, <3>4 DEF RecordInv
  <2>2. RequestInv(s)'
    <3>1. new.deleted = FALSE
      <4>1. References(s) = 1
        BY <1>2 DEF References
      <4>2. session[s].deleted = FALSE
        BY <1>1, <1>4, <4>1 DEF RecordInv, Sessions
      <4>. QED  BY <1>8, <4>2
    <3>2. s \in entering'
      BY <1>9
    <3>3. \A q \in Pipes : new.curPipe # q
      BY <1>8, PipeAssumption
    <3>4. \A q \in Pipes : ~WantsJoin(s, q)' /\ ~WantsOut(s, q)' /\ ~WantsIn(s, q)' /\ ~WantsLeave(s, q)'
      BY <1>7, <1>8, <3>1, <3>2, <3>3 DEF WantsJoin, WantsOut, WantsIn, WantsLeave
    <3>. QED  BY <1>7, <1>8, <1>9, <1>10, <3>4 DEF RequestInv, Nowhere
  <2>3. UserInv(s)'
    BY <1>7, <1>8, <1>9, <1>10 DEF UserInv, Nowhere
  <2>4. PipeInv(s)'
    <3>1. zeroUserCount'[p] <= SKIP_ROUNDS + waited'[s]
      BY <1>1, <1>6, PipeAssumption DEF TypeInv
    <3>. QED  BY <1>6, <1>7, <1>8, <1>9, <3>1 DEF PipeInv
  <2>5. JobInv(s)'
    BY <1>7 DEF JobInv, Values
  <2>. QED  BY <1>4, <1>7, <1>8, <2>1, <2>2, <2>3, <2>4, <2>5 DEF SlotInv
<1>15. session'[s].id = i /\ i \notin fresh' /\ session[s].id = i
  BY <1>3, <1>4, <1>7, <1>8, <1>9
<1>. QED  BY <1>4, <1>11, <1>12, <1>13, <1>14, <1>15, <1>9, ActorKeepsInv

LEMMA RequestEnterInv ==
  ASSUME Inv, NEW s \in Slots, RequestEnter(s)
  PROVE  Inv'
<1> USE DEF sessions, queues, managed
<1>1. TypeInv /\ AllDistinct /\ session[s] \in Sessions
  BY InvDistinct DEF Inv, TypeInv
<1>2. PICK i \in IDs : i = session[s].id
  <2>1. session[s].id # NULL
    BY DEF Inv, SlotInv, RequestEnter
  <2>. QED  BY <2>1, OneSession
<1>3. /\ i # NULL /\ i \notin fresh /\ \A r \in Slots \ {s} : session[r].id # i
      /\ RecordInv(s) /\ RequestInv(s) /\ UserInv(s) /\ PipeInv(s) /\ JobInv(s)
  BY <1>2, PipeAssumption, OneSession
<1>4. s \in entering /\ session[s].isMoving = TRUE /\ session[s].curPipe = NULL
  BY <1>1, <1>3 DEF RequestEnter, RecordInv, Sessions
<1>5. PICK p \in Pipes : p = session[s].destPipe
  BY <1>1, <1>3, <1>4 DEF RecordInv, Sessions
<1>6. /\ joinQ' = Enqueue(joinQ, p, i) /\ entering' = entering \ {s}
      /\ session' = session /\ jobQ' = jobQ /\ waited' = waited /\ fresh' = fresh
      /\ user' = user /\ users' = users
      /\ moveInQ' = moveInQ /\ moveOutQ' = moveOutQ /\ leaveQ' = leaveQ /\ at' = at
      /\ stopFlag' = stopFlag /\ zeroUserCount' = zeroUserCount /\ place' = place
      /\ errors' = errors
  BY <1>2, <1>5 DEF RequestEnter
<1>7. i \notin Values(joinQ[p])
  BY <1>2, <1>3, <1>4 DEF RequestInv, WantsJoin
<1>8. Queued(joinQ) /\ \A q \in Pipes : Distinct(joinQ[q])
  BY <1>1 DEF TypeInv, AllDistinct
<1>9. /\ Queued(joinQ') /\ \A q \in Pipes : Distinct(joinQ'[q])
      /\ \A q \in Pipes : Values(joinQ'[q]) =
           IF q = p THEN Values(joinQ[p]) \union {i} ELSE Values(joinQ[q])
  BY <1>6, <1>7, <1>8, EnqueueValues
<1>10. TypeInv'
  BY <1>1, <1>6, <1>9 DEF TypeInv
<1>11. AllDistinct'
  BY <1>1, <1>6, <1>9 DEF AllDistinct
<1>12. ActorStep(s, i)
  <2>1. \A r \in Slots \ {s} : SameSlot(r) /\ waited'[r] = waited[r]
    BY <1>6 DEF SameSlot
  <2>2. \A j \in IDs \ {i} : SameID(j)
    BY <1>6, <1>9 DEF SameID
  <2>3. \A q \in Pipes : zeroUserCount'[q] <= zeroUserCount[q]
    BY <1>1, <1>6 DEF TypeInv
  <2>. QED  BY <1>6, <2>1, <2>2, <2>3 DEF ActorStep
<1>13. SlotInv(s)'
  <2>1. RecordInv(s)'
    BY <1>3, <1>6 DEF RecordInv, References
  <2>2. UserInv(s)' /\ PipeInv(s)' /\ JobInv(s)'
    BY <1>3, <1>6 DEF UserInv, PipeInv, JobInv
  <2>3. RequestInv(s)'
    <3> SUFFICES ASSUME NEW q \in Pipes
                 PROVE  /\ i \in Values(joinQ'[q]) <=> WantsJoin(s, q)'
                        /\ i \in Values(moveOutQ'[q]) <=> WantsOut(s, q)'
                        /\ i \in Values(moveInQ'[q]) <=> WantsIn(s, q)'
                        /\ i \in Values(leaveQ'[q]) <=> WantsLeave(s, q)'
      BY <1>2, <1>6 DEF RequestInv
    <3>1. WantsOut(s, q)' <=> WantsOut(s, q)
      BY <1>6 DEF WantsOut
    <3>2. WantsIn(s, q)' <=> WantsIn(s, q)
      BY <1>6 DEF WantsIn
    <3>3. WantsLeave(s, q)' <=> WantsLeave(s, q)
      BY <1>6 DEF WantsLeave
    <3>4. ~WantsJoin(s, q) /\ (WantsJoin(s, q)' <=> q = p)
      BY <1>4, <1>5, <1>6 DEF WantsJoin
    <3>. QED  BY <1>2, <1>3, <1>6, <1>9, <3>1, <3>2, <3>3, <3>4 DEF RequestInv
  <2>. QED  BY <1>2, <1>3, <1>6, <2>1, <2>2, <2>3 DEF SlotInv
<1>14. session'[s].id = i /\ i \notin fresh' /\ session[s].id = i
  BY <1>2, <1>3, <1>6
<1>. QED  BY <1>3, <1>10, <1>11, <1>12, <1>13, <1>14, ActorKeepsInv

LEMMA MovePipeInv ==
  ASSUME Inv, NEW q \in Pipes, NEW i \in IDs, NEW p \in Pipes, MovePipe(q, i, p)
  PROVE  Inv'
<1> USE DEF sessions, queues, managed
<1>1. TypeInv /\ AllDistinct
  BY InvDistinct DEF Inv
<1>2. PICK s \in Slots : /\ session[s].id = i
                         /\ FindPipe_LoadBalanced(PipeCode[p], p)
                         /\ StartMove(s, p)
                         /\ moveOutQ' = Enqueue(moveOutQ, session[s].curPipe, i)
  BY DEF MovePipe
<1>3. /\ i # NULL /\ i \notin fresh /\ \A r \in Slots \ {s} : session[r].id # i
      /\ RecordInv(s) /\ RequestInv(s) /\ UserInv(s) /\ session[s] \in Sessions
  BY <1>1, <1>2, PipeAssumption, OneSession DEF TypeInv
<1>4. /\ i \in users[q] /\ session[s].curPipe = q
      /\ user[i] = [curPipe |-> q, isMoving |-> session[s].isMoving]
  BY <1>2, <1>3 DEF MovePipe, UserInv
<1>5. session[s].isMoving = FALSE
  BY <1>3, <1>4 DEF MovePipe, MayMove, Sessions
<1>6. session[s].deleted = FALSE
  BY <1>1, <1>2, <1>3 DEF MovePipe, IDInv, Sessions
<1>7. PICK new : Moving(s, p, new)
  BY <1>2, Started
<1>8. /\ jobQ' = [jobQ EXCEPT ![s] = <<>>] /\ waited' = waited
      /\ place[p] # 0 /\ zeroUserCount'[p] <= SKIP_ROUNDS /\ zeroUserCount' \in [Pipes -> Nat]
      /\ \A r \in Pipes : zeroUserCount'[r] <= zeroUserCount[r]
  BY <1>2, Started, FoundPipe
<1>9. /\ session'[s] = new /\ \A r \in Slots \ {s} : session'[r] = session[r]
      /\ jobQ'[s] = <<>> /\ \A r \in Slots \ {s} : jobQ'[r] = jobQ[r]
      /\ session' \in [Slots -> Sessions] /\ jobQ' \in [Slots -> Seq(IDs)]
  BY <1>1, <1>7, <1>8 DEF Moving, TypeInv
<1>10. /\ new.id = i /\ new.linked = session[s].linked /\ new.deleted = FALSE
       /\ new.curPipe = q /\ new.destPipe = p /\ new.isMoving = TRUE
       /\ new.ioCount = session[s].ioCount + 1
  BY <1>2, <1>4, <1>6, <1>7 DEF Moving
<1>11. /\ fresh' = fresh /\ entering' = entering /\ user' = [user EXCEPT ![i].isMoving = TRUE]
       /\ users' = users /\ joinQ' = joinQ /\ moveInQ' = moveInQ /\ leaveQ' = leaveQ
       /\ at' = at /\ stopFlag' = stopFlag /\ place' = place /\ errors' = errors
  BY DEF MovePipe
<1>12. /\ \A j \in IDs \ {i} : user'[j] = user[j]
       /\ user'[i] = [curPipe |-> q, isMoving |-> TRUE]
       /\ user' \in [IDs -> [curPipe : Pipes \union {NULL}, isMoving : BOOLEAN]]
  <2> DEFINE U == [curPipe : Pipes \union {NULL}, isMoving : BOOLEAN]
  <2>1. user \in [IDs -> U] /\ TRUE \in BOOLEAN
    BY <1>1 DEF TypeInv
  <2>2. user' \in [IDs -> U] /\ user'[i].curPipe = user[i].curPipe /\ user'[i].isMoving = TRUE
    BY Zenon, <1>11, <2>1
  <2>3. \A j \in IDs \ {i} : user'[j] = user[j]
    BY Zenon, <1>11, <2>1
  <2>4. user[i].curPipe = q /\ user'[i] \in U
    BY <1>4, <2>2
  <2>. QED  BY <2>2, <2>3, <2>4
<1>13. \A r \in Pipes : /\ i \notin Values(joinQ[r]) /\ i \notin Values(moveInQ[r])
                        /\ i \notin Values(moveOutQ[r]) /\ i \notin Values(leaveQ[r])
  BY <1>2, <1>3, <1>5, <1>6 DEF RequestInv, WantsJoin, WantsOut, WantsIn, WantsLeave
<1>14. Queued(moveOutQ) /\ \A r \in Pipes : Distinct(moveOutQ[r])
  BY <1>1 DEF TypeInv, AllDistinct
<1>15. /\ Queued(moveOutQ') /\ \A r \in Pipes : Distinct(moveOutQ'[r])
       /\ \A r \in Pipes : Values(moveOutQ'[r]) =
            IF r = q THEN Values(moveOutQ[q]) \union {i} ELSE Values(moveOutQ[r])
  <2>1. moveOutQ' = Enqueue(moveOutQ, q, i) /\ i \notin Values(moveOutQ[q])
    BY <1>2, <1>4, <1>13
  <2>. QED  BY <1>14, <2>1, EnqueueValues
<1>16. TypeInv'
  BY <1>1, <1>8, <1>9, <1>11, <1>12, <1>15 DEF TypeInv
<1>17. AllDistinct'
  BY <1>1, <1>11, <1>15 DEF AllDistinct
<1>18. ActorStep(s, i)
  <2>1. \A r \in Slots \ {s} : SameSlot(r) /\ waited'[r] = waited[r]
    BY <1>8, <1>9, <1>11 DEF SameSlot
  <2>2. \A j \in IDs \ {i} : SameID(j)
    BY <1>11, <1>12, <1>15 DEF SameID
  <2>. QED  BY <1>8, <1>11, <2>1, <2>2 DEF ActorStep
<1>19. SlotInv(s)'
  <2>1. RecordInv(s)'
    <3>1. References(s)' = References(s) + 1
      <4>1. session[s].linked \in BOOLEAN
        BY <1>3 DEF Sessions
      <4>. QED  BY <1>5, <1>9, <1>10, <4>1 DEF References
    <3>2. session[s].ioCount = References(s) /\ References(s) # 0 /\ References(s) \in Nat
      <4>1. References(s) \in Nat
        BY DEF References
      <4>. QED  BY <1>3, <1>6, <4>1 DEF RecordInv
    <3>3. new.ioCount = References(s)' /\ new.ioCount # 0
      BY <1>10, <3>1, <3>2
    <3>4. s \notin entering' /\ new.destPipe # NULL
      BY <1>3, <1>5, <1>10, <1>11, PipeAssumption DEF RecordInv
    <3>. QED  BY <1>9, <1>10, <3>3, <3>4 DEF RecordInv
  <2>2. RequestInv(s)'
    <3>1. \A r \in Pipes : /\ ~WantsJoin(s, r)' /\ ~WantsIn(s, r)' /\ ~WantsLeave(s, r)'
                           /\ WantsOut(s, r)' <=> r = q
      BY <1>4, <1>9, <1>10, <1>11, PipeAssumption
         DEF WantsJoin, WantsOut, WantsIn, WantsLeave
    <3>. QED  BY <1>9, <1>10, <1>11, <1>13, <1>15, <3>1 DEF RequestInv
  <2>3. UserInv(s)'
    <3>1. \A r \in Pipes : i \in users[r] => r = q
      BY <1>2, <1>3, <1>4 DEF UserInv
    <3>. QED  BY <1>4, <1>9, <1>10, <1>11, <1>12, <3>1 DEF UserInv
  <2>4. PipeInv(s)'
    <3>1. zeroUserCount'[p] <= SKIP_ROUNDS + waited'[s]
      BY <1>1, <1>8, PipeAssumption DEF TypeInv
    <3>. QED  BY <1>8, <1>9, <1>10, <1>11, <3>1 DEF PipeInv
  <2>5. JobInv(s)'
    BY <1>9 DEF JobInv, Values
  <2>. QED  BY <1>3, <1>9, <1>10, <2>1, <2>2, <2>3, <2>4, <2>5 DEF SlotInv
<1>20. session'[s].id = i /\ i \notin fresh'
  BY <1>3, <1>9, <1>10, <1>11
<1>. QED  BY <1>2, <1>3, <1>16, <1>17, <1>18, <1>19, <1>20, ActorKeepsInv

-------------------------------------------------------------------------------
(* The parts of a frame.                                                    *)

LEMMA LeaveRequested ==
  ASSUME NEW p \in Pipes, NEW i \in IDs, Queued(leaveQ),
         \A r \in Pipes : Distinct(leaveQ[r]) /\ i \notin Values(leaveQ[r]),
         leaveQ' = Enqueue(leaveQ, p, i)
  PROVE  /\ Queued(leaveQ') /\ \A r \in Pipes : Distinct(leaveQ'[r])
         /\ \A r \in Pipes : \A j \in IDs \ {i} : j \in Values(leaveQ'[r]) <=> j \in Values(leaveQ[r])
         /\ \A r \in Pipes : i \in Values(leaveQ'[r]) <=> r = p
BY Enqueued

(* The session of s enters pipe p, which takes its request from a queue.    *)
LEMMA EnterInv ==
  ASSUME Inv, NEW s \in Slots, NEW i \in IDs, NEW p \in Pipes,
         session[s].id = i, session[s].isMoving = TRUE, session[s].destPipe = p, s \notin entering,
         \A r \in Pipes : i \notin users[r] /\ i \notin Values(moveOutQ[r]),
         users' = [users EXCEPT ![p] = @ \union {i}],
         user' = [user EXCEPT ![i] = [curPipe |-> p, isMoving |-> FALSE]],
         AfterPipeEnter(s, p), waited' = [waited EXCEPT ![s] = 0],
         UNCHANGED <<fresh, entering, moveOutQ, at, managed, errors>>,
         Queued(joinQ'), Queued(moveInQ'),
         \A r \in Pipes : /\ Distinct(joinQ'[r]) /\ Distinct(moveInQ'[r])
                          /\ Values(joinQ'[r]) = Values(joinQ[r]) \ {i}
                          /\ Values(moveInQ'[r]) = Values(moveInQ[r]) \ {i}
  PROVE  Inv'
<1> USE DEF managed
<1> DEFINE new == [session[s] EXCEPT !.curPipe = p, !.destPipe = NULL, !.isMoving = FALSE]
<1>1. TypeInv /\ AllDistinct /\ session[s] \in Sessions
  BY InvDistinct DEF Inv, TypeInv
<1>2. /\ i # NULL /\ p # NULL /\ i \notin fresh /\ \A r \in Slots \ {s} : session[r].id # i
      /\ RecordInv(s) /\ RequestInv(s) /\ PipeInv(s) /\ JobInv(s)
  BY PipeAssumption, OneSession
<1>3. new \in Sessions
  BY Zenon, <1>1 DEF Sessions
<1>4. /\ new.id = i /\ new.ioCount = session[s].ioCount /\ new.linked = session[s].linked
      /\ new.curPipe = p /\ new.destPipe = NULL
      /\ new.isMoving = FALSE /\ new.deleted = session[s].deleted
  BY Zenon, <1>1 DEF Sessions
<1>5. DecrementIOCount(s, new)
  BY Zenon DEF AfterPipeEnter
<1> HIDE DEF new
<1>6. PICK left : Decrement(s, new, left)
  BY <1>3, <1>5, Decremented
<1>7. /\ left \in Sessions /\ left.id = i /\ left.ioCount = session[s].ioCount - 1
      /\ left.linked = session[s].linked /\ left.curPipe = p /\ left.destPipe = NULL
      /\ left.isMoving = FALSE
  BY <1>4, <1>6 DEF Decrement
<1>8. /\ session' = [session EXCEPT ![s] = left] /\ jobQ' = jobQ
      /\ \/ left.ioCount > 0 /\ left.deleted = session[s].deleted /\ leaveQ' = leaveQ
         \/ left.ioCount = 0 /\ left.deleted = TRUE /\ leaveQ' = Enqueue(leaveQ, p, i)
  BY <1>2, <1>4, <1>6, <1>7 DEF Decrement
<1>9. /\ session[s].linked \in BOOLEAN /\ session[s].deleted = FALSE
      /\ left.ioCount = IF session[s].linked THEN 1 ELSE 0
  <2>1. session[s].linked \in BOOLEAN /\ session[s].deleted \in BOOLEAN
    BY <1>1 DEF Sessions
  <2>2. session[s].ioCount = (IF session[s].linked THEN 1 ELSE 0) + 1
    BY <1>2, <2>1 DEF RecordInv, References
  <2>3. session[s].ioCount # 0
    BY <2>1, <2>2
  <2>4. session[s].deleted = FALSE
    BY <1>2, <2>1, <2>3 DEF RecordInv
  <2>. QED  BY <1>7, <2>1, <2>2, <2>4
<1>10. /\ session'[s] = left /\ (\A r \in Slots \ {s} : session'[r] = session[r])
       /\ session' \in [Slots -> Sessions]
  BY <1>1, <1>7, <1>8 DEF TypeInv
<1>11. /\ \A r \in Pipes : users'[r] = IF r = p THEN users[p] \union {i} ELSE users[r]
       /\ users' \in [Pipes -> SUBSET IDs]
  BY <1>1 DEF TypeInv
<1>12. /\ \A j \in IDs \ {i} : user'[j] = user[j]
       /\ user'[i] = [curPipe |-> p, isMoving |-> FALSE]
       /\ user' \in [IDs -> [curPipe : Pipes \union {NULL}, isMoving : BOOLEAN]]
  BY <1>1 DEF TypeInv
<1>13. \A r \in Pipes : i \notin Values(leaveQ[r])
  BY <1>2, <1>9 DEF RequestInv, WantsLeave
<1>14. Queued(leaveQ) /\ \A r \in Pipes : Distinct(leaveQ[r])
  BY <1>1 DEF TypeInv, AllDistinct
<1>15. /\ Queued(leaveQ') /\ \A r \in Pipes : Distinct(leaveQ'[r])
       /\ \A r \in Pipes : \A j \in IDs \ {i} : j \in Values(leaveQ'[r]) <=> j \in Values(leaveQ[r])
       /\ \A r \in Pipes : i \in Values(leaveQ'[r]) <=> left.deleted = TRUE /\ r = p
  <2>1. CASE left.ioCount > 0 /\ left.deleted = session[s].deleted /\ leaveQ' = leaveQ
    BY <1>9, <1>13, <1>14, <2>1
  <2>2. CASE left.ioCount = 0 /\ left.deleted = TRUE /\ leaveQ' = Enqueue(leaveQ, p, i)
    <3>1. Queued(leaveQ) /\ leaveQ' = Enqueue(leaveQ, p, i)
      BY <1>14, <2>2
    <3>2. \A r \in Pipes : Distinct(leaveQ[r]) /\ i \notin Values(leaveQ[r])
      BY <1>13, <1>14
    <3>3. /\ Queued(leaveQ') /\ \A r \in Pipes : Distinct(leaveQ'[r])
          /\ \A r \in Pipes : \A j \in IDs \ {i} : j \in Values(leaveQ'[r]) <=> j \in Values(leaveQ[r])
          /\ \A r \in Pipes : i \in Values(leaveQ'[r]) <=> r = p
      BY <3>1, <3>2, LeaveRequested
    <3>. QED  BY <2>2, <3>3
  <2>. QED  BY <1>8, <2>1, <2>2
<1>16. waited' \in [Slots -> Nat] /\ \A r \in Slots \ {s} : waited'[r] = waited[r]
  BY <1>1 DEF TypeInv
<1>17. TypeInv'
  BY <1>1, <1>8, <1>10, <1>11, <1>12, <1>15, <1>16 DEF TypeInv, Queued
<1>18. AllDistinct'
  BY <1>1, <1>15 DEF AllDistinct
<1>19. ActorStep(s, i)
  <2>1. \A r \in Slots \ {s} : SameSlot(r) /\ waited'[r] = waited[r]
    BY <1>8, <1>10, <1>16 DEF SameSlot
  <2>2. \A j \in IDs \ {i} : SameID(j)
    <3> SUFFICES ASSUME NEW j \in IDs \ {i}, NEW r \in Pipes
                 PROVE  /\ user'[j] = user[j]
                        /\ j \in users'[r] <=> j \in users[r]
                        /\ j \in Values(joinQ'[r]) <=> j \in Values(joinQ[r])
                        /\ j \in Values(moveInQ'[r]) <=> j \in Values(moveInQ[r])
                        /\ j \in Values(moveOutQ'[r]) <=> j \in Values(moveOutQ[r])
                        /\ j \in Values(leaveQ'[r]) <=> j \in Values(leaveQ[r])
      BY <1>12 DEF SameID
    <3>1. j \in users'[r] <=> j \in users[r]
      BY <1>11
    <3>2. /\ j \in Values(joinQ'[r]) <=> j \in Values(joinQ[r])
          /\ j \in Values(moveInQ'[r]) <=> j \in Values(moveInQ[r])
      OBVIOUS
    <3>. QED  BY <1>12, <1>15, <3>1, <3>2
  <2>3. \A r \in Pipes : zeroUserCount'[r] <= zeroUserCount[r]
    BY <1>1 DEF TypeInv
  <2>. QED  BY <2>1, <2>2, <2>3 DEF ActorStep
<1>20. SlotInv(s)'
  <2>1. RecordInv(s)'
    <3>1. References(s)' = left.ioCount
      BY <1>7, <1>9, <1>10 DEF References
    <3>2. left.deleted = TRUE <=> left.ioCount = 0
      BY <1>8, <1>9
    <3>3. left.deleted \in BOOLEAN /\ s \notin entering'
      BY <1>7 DEF Sessions
    <3>. QED  BY <1>2, <1>7, <1>10, <3>1, <3>2, <3>3 DEF RecordInv
  <2>2. RequestInv(s)'
    <3>1. \A r \in Pipes : /\ ~WantsJoin(s, r)' /\ ~WantsIn(s, r)' /\ ~WantsOut(s, r)'
                           /\ WantsLeave(s, r)' <=> left.deleted = TRUE /\ r = p
      BY <1>7, <1>10 DEF WantsJoin, WantsOut, WantsIn, WantsLeave, Sessions
    <3>. QED  BY <1>7, <1>10, <1>15, <3>1 DEF RequestInv
  <2>3. UserInv(s)'
    <3>1. \A r \in Pipes : i \in users'[r] <=> r = p
      BY <1>11
    <3>2. user'[i] = [curPipe |-> p, isMoving |-> left.isMoving]
      BY <1>7, <1>12
    <3>. QED  BY <1>7, <1>10, <3>1, <3>2 DEF UserInv
  <2>4. PipeInv(s)'
    <3>1. place[p] # 0
      BY <1>2 DEF PipeInv
    <3>2. ~stopFlag'[p]
      BY <3>1 DEF Inv, StopInv
    <3>. QED  BY <1>7, <1>10, <3>2 DEF PipeInv
  <2>5. JobInv(s)'
    BY <1>2, <1>7, <1>8, <1>10 DEF JobInv
  <2>. QED  BY <1>2, <1>7, <1>10, <2>1, <2>2, <2>3, <2>4, <2>5 DEF SlotInv
<1>21. session'[s].id = i /\ i \notin fresh'
  BY <1>2, <1>7, <1>10
<1>. QED  BY <1>2, <1>17, <1>18, <1>19, <1>20, <1>21, ActorKeepsInv

LEMMA JoinInv ==
  ASSUME Inv, NEW p \in Pipes, Join(p)
  PROVE  Inv'
<1>1. TypeInv /\ AllDistinct
  BY InvDistinct DEF Inv
<1>2. joinQ[p] # <<>> /\ Queued(joinQ) /\ \A r \in Pipes : Distinct(joinQ[r])
  BY <1>1 DEF Join, TypeInv, AllDistinct
<1>3. PICK i \in IDs : i = Head(joinQ[p]) /\ i \in Values(joinQ[p])
  BY <1>2, DequeueValues
<1>4. IsSession(i)
  BY <1>3 DEF Inv, QueueInv, InOrder
<1>5. PICK s \in Slots : s = Slot(i) /\ session[s].id = i
  BY <1>4, SlotOf
<1>6. RequestInv(s) /\ UserInv(s) /\ RecordInv(s) /\ session[s] \in Sessions
  BY <1>1, <1>5, PipeAssumption, OneSession DEF TypeInv
<1>7. /\ session[s].isMoving = TRUE /\ s \notin entering
      /\ session[s].curPipe = NULL /\ session[s].destPipe = p
  BY <1>3, <1>5, <1>6 DEF RequestInv, WantsJoin, Sessions
<1>8. \A r \in Pipes : session[s].curPipe # r
  BY <1>7, PipeAssumption
<1>9. \A r \in Pipes : /\ i \notin users[r] /\ i \notin Values(moveOutQ[r])
                       /\ i \notin Values(moveInQ[r]) /\ (i \in Values(joinQ[r]) => r = p)
  <2>1. \A r \in Pipes : i \notin users[r]
    BY <1>5, <1>6, <1>7, <1>8 DEF UserInv
  <2>2. \A r \in Pipes : ~WantsOut(s, r) /\ ~WantsIn(s, r) /\ (WantsJoin(s, r) => r = p)
    BY <1>5, <1>6, <1>7, <1>8 DEF WantsOut, WantsIn, WantsJoin
  <2>. QED  BY <1>5, <1>6, <2>1, <2>2 DEF RequestInv
<1>10. /\ users' = [users EXCEPT ![p] = @ \union {i}]
       /\ user' = [user EXCEPT ![i] = [curPipe |-> p, isMoving |-> FALSE]]
       /\ AfterPipeEnter(s, p) /\ waited' = [waited EXCEPT ![s] = 0]
       /\ UNCHANGED <<fresh, entering, moveOutQ, at, managed, errors>>
  BY <1>3, <1>5, <1>7, <1>9 DEF Join, Enter
<1>11. joinQ' = Dequeue(joinQ, p) /\ moveInQ' = moveInQ
  BY <1>10 DEF Join
<1>12. /\ Queued(joinQ') /\ \A r \in Pipes : Distinct(joinQ'[r])
       /\ \A r \in Pipes : Values(joinQ'[r]) = Values(joinQ[r]) \ {i}
  <2>1. \A r \in Pipes : Head(joinQ[p]) \in Values(joinQ[r]) => r = p
    BY <1>3, <1>9
  <2>2. \A r \in Pipes : Values(Dequeue(joinQ, p)[r]) = Values(joinQ[r]) \ {Head(joinQ[p])}
    BY <1>2, <2>1, Dequeued
  <2>3. Queued(Dequeue(joinQ, p)) /\ \A r \in Pipes : Distinct(Dequeue(joinQ, p)[r])
    BY <1>2, DequeueValues
  <2>. QED  BY <1>3, <1>11, <2>2, <2>3
<1>13. /\ Queued(moveInQ')
       /\ \A r \in Pipes : Distinct(moveInQ'[r]) /\ Values(moveInQ'[r]) = Values(moveInQ[r]) \ {i}
  BY <1>1, <1>9, <1>11 DEF TypeInv, AllDistinct
<1>. QED  BY <1>5, <1>7, <1>9, <1>10, <1>12, <1>13, EnterInv

LEMMA MoveInInv ==
  ASSUME Inv, NEW p \in Pipes, MoveIn(p)
  PROVE  Inv'
<1>1. TypeInv /\ AllDistinct
  BY InvDistinct DEF Inv
<1>2. moveInQ[p] # <<>> /\ Queued(moveInQ) /\ \A r \in Pipes : Distinct(moveInQ[r])
  BY <1>1 DEF MoveIn, TypeInv, AllDistinct
<1>3. PICK i \in IDs : i = Head(moveInQ[p]) /\ i \in Values(moveInQ[p])
  BY <1>2, DequeueValues
<1>4. IsSession(i)
  BY <1>3 DEF Inv, QueueInv, InOrder
<1>5. PICK s \in Slots : s = Slot(i) /\ session[s].id = i
  BY <1>4, SlotOf
<1>6. RequestInv(s) /\ UserInv(s) /\ RecordInv(s) /\ session[s] \in Sessions
  BY <1>1, <1>5, PipeAssumption, OneSession DEF TypeInv
<1>7. /\ session[s].isMoving = TRUE /\ session[s].destPipe = p
      /\ session[s].curPipe # NULL /\ session[s].id \notin users[session[s].curPipe]
  BY <1>3, <1>5, <1>6 DEF RequestInv, WantsIn, Sessions
<1>8. s \notin entering
  BY <1>6, <1>7 DEF RecordInv
<1>9. \A r \in Pipes : /\ i \notin users[r] /\ i \notin Values(moveOutQ[r])
                       /\ i \notin Values(joinQ[r]) /\ (i \in Values(moveInQ[r]) => r = p)
  <2>1. \A r \in Pipes : i \notin users[r]
    BY <1>5, <1>6, <1>7 DEF UserInv
  <2>2. \A r \in Pipes : ~WantsOut(s, r) /\ ~WantsJoin(s, r) /\ (WantsIn(s, r) => r = p)
    BY <1>5, <1>6, <1>7 DEF WantsOut, WantsIn, WantsJoin
  <2>. QED  BY <1>5, <1>6, <2>1, <2>2 DEF RequestInv
<1>10. /\ users' = [users EXCEPT ![p] = @ \union {i}]
       /\ user' = [user EXCEPT ![i] = [curPipe |-> p, isMoving |-> FALSE]]
       /\ AfterPipeEnter(s, p) /\ waited' = [waited EXCEPT ![s] = 0]
       /\ UNCHANGED <<fresh, entering, moveOutQ, at, managed, errors>>
  BY <1>3, <1>5, <1>7, <1>9 DEF MoveIn, Enter
<1>11. moveInQ' = Dequeue(moveInQ, p) /\ joinQ' = joinQ
  BY <1>10 DEF MoveIn
<1>12. /\ Queued(moveInQ') /\ \A r \in Pipes : Distinct(moveInQ'[r])
       /\ \A r \in Pipes : Values(moveInQ'[r]) = Values(moveInQ[r]) \ {i}
  <2>1. \A r \in Pipes : Head(moveInQ[p]) \in Values(moveInQ[r]) => r = p
    BY <1>3, <1>9
  <2>2. \A r \in Pipes : Values(Dequeue(moveInQ, p)[r]) = Values(moveInQ[r]) \ {Head(moveInQ[p])}
    BY <1>2, <2>1, Dequeued
  <2>3. Queued(Dequeue(moveInQ, p)) /\ \A r \in Pipes : Distinct(Dequeue(moveInQ, p)[r])
    BY <1>2, DequeueValues
  <2>. QED  BY <1>3, <1>11, <2>2, <2>3
<1>13. /\ Queued(joinQ')
       /\ \A r \in Pipes : Distinct(joinQ'[r]) /\ Values(joinQ'[r]) = Values(joinQ[r]) \ {i}
  BY <1>1, <1>9, <1>11 DEF TypeInv, AllDistinct
<1>. QED  BY <1>5, <1>7, <1>8, <1>9, <1>10, <1>12, <1>13, EnterInv

LEMMA MoveOutInv ==
  ASSUME Inv, NEW p \in Pipes, MoveOut(p)
  PROVE  Inv'
<1> USE DEF sessions, queues, managed
<1>1. TypeInv /\ AllDistinct
  BY InvDistinct DEF Inv
<1>2. moveOutQ[p] # <<>> /\ Queued(moveOutQ) /\ \A r \in Pipes : Distinct(moveOutQ[r])
  BY <1>1 DEF MoveOut, TypeInv, AllDistinct
<1>3. PICK i \in IDs : i = Head(moveOutQ[p]) /\ i \in Values(moveOutQ[p])
  BY <1>2, DequeueValues
<1>4. IsSession(i)
  BY <1>3 DEF Inv, QueueInv, InOrder
<1>5. PICK s \in Slots : s = Slot(i) /\ session[s].id = i
  BY <1>4, SlotOf
<1>6. /\ i # NULL /\ i \notin fresh /\ \A r \in Slots \ {s} : session[r].id # i
      /\ RecordInv(s) /\ RequestInv(s) /\ UserInv(s) /\ PipeInv(s) /\ JobInv(s)
      /\ session[s] \in Sessions
  BY <1>1, <1>5, PipeAssumption, OneSession DEF TypeInv
<1>7. session[s].isMoving = TRUE /\ session[s].curPipe = p /\ i \in users[p]
  BY <1>3, <1>5, <1>6 DEF RequestInv, WantsOut, Sessions
<1>8. PICK d \in Pipes : d = session[s].destPipe
  BY <1>6, <1>7 DEF RecordInv, Sessions
<1>9. \A r \in Pipes : i \in users[r] => r = p
  BY <1>5, <1>6, <1>7 DEF UserInv
<1>10. session[s].deleted = FALSE
  <2>1. References(s) # 0
    BY <1>7 DEF References
  <2>. QED  BY <1>6, <2>1 DEF RecordInv, Sessions
<1>11. \A r \in Pipes : /\ i \notin Values(joinQ[r]) /\ i \notin Values(moveInQ[r])
                        /\ i \notin Values(leaveQ[r]) /\ (i \in Values(moveOutQ[r]) => r = p)
  <2>1. \A r \in Pipes : /\ ~WantsJoin(s, r) /\ ~WantsIn(s, r) /\ ~WantsLeave(s, r)
                         /\ (WantsOut(s, r) => r = p)
    BY <1>5, <1>7, <1>10, PipeAssumption DEF WantsJoin, WantsIn, WantsLeave, WantsOut
  <2>. QED  BY <1>5, <1>6, <2>1 DEF RequestInv
<1>12. /\ users' = [users EXCEPT ![p] = @ \ {i}] /\ moveOutQ' = Dequeue(moveOutQ, p)
       /\ moveInQ' = Enqueue(moveInQ, d, i)
       /\ session' = session /\ jobQ' = jobQ /\ waited' = waited /\ fresh' = fresh
       /\ entering' = entering /\ user' = user /\ joinQ' = joinQ /\ leaveQ' = leaveQ
       /\ at' = at /\ stopFlag' = stopFlag /\ zeroUserCount' = zeroUserCount
       /\ place' = place /\ errors' = errors
  BY <1>3, <1>5, <1>7, <1>8 DEF MoveOut, AfterPipeMoveOut
<1>13. /\ Queued(moveOutQ') /\ \A r \in Pipes : Distinct(moveOutQ'[r])
       /\ \A r \in Pipes : Values(moveOutQ'[r]) = Values(moveOutQ[r]) \ {i}
  <2>1. \A r \in Pipes : Head(moveOutQ[p]) \in Values(moveOutQ[r]) => r = p
    BY <1>3, <1>11
  <2>2. \A r \in Pipes : Values(Dequeue(moveOutQ, p)[r]) = Values(moveOutQ[r]) \ {Head(moveOutQ[p])}
    BY <1>2, <2>1, Dequeued
  <2>3. Queued(Dequeue(moveOutQ, p)) /\ \A r \in Pipes : Distinct(Dequeue(moveOutQ, p)[r])
    BY <1>2, DequeueValues
  <2>. QED  BY <1>3, <1>12, <2>2, <2>3
<1>14. Queued(moveInQ) /\ \A r \in Pipes : Distinct(moveInQ[r])
  BY <1>1 DEF TypeInv, AllDistinct
<1>15. /\ Queued(moveInQ') /\ \A r \in Pipes : Distinct(moveInQ'[r])
       /\ \A r \in Pipes : Values(moveInQ'[r]) =
            IF r = d THEN Values(moveInQ[d]) \union {i} ELSE Values(moveInQ[r])
  <2>1. i \notin Values(moveInQ[d])
    BY <1>11
  <2>2. \A r \in Pipes : Values(Enqueue(moveInQ, d, i)[r]) =
          IF r = d THEN Values(moveInQ[d]) \union {i} ELSE Values(moveInQ[r])
    BY <1>14, EnqueueValues
  <2>3. Queued(Enqueue(moveInQ, d, i)) /\ \A r \in Pipes : Distinct(Enqueue(moveInQ, d, i)[r])
    BY <1>14, <2>1, EnqueueValues
  <2>. QED  BY <1>12, <2>2, <2>3
<1>16. /\ \A r \in Pipes : users'[r] = users[r] \ {i}
       /\ users' \in [Pipes -> SUBSET IDs]
  BY <1>1, <1>9, <1>12 DEF TypeInv
<1>17. TypeInv'
  BY <1>1, <1>12, <1>13, <1>15, <1>16 DEF TypeInv
<1>18. AllDistinct'
  BY <1>1, <1>12, <1>13, <1>15 DEF AllDistinct
<1>19. ActorStep(s, i)
  <2>1. \A r \in Slots \ {s} : SameSlot(r) /\ waited'[r] = waited[r]
    BY <1>12 DEF SameSlot
  <2>2. \A j \in IDs \ {i} : SameID(j)
    BY <1>12, <1>13, <1>15, <1>16 DEF SameID
  <2>3. \A r \in Pipes : zeroUserCount'[r] <= zeroUserCount[r]
    BY <1>1, <1>12 DEF TypeInv
  <2>. QED  BY <1>12, <2>1, <2>2, <2>3 DEF ActorStep
<1>20. SlotInv(s)'
  <2>1. RecordInv(s)' /\ PipeInv(s)' /\ JobInv(s)'
    BY <1>6, <1>12 DEF RecordInv, References, PipeInv, JobInv
  <2>2. RequestInv(s)'
    <3>1. \A r \in Pipes : /\ ~WantsJoin(s, r)' /\ ~WantsOut(s, r)' /\ ~WantsLeave(s, r)'
                           /\ (WantsIn(s, r)' <=> r = d)
      BY <1>5, <1>7, <1>8, <1>10, <1>12, <1>16, PipeAssumption
         DEF WantsJoin, WantsIn, WantsLeave, WantsOut
    <3>2. \A r \in Pipes : i \in Values(moveInQ'[r]) <=> r = d
      BY <1>11, <1>15
    <3>3. \A r \in Pipes : /\ i \notin Values(joinQ'[r]) /\ i \notin Values(moveOutQ'[r])
                           /\ i \notin Values(leaveQ'[r])
      BY <1>11, <1>12, <1>13
    <3>. QED  BY <1>5, <1>12, <3>1, <3>2, <3>3 DEF RequestInv
  <2>3. UserInv(s)'
    <3>1. \A r \in Pipes : i \notin users'[r]
      BY <1>16
    <3>. QED  BY <1>5, <1>7, <1>12, <3>1 DEF UserInv
  <2>. QED  BY <1>5, <1>6, <1>12, <2>1, <2>2, <2>3 DEF SlotInv
<1>21. session'[s].id = i /\ i \notin fresh'
  BY <1>5, <1>6, <1>12
<1>. QED  BY <1>5, <1>6, <1>17, <1>18, <1>19, <1>20, <1>21, ActorKeepsInv

LEMMA LeaveInv ==
  ASSUME Inv, NEW p \in Pipes, Leave(p)
  PROVE  Inv'
<1> USE DEF sessions, queues, managed
<1>1. TypeInv /\ AllDistinct
  BY InvDistinct DEF Inv
<1>2. leaveQ[p] # <<>> /\ Queued(leaveQ) /\ \A r \in Pipes : Distinct(leaveQ[r])
  BY <1>1 DEF Leave, TypeInv, AllDistinct
<1>3. PICK i \in IDs : i = Head(leaveQ[p]) /\ i \in Values(leaveQ[p])
  BY <1>2, DequeueValues
<1>4. IsSession(i)
  BY <1>3 DEF Inv, QueueInv, InOrder
<1>5. PICK s \in Slots : s = Slot(i) /\ session[s].id = i
  BY <1>4, SlotOf
<1>6. /\ i # NULL /\ i \notin fresh /\ \A r \in Slots \ {s} : session[r].id # i
      /\ RecordInv(s) /\ RequestInv(s) /\ UserInv(s) /\ session[s] \in Sessions
  BY <1>1, <1>5, PipeAssumption, OneSession DEF TypeInv
<1>7. session[s].deleted = TRUE /\ session[s].curPipe = p
  BY <1>3, <1>5, <1>6 DEF RequestInv, WantsLeave, Sessions
<1>8. session[s].isMoving = FALSE
  <2>1. session[s].isMoving \in BOOLEAN /\ session[s].linked \in BOOLEAN
    BY <1>6 DEF Sessions
  <2>2. session[s].ioCount = 0 /\ session[s].ioCount = References(s)
    BY <1>6, <1>7 DEF RecordInv
  <2>. QED  BY <2>1, <2>2 DEF References
<1>9. i \in users[p] /\ \A r \in Pipes : i \in users[r] => r = p
  BY <1>5, <1>6, <1>7, <1>8, PipeAssumption DEF UserInv
<1>10. \A r \in Pipes : /\ i \notin Values(joinQ[r]) /\ i \notin Values(moveInQ[r])
                        /\ i \notin Values(moveOutQ[r]) /\ (i \in Values(leaveQ[r]) => r = p)
  <2>1. \A r \in Pipes : /\ ~WantsJoin(s, r) /\ ~WantsIn(s, r) /\ ~WantsOut(s, r)
                         /\ (WantsLeave(s, r) => r = p)
    BY <1>7, <1>8 DEF WantsJoin, WantsIn, WantsLeave, WantsOut
  <2>. QED  BY <1>5, <1>6, <2>1 DEF RequestInv
<1>11. /\ users' = [users EXCEPT ![p] = @ \ {i}] /\ leaveQ' = Dequeue(leaveQ, p)
       /\ session' = [session EXCEPT ![s] = Free] /\ jobQ' = [jobQ EXCEPT ![s] = <<>>]
       /\ user' = [user EXCEPT ![i] = NoUser]
       /\ waited' = waited /\ fresh' = fresh /\ entering' = entering
       /\ joinQ' = joinQ /\ moveInQ' = moveInQ /\ moveOutQ' = moveOutQ
       /\ at' = at /\ stopFlag' = stopFlag /\ zeroUserCount' = zeroUserCount
       /\ place' = place /\ errors' = errors
  BY <1>3, <1>5, <1>9 DEF Leave
<1>12. /\ Queued(leaveQ') /\ \A r \in Pipes : Distinct(leaveQ'[r])
       /\ \A r \in Pipes : Values(leaveQ'[r]) = Values(leaveQ[r]) \ {i}
  <2>1. \A r \in Pipes : Head(leaveQ[p]) \in Values(leaveQ[r]) => r = p
    BY <1>3, <1>10
  <2>2. \A r \in Pipes : Values(Dequeue(leaveQ, p)[r]) = Values(leaveQ[r]) \ {Head(leaveQ[p])}
    BY <1>2, <2>1, Dequeued
  <2>3. Queued(Dequeue(leaveQ, p)) /\ \A r \in Pipes : Distinct(Dequeue(leaveQ, p)[r])
    BY <1>2, DequeueValues
  <2>. QED  BY <1>3, <1>11, <2>2, <2>3
<1>13. /\ \A r \in Pipes : users'[r] = users[r] \ {i}
       /\ users' \in [Pipes -> SUBSET IDs]
  BY <1>1, <1>9, <1>11 DEF TypeInv
<1>14. /\ session'[s] = Free /\ (\A r \in Slots \ {s} : session'[r] = session[r])
       /\ jobQ'[s] = <<>> /\ (\A r \in Slots \ {s} : jobQ'[r] = jobQ[r])
       /\ session' \in [Slots -> Sessions] /\ jobQ' \in [Slots -> Seq(IDs)]
  BY <1>1, <1>11, FreeIsASession DEF TypeInv
<1>15. /\ \A j \in IDs \ {i} : user'[j] = user[j]
       /\ user' \in [IDs -> [curPipe : Pipes \union {NULL}, isMoving : BOOLEAN]]
  BY <1>1, <1>11 DEF TypeInv, NoUser
<1>16. TypeInv'
  BY <1>1, <1>11, <1>12, <1>13, <1>14, <1>15 DEF TypeInv
<1>17. AllDistinct'
  BY <1>1, <1>11, <1>12 DEF AllDistinct
<1>18. ActorStep(s, i)
  <2>1. \A r \in Slots \ {s} : SameSlot(r) /\ waited'[r] = waited[r]
    BY <1>11, <1>14 DEF SameSlot
  <2>2. ASSUME NEW j \in IDs \ {i}
        PROVE  SameID(j)
    <3>1. j # i /\ user'[j] = user[j]
      BY <1>15
    <3>2. \A r \in Pipes : j \in users'[r] <=> j \in users[r]
      BY <1>13, <3>1
    <3>3. \A r \in Pipes : j \in Values(leaveQ'[r]) <=> j \in Values(leaveQ[r])
      BY <1>12, <3>1
    <3>. QED  BY <1>11, <3>1, <3>2, <3>3 DEF SameID
  <2>3. \A r \in Pipes : zeroUserCount'[r] <= zeroUserCount[r]
    BY <1>1, <1>11 DEF TypeInv
  <2>. QED  BY <1>11, <2>1, <2>2, <2>3 DEF ActorStep
<1>19. Nowhere(i)'
  BY <1>10, <1>11, <1>12, <1>13 DEF Nowhere
<1>20. SlotInv(s)'
  <2>1. s \notin entering'
    BY <1>6, <1>8, <1>11 DEF RecordInv
  <2>. QED  BY <1>14, <2>1, FreeIsASession DEF SlotInv
<1>21. session'[s].id = NULL /\ i \notin fresh'
  BY <1>6, <1>11, <1>14, FreeIsASession
<1>. QED  BY <1>5, <1>6, <1>16, <1>17, <1>18, <1>19, <1>20, <1>21, ActorKeepsInv

LEMMA NextPartInv ==
  ASSUME Inv, NEW p \in Pipes, NextPart(p)
  PROVE  Inv'
<1> USE DEF sessions, queues, managed
<1>1. TypeInv /\ StopInv
  BY DEF Inv
<1>2. UNCHANGED <<sessions, fresh, entering, user, users, queues, managed, errors>>
  BY DEF NextPart
<1>3. \E x : at' = [at EXCEPT ![p] = x] /\ x # "unused"
  BY Zenon DEF NextPart
<1>4. /\ at' = [r \in Pipes |-> at'[r]]
      /\ \A r \in Pipes : at'[r] = "unused" => at[r] = "unused"
  BY <1>1, <1>3 DEF TypeInv
<1>5. TypeInv'
  BY <1>1, <1>2, <1>4 DEF TypeInv
<1>6. StopInv'
  BY <1>1, <1>2, <1>4 DEF StopInv
<1>7. ASSUME NEW s \in Slots, session[s].id # NULL
      PROVE  PipeInv(s)'
  BY <1>2, <1>7, OneSession DEF PipeInv
<1>. QED  BY <1>2, <1>5, <1>6, <1>7, ManagerKeepsInv

-------------------------------------------------------------------------------
(* The managers.                                                            *)

LEMMA AutoCreateInv ==
  ASSUME Inv, NEW c \in Codes, NEW p \in Pipes, AutoCreate(c, p)
  PROVE  Inv'
<1> USE DEF sessions, queues, managed
<1>1. TypeInv /\ StopInv /\ at[p] = "unused"
  BY DEF Inv, AutoCreate
<1>2. place[p] = 0 /\ ~stopFlag[p]
  BY <1>1 DEF StopInv
<1>3. UNCHANGED <<sessions, fresh, entering, user, users, queues, stopFlag, zeroUserCount, errors>>
  BY DEF AutoCreate
<1>4. PICK n : place' = [place EXCEPT ![p] = n]
  BY Zenon DEF AutoCreate
<1>5. at' = [at EXCEPT ![p] = "message"]
  BY DEF AutoCreate
<1>6. place' = [r \in Pipes |-> place'[r]] /\ \A r \in Pipes \ {p} : place'[r] = place[r]
  BY <1>1, <1>4 DEF TypeInv
<1>7. /\ at' = [r \in Pipes |-> at'[r]]
      /\ at'[p] # "unused" /\ \A r \in Pipes \ {p} : at'[r] = at[r]
  BY <1>1, <1>5 DEF TypeInv
<1>8. TypeInv'
  BY <1>1, <1>3, <1>6, <1>7 DEF TypeInv
<1>9. StopInv'
  BY <1>1, <1>2, <1>3, <1>6, <1>7 DEF StopInv
<1>10. ASSUME NEW s \in Slots, session[s].id # NULL
       PROVE  PipeInv(s)'
  <2>1. PipeInv(s) /\ session[s].destPipe \in Pipes \union {NULL}
    BY <1>1, <1>10, OneSession DEF TypeInv, Sessions
  <2>2. session[s].destPipe # NULL => place'[session[s].destPipe] # 0
    BY <1>2, <1>6, <2>1 DEF PipeInv
  <2>. QED  BY <1>3, <2>1, <2>2 DEF PipeInv
<1>. QED  BY <1>3, <1>8, <1>9, <1>10, ManagerKeepsInv

(* A pipe with a user, or that a session moves to, is not stopped.          *)
LEMMA NotDestroyed ==
  ASSUME Inv, NEW c \in Codes, NEW p \in Pipes,
         \/ users[p] # {}
         \/ zeroUserCount[p] < DESTROY_ROUNDS
  PROVE  p \notin Destroyed(c)
<1>1. SUFFICES ASSUME p \in InList(c), Counted(c)[p] > DESTROY_ROUNDS
               PROVE  FALSE
  BY DEF Destroyed
<1>2. Counted(c)[p] = IF users[p] = {} THEN zeroUserCount[p] + 1 ELSE 0
  BY <1>1 DEF Counted
<1>3. zeroUserCount[p] \in Nat
  BY DEF Inv, TypeInv
<1>4. CASE users[p] # {}
  <2>1. Counted(c)[p] = 0
    BY <1>2, <1>4
  <2>. QED  BY <1>1, <2>1, PipeAssumption
<1>5. CASE zeroUserCount[p] < DESTROY_ROUNDS
  <2>1. Counted(c)[p] <= zeroUserCount[p] + 1
    BY <1>2, <1>3
  <2>2. Counted(c)[p] \in Nat
    BY <1>2, <1>3
  <2>. QED  BY <1>1, <1>3, <1>5, <2>1, <2>2, PipeAssumption
<1>. QED  BY <1>4, <1>5

LEMMA GarbageCollectInv ==
  ASSUME Inv, NEW c \in Codes, GarbageCollect(c)
  PROVE  Inv'
<1> USE DEF sessions, queues, managed
<1>1. TypeInv /\ StopInv
  BY DEF Inv
<1>2. CASE /\ RevivePipe(c)
           /\ UNCHANGED <<sessions, fresh, entering, user, users, queues, at, stopFlag, place, errors>>
  <2>1. /\ zeroUserCount' \in [Pipes -> Nat]
        /\ \A p \in Pipes : zeroUserCount'[p] <= zeroUserCount[p]
    BY <1>1, <1>2 DEF RevivePipe, TypeInv
  <2>2. TypeInv'
    BY <1>1, <1>2, <2>1 DEF TypeInv
  <2>3. StopInv'
    BY <1>1, <1>2 DEF StopInv
  <2>4. ASSUME NEW s \in Slots, session[s].id # NULL
        PROVE  PipeInv(s)'
    <3>1. PipeInv(s) /\ session[s].destPipe \in Pipes \union {NULL} /\ waited[s] \in Nat
      BY <1>1, <2>4, OneSession DEF TypeInv, Sessions
    <3>2. \A p \in Pipes : zeroUserCount'[p] \in Nat /\ zeroUserCount[p] \in Nat
      BY <1>1, <2>1 DEF TypeInv
    <3>. QED  BY <1>2, <2>1, <3>1, <3>2, PipeAssumption DEF PipeInv
  <2>. QED  BY <1>2, <2>2, <2>3, <2>4, ManagerKeepsInv
<1> DEFINE moving == {s \in Slots : session[s].isMoving /\ session[s].destPipe \in InList(c)}
<1>3. CASE /\ \A s \in moving : waited[s] < MOVE_ROUNDS
           /\ waited' = [s \in Slots |-> IF s \in moving THEN waited[s] + 1 ELSE waited[s]]
           /\ zeroUserCount' = Counted(c)
           /\ stopFlag' = [p \in Pipes |-> stopFlag[p] \/ p \in Destroyed(c)]
           /\ place' = [p \in Pipes |-> IF p \in Destroyed(c) THEN 0 ELSE place[p]]
           /\ UNCHANGED <<session, jobQ, fresh, entering, user, users, queues, at, errors>>
  <2>1. Destroyed(c) \subseteq InList(c)
    BY DEF Destroyed
  <2>2. zeroUserCount' \in [Pipes -> Nat]
    BY <1>1, <1>3 DEF Counted, TypeInv
  <2>3. waited' \in [Slots -> Nat]
    <3>1. \A s \in Slots : waited[s] \in Nat
      BY <1>1 DEF TypeInv
    <3> HIDE DEF moving
    <3>. QED  BY <1>3, <3>1
  <2>4. stopFlag' \in [Pipes -> BOOLEAN] /\ place' = [p \in Pipes |-> place'[p]]
    BY <1>3
  <2>5. TypeInv'
    BY <1>1, <1>3, <2>2, <2>3, <2>4 DEF TypeInv
  <2>6. ASSUME NEW p \in Pipes
        PROVE  /\ stopFlag'[p] <=> stopFlag[p] \/ p \in Destroyed(c)
               /\ p \in Destroyed(c) => place'[p] = 0 /\ place[p] # 0
               /\ p \notin Destroyed(c) => place'[p] = place[p]
    BY <1>3, <2>1 DEF InList
  <2>7. StopInv'
    BY <1>1, <1>3, <2>6 DEF StopInv
  <2>8. ASSUME NEW s \in Slots, session[s].id # NULL
        PROVE  PipeInv(s)'
    <3>1. /\ PipeInv(s) /\ RecordInv(s) /\ UserInv(s) /\ session[s] \in Sessions
          /\ session[s].curPipe \in Pipes \union {NULL} /\ waited[s] \in Nat
      BY <1>1, <2>8, OneSession DEF TypeInv, Sessions
    <3>2. ASSUME session[s].destPipe # NULL
          PROVE  /\ place'[session[s].destPipe] # 0
                 /\ zeroUserCount'[session[s].destPipe] <= SKIP_ROUNDS + waited'[s]
      <4>1. PICK p \in Pipes : p = session[s].destPipe
        BY <3>1, <3>2 DEF Sessions
      <4>2. place[p] # 0 /\ zeroUserCount[p] <= SKIP_ROUNDS + waited[s] /\ zeroUserCount[p] \in Nat
        BY <1>1, <3>1, <3>2, <4>1 DEF PipeInv, TypeInv
      <4>3. CASE p \in InList(c)
        <5>1. s \in moving
          BY <3>1, <3>2, <4>1, <4>3 DEF RecordInv
        <5>2. waited[s] < MOVE_ROUNDS /\ waited'[s] = waited[s] + 1
          BY <1>3, <5>1
        <5>3. zeroUserCount[p] < DESTROY_ROUNDS
          BY <3>1, <4>2, <5>2, PipeAssumption
        <5>4. p \notin Destroyed(c)
          BY <5>3, NotDestroyed
        <5>5. zeroUserCount'[p] <= zeroUserCount[p] + 1
          BY <1>3, <4>2 DEF Counted
        <5>6. zeroUserCount'[p] \in Nat
          BY <2>2
        <5>7. zeroUserCount'[p] <= SKIP_ROUNDS + waited'[s]
          BY <3>1, <4>2, <5>2, <5>5, <5>6, PipeAssumption
        <5>. QED  BY <2>6, <4>1, <4>2, <5>4, <5>7
      <4>4. CASE p \notin InList(c)
        <5>1. zeroUserCount'[p] = zeroUserCount[p]
          BY <1>3, <4>4 DEF Counted
        <5>2. s \notin moving
          BY <4>1, <4>4
        <5>3. waited'[s] = waited[s]
          BY <1>3, <5>2
        <5>4. p \notin Destroyed(c)
          BY <2>1, <4>4
        <5>. QED  BY <2>6, <4>1, <4>2, <5>1, <5>3, <5>4
      <4>. QED  BY <4>3, <4>4
    <3>3. ASSUME session[s].curPipe # NULL, ~session[s].isMoving
          PROVE  ~stopFlag'[session[s].curPipe]
      <4>1. PICK p \in Pipes : p = session[s].curPipe
        BY <3>1, <3>3
      <4>2. users[p] # {} /\ ~stopFlag[p]
        BY <3>1, <3>3, <4>1 DEF UserInv, PipeInv
      <4>3. p \notin Destroyed(c)
        BY <4>2, NotDestroyed
      <4>. QED  BY <2>6, <4>1, <4>2, <4>3
    <3>4. session'[s] = session[s]
      BY <1>3
    <3>. QED  BY <3>2, <3>3, <3>4 DEF PipeInv
  <2>9. UNCHANGED <<session, jobQ, fresh, entering, user, users, queues, errors>>
    BY <1>3
  <2>. QED  BY <2>5, <2>7, <2>8, <2>9, ManagerKeepsInv
<1>. QED  BY <1>2, <1>3 DEF GarbageCollect

-------------------------------------------------------------------------------
(* The theorems.                                                            *)

LEMMA NextInv == Inv /\ [Next]_vars => Inv'
<1> SUFFICES ASSUME Inv, [Next]_vars
             PROVE  Inv'
  OBVIOUS
<1>1. ASSUME NEW s \in Slots, NEW i \in IDs, Accept(s, i)
      PROVE  Inv'
  BY <1>1, AcceptInv
<1>2. ASSUME NEW s \in Slots, Disconnect(s) \/ EnqueueJob(s) \/ RequestEnter(s)
      PROVE  Inv'
  BY <1>2, DisconnectInv, EnqueueJobInv, RequestEnterInv
<1>3. ASSUME NEW s \in Slots, NEW p \in Pipes, MovePipeByID(s, p)
      PROVE  Inv'
  BY <1>3, MovePipeByIDInv
<1>4. ASSUME NEW p \in Pipes, NEW q \in Pipes, NEW i \in IDs, MovePipe(q, i, p)
      PROVE  Inv'
  BY <1>4, MovePipeInv
<1>5. ASSUME NEW p \in Pipes, Worker(p)
      PROVE  Inv'
  <2>1. ASSUME NEW i \in IDs, DequeueJob(p, i)
        PROVE  Inv'
    BY <2>1, DequeueJobInv
  <2>. QED  BY <1>5, <2>1, JoinInv, MoveInInv, MoveOutInv, LeaveInv, NextPartInv DEF Worker
<1>6. ASSUME NEW c \in Codes, NEW p \in Pipes, AutoCreate(c, p)
      PROVE  Inv'
  BY <1>6, AutoCreateInv
<1>7. ASSUME NEW c \in Codes, GarbageCollect(c)
      PROVE  Inv'
  BY <1>7, GarbageCollectInv
<1>8. CASE UNCHANGED vars
  <2> USE <1>8 DEF vars, sessions, queues, managed
  <2>1. TypeInv' /\ StopInv'
    BY DEF Inv, TypeInv, StopInv
  <2>2. \A s \in Slots : session[s].id # NULL => PipeInv(s)'
    BY OneSession DEF PipeInv
  <2>3. UNCHANGED <<session, jobQ, fresh, entering, user, users, queues, errors>>
    OBVIOUS
  <2>. QED  BY <2>1, <2>2, <2>3, ManagerKeepsInv
<1>. QED  BY <1>1, <1>2, <1>3, <1>4, <1>5, <1>6, <1>7, <1>8 DEF Next

(* The invariant holds in every state of every behaviour.                   *)
THEOREM InvInvariant == Spec => []Inv
<1>. QED  BY InitInv, NextInv, PTL DEF Spec

(* Whatever the sessions do and however moves, leaves, creations and        *)
(* collections fall together, no pipe reaches one of its ErrorQuits.        *)
THEOREM NoErrorQuitIsReached == Spec => []NoErrorQuit
<1>1. Inv => NoErrorQuit
  BY DEF Inv, NoErrorQuit
<1>. QED  BY <1>1, InvInvariant, PTL

(* A user is always in the pipe that his session names, or between pipes.   *)
THEOREM UsersAreInTheirPipes == Spec => []UserIsInItsPipe
<1>1. ASSUME Inv
      PROVE  UserIsInItsPipe
  <2>1. ASSUME NEW p \in Pipes, NEW i \in users[p]
        PROVE  \E s \in Slots : session[s].id = i /\ session[s].curPipe = p
    <3>1. i \in IDs /\ IsSession(i)
      BY <1>1 DEF Inv, TypeInv, UsersInv
    <3>2. PICK s \in Slots : session[s].id = i
      BY <3>1 DEF IsSession
    <3>3. UserInv(s)
      BY <1>1, <3>1, <3>2, PipeAssumption, OneSession
    <3>. QED  BY <3>2, <3>3 DEF UserInv
  <2>2. ASSUME NEW s \in Slots, session[s].curPipe # NULL
        PROVE  session[s].id \in users[session[s].curPipe] \/ session[s].isMoving
    <3>1. session[s].id # NULL
      BY <1>1, <2>2 DEF Inv, SlotInv, Free
    <3>2. UserInv(s)
      BY <1>1, <3>1, OneSession
    <3>. QED  BY <2>2, <3>2 DEF UserInv
  <2>. QED  BY <2>1, <2>2 DEF UserIsInItsPipe
<1>. QED  BY <1>1, InvInvariant, PTL

(* Every code has a pipe in its list, and the places in a list are numbers, *)
(* so that one of them is the first.                                        *)
ListInv ==
  /\ place \in [Pipes -> Nat]
  /\ \A c \in Codes : InList(c) # {}

LEMMA ListHasFirst ==
  ASSUME place \in [Pipes -> Nat], NEW c \in Codes, InList(c) # {}
  PROVE  \E p \in InList(c) : IsFirst(c, p)
<1> DEFINE T == {place[p] : p \in InList(c)}
<1>1. T \subseteq Nat /\ T # {}
  BY DEF InList
<1>2. \E n \in T : \A m \in T : ~ (<<m, n>> \in OpToRel(<, Nat))
  <2> HIDE DEF T
  <2>. QED  BY <1>1, NatLessThanWellFounded, WFMin
<1>3. PICK n \in T : \A m \in T : ~ (<<m, n>> \in OpToRel(<, Nat))
  BY <1>2
<1>4. \A m \in T : n <= m
  <2> SUFFICES ASSUME NEW m \in T
               PROVE  n <= m
    OBVIOUS
  <2>1. m \in Nat /\ n \in Nat
    BY <1>1
  <2>2. ~ (m < n)
    BY <1>3, <2>1 DEF OpToRel
  <2>. QED  BY <2>1, <2>2
<1>5. PICK p \in InList(c) : place[p] = n
  BY <1>3
<1>. QED  BY <1>4, <1>5 DEF IsFirst

(* The manager of a code with no user in its pipes keeps the first of them. *)
LEMMA OnePipeStays ==
  ASSUME ListInv, NEW c \in Codes
  PROVE  InList(c) \ Destroyed(c) # {}
<1> DEFINE old == {p \in InList(c) : Counted(c)[p] > DESTROY_ROUNDS}
<1>1. PICK p \in InList(c) : IsFirst(c, p)
  BY ListHasFirst DEF ListInv
<1>2. Destroyed(c) = IF old = InList(c) THEN {r \in old : ~IsFirst(c, r)} ELSE old
  BY DEF Destroyed
<1>3. old \subseteq InList(c)
  OBVIOUS
<1> HIDE DEF old
<1>4. CASE old = InList(c)
  BY <1>1, <1>2, <1>4
<1>5. CASE old # InList(c)
  BY <1>2, <1>3, <1>5
<1>. QED  BY <1>4, <1>5

LEMMA ListInvInit == Init => ListInv
<1> SUFFICES ASSUME Init
             PROVE  ListInv
  OBVIOUS
<1>1. place = [p \in Pipes |-> IF p = First(PipeCode[p]) THEN 1 ELSE 0]
  BY DEF Init
<1>2. ASSUME NEW c \in Codes
      PROVE  InList(c) # {}
  <2>1. First(c) \in Pipes /\ PipeCode[First(c)] = c
    BY PipeAssumption DEF First
  <2>2. place[First(c)] = 1
    BY <1>1, <2>1
  <2>. QED  BY <2>1, <2>2 DEF InList
<1>3. place \in [Pipes -> Nat]
  BY <1>1
<1>. QED  BY <1>2, <1>3 DEF ListInv

LEMMA ListInvNext == ListInv /\ [Next]_vars => ListInv'
<1> SUFFICES ASSUME ListInv, [Next]_vars
             PROVE  ListInv'
  OBVIOUS
<1>1. place \in [Pipes -> Nat]
  BY DEF ListInv
<1>2. CASE UNCHANGED place
  BY <1>2 DEF ListInv, InList
<1>3. ASSUME NEW c \in Codes, NEW p \in Pipes, AutoCreate(c, p)
      PROVE  ListInv'
  <2> DEFINE before == {q \in Pipes : PipeCode[q] = c /\ at[q] # "unused"}
  <2>1. Cardinality(before) \in Nat
    <3>1. IsFiniteSet(before)
      BY PipeAssumption, FS_Subset
    <3>. QED  BY <3>1, FS_CardinalityType
  <2>2. place' = [place EXCEPT ![p] = 1 + Cardinality(before)]
    BY <1>3, Zenon DEF AutoCreate
  <2> HIDE DEF before
  <2>3. place' \in [Pipes -> Nat]
    BY <1>1, <2>1, <2>2
  <2>4. \A q \in Pipes : place[q] # 0 => place'[q] # 0
    BY <1>1, <2>1, <2>2
  <2>. QED  BY <2>3, <2>4 DEF ListInv, InList
<1>4. ASSUME NEW c \in Codes, GarbageCollect(c), ~UNCHANGED place
      PROVE  ListInv'
  <2>1. place' = [p \in Pipes |-> IF p \in Destroyed(c) THEN 0 ELSE place[p]]
    BY <1>4 DEF GarbageCollect
  <2>2. place' \in [Pipes -> Nat]
    BY <1>1, <2>1
  <2>3. Destroyed(c) \subseteq InList(c)
    BY DEF Destroyed
  <2>4. ASSUME NEW d \in Codes
        PROVE  \E p \in Pipes : PipeCode[p] = d /\ place'[p] # 0
    <3>1. CASE d = c
      <4>1. PICK p \in InList(c) : p \notin Destroyed(c)
        BY OnePipeStays
      <4>. QED  BY <2>1, <3>1, <4>1 DEF InList
    <3>2. CASE d # c
      <4>1. PICK p \in InList(d) : TRUE
        BY DEF ListInv
      <4>. QED  BY <2>1, <2>3, <3>2, <4>1 DEF InList
    <3>. QED  BY <3>1, <3>2
  <2>. QED  BY <2>2, <2>4 DEF ListInv, InList
<1>5. ASSUME NEW s \in Slots, NEW i \in IDs, Accept(s, i)
      PROVE  UNCHANGED place
  BY <1>5 DEF Accept, managed
<1>6. ASSUME NEW s \in Slots, Disconnect(s) \/ EnqueueJob(s) \/ RequestEnter(s)
      PROVE  UNCHANGED place
  BY <1>6 DEF Disconnect, EnqueueJob, RequestEnter, managed
<1>7. ASSUME NEW s \in Slots, NEW p \in Pipes, MovePipeByID(s, p)
      PROVE  UNCHANGED place
  BY <1>7 DEF MovePipeByID, managed
<1>8. ASSUME NEW p \in Pipes, NEW q \in Pipes, NEW i \in IDs, MovePipe(q, i, p)
      PROVE  UNCHANGED place
  BY <1>8 DEF MovePipe, managed
<1>9. ASSUME NEW p \in Pipes, Worker(p)
      PROVE  UNCHANGED place
  <2>1. CASE Join(p) \/ MoveIn(p)
    BY <2>1 DEF Join, MoveIn, Enter, ErrorQuit, managed
  <2>2. CASE MoveOut(p) \/ Leave(p)
    BY <2>2 DEF MoveOut, Leave, ErrorQuit, managed
  <2>3. CASE NextPart(p)
    BY <2>3 DEF NextPart, managed
  <2>4. ASSUME NEW i \in IDs, DequeueJob(p, i)
        PROVE  UNCHANGED place
    BY <2>4 DEF DequeueJob, ErrorQuit, managed
  <2>. QED  BY <1>9, <2>1, <2>2, <2>3, <2>4 DEF Worker
<1>10. CASE UNCHANGED vars
  BY <1>10, <1>2 DEF vars, managed
<1>. QED  BY <1>2, <1>3, <1>4, <1>5, <1>6, <1>7, <1>8, <1>9, <1>10 DEF Next

(* In every state each code has a pipe that a session may be sent to.       *)
THEOREM ListInvariant == Spec => []ListInv
<1>. QED  BY ListInvInit, ListInvNext, PTL DEF Spec

(* However long a move takes, its destination is not stopped under it, so   *)
(* long as it takes fewer collections than a pipe may stay empty.           *)
THEOREM StoppedPipesAreUnused == Spec => []StoppedPipeIsUnused
<1>1. ASSUME Inv, ListInv
      PROVE  StoppedPipeIsUnused
  <2> SUFFICES ASSUME NEW p \in Pipes, NEW s \in Slots, stopFlag[p]
               PROVE  /\ session[s].destPipe # p
                      /\ session[s].curPipe = p => session[s].isMoving
    BY <1>1 DEF StoppedPipeIsUnused, ListInv
  <2>1. place[p] = 0 /\ p # NULL
    BY <1>1, PipeAssumption DEF Inv, StopInv
  <2>2. CASE session[s].id = NULL
    BY <1>1, <2>1, <2>2 DEF Inv, SlotInv, Free
  <2>3. CASE session[s].id # NULL
    <3>1. PipeInv(s)
      BY <1>1, <2>3, OneSession
    <3>. QED  BY <2>1, <3>1 DEF PipeInv
  <2>. QED  BY <2>2, <2>3
<1>. QED  BY <1>1, InvInvariant, ListInvariant, PTL

(* As many requests are queued as there are IDs among them.                 *)
LEMMA DistinctLen ==
  ASSUME NEW q \in Seq(IDs), Distinct(q)
  PROVE  Len(q) = Cardinality(Values(q))
<1> DEFINE S == 1 .. Len(q)
           f == [n \in S |-> q[n]]
<1>1. Len(q) \in Nat
  OBVIOUS
<1>2. f \in [S -> Values(q)]
  BY DEF Values
<1>3. \A m, n \in S : f[m] = f[n] => m = n
  BY DEF Distinct
<1>4. \A v \in Values(q) : \E n \in S : f[n] = v
  BY DEF Values
<1> HIDE DEF f
<1>5. f \in Bijection(S, Values(q))
  BY <1>2, <1>3, <1>4 DEF Bijection, Injection, Surjection, IsInjective
<1>6. ExistsBijection(1 .. Len(q), Values(q))
  BY <1>5 DEF ExistsBijection
<1>. QED  BY <1>1, <1>6, FS_CountingElements

Kinds == {"join", "in", "out", "leave"}

LEMMA QueueOfKind ==
  /\ DOMAIN Queue = Kinds
  /\ Queue["join"] = joinQ /\ Queue["in"] = moveInQ
  /\ Queue["out"] = moveOutQ /\ Queue["leave"] = leaveQ
BY DEF Queue, Kinds

LEMMA RequestsOf ==
  ASSUME NEW i
  PROVE  /\ \A b \in Requests(i) : \E k \in Kinds, p \in Pipes : b = <<k, p>>
         /\ \A p \in Pipes : <<"join", p>> \in Requests(i) <=> i \in Values(joinQ[p])
         /\ \A p \in Pipes : <<"in", p>> \in Requests(i) <=> i \in Values(moveInQ[p])
         /\ \A p \in Pipes : <<"out", p>> \in Requests(i) <=> i \in Values(moveOutQ[p])
         /\ \A p \in Pipes : <<"leave", p>> \in Requests(i) <=> i \in Values(leaveQ[p])
<1>1. Requests(i) = {b \in Kinds \X Pipes : i \in Values(Queue[b[1]][b[2]])}
  BY QueueOfKind DEF Requests
<1>2. \A k \in Kinds, p \in Pipes : <<k, p>> \in Requests(i) <=> i \in Values(Queue[k][p])
  BY <1>1
<1>3. \A b \in Requests(i) : \E k \in Kinds, p \in Pipes : b = <<k, p>>
  BY <1>1
<1>. QED  BY <1>2, <1>3, QueueOfKind DEF Kinds

LEMMA OneRequest ==
  ASSUME NEW i, NEW k \in Kinds, NEW p \in Pipes,
         \A l \in Kinds, q \in Pipes : <<l, q>> \in Requests(i) <=> l = k /\ q = p
  PROVE  Requests(i) = {<<k, p>>}
<1>1. \A b \in Requests(i) : \E l \in Kinds, q \in Pipes : b = <<l, q>>
  BY RequestsOf
<1>2. \A b \in Requests(i) : b = <<k, p>>
  BY <1>1
<1>3. <<k, p>> \in Requests(i)
  OBVIOUS
<1>. QED  BY <1>2, <1>3

LEMMA NoRequest ==
  ASSUME NEW i, \A l \in Kinds, q \in Pipes : <<l, q>> \notin Requests(i)
  PROVE  Requests(i) = {}
<1>1. \A b \in Requests(i) : \E l \in Kinds, q \in Pipes : b = <<l, q>>
  BY RequestsOf
<1>. QED  BY <1>1

(* The requests of a session are those it wants.                            *)
LEMMA RequestsWanted ==
  ASSUME NEW s \in Slots, RequestInv(s)
  PROVE  \A l \in Kinds, p \in Pipes :
           <<l, p>> \in Requests(session[s].id) <=>
             \/ l = "join" /\ WantsJoin(s, p)
             \/ l = "in" /\ WantsIn(s, p)
             \/ l = "out" /\ WantsOut(s, p)
             \/ l = "leave" /\ WantsLeave(s, p)
<1> DEFINE i == session[s].id
<1>1. \A p \in Pipes : /\ <<"join", p>> \in Requests(i) <=> WantsJoin(s, p)
                       /\ <<"in", p>> \in Requests(i) <=> WantsIn(s, p)
                       /\ <<"out", p>> \in Requests(i) <=> WantsOut(s, p)
                       /\ <<"leave", p>> \in Requests(i) <=> WantsLeave(s, p)
  BY RequestsOf DEF RequestInv
<1> HIDE DEF i
<1>2. \A l \in Kinds, p \in Pipes :
        <<l, p>> \in Requests(i) <=>
          \/ l = "join" /\ WantsJoin(s, p)
          \/ l = "in" /\ WantsIn(s, p)
          \/ l = "out" /\ WantsOut(s, p)
          \/ l = "leave" /\ WantsLeave(s, p)
  BY <1>1 DEF Kinds
<1>. QED  BY <1>2 DEF i

LEMMA PendingOfSession ==
  ASSUME Inv, NEW s \in Slots
  PROVE  IF session[s].isMoving /\ s \notin entering
         THEN \/ /\ Requests(session[s].id) = {<<"out", session[s].curPipe>>}
                 /\ session[s].id \in users[session[s].curPipe]
              \/ Requests(session[s].id) \in {{<<"join", session[s].destPipe>>},
                                              {<<"in", session[s].destPipe>>}}
         ELSE Requests(session[s].id) =
                IF session[s].deleted THEN {<<"leave", session[s].curPipe>>} ELSE {}
<1>1. TypeInv /\ session[s] \in Sessions
  BY DEF Inv, TypeInv
<1>2. CASE session[s].id = NULL
  <2>1. session[s] = Free
    BY <1>2 DEF Inv, SlotInv
  <2>2. session[s].isMoving = FALSE /\ session[s].deleted = FALSE
    BY <2>1 DEF Free
  <2>3. \A p \in Pipes : /\ NULL \notin Values(joinQ[p]) /\ NULL \notin Values(moveInQ[p])
                         /\ NULL \notin Values(moveOutQ[p]) /\ NULL \notin Values(leaveQ[p])
    BY <1>1, ValuesAreIDs, PipeAssumption DEF TypeInv
  <2>4. \A l \in Kinds, p \in Pipes : <<l, p>> \notin Requests(NULL)
    BY <2>3, RequestsOf DEF Kinds
  <2>. QED  BY <1>2, <2>2, <2>4, NoRequest
<1>3. CASE session[s].id # NULL
  <2>1. RecordInv(s) /\ RequestInv(s)
    BY <1>3, OneSession
  <2> DEFINE i == session[s].id
  <2>2. session[s].isMoving \in BOOLEAN /\ session[s].deleted \in BOOLEAN
        /\ session[s].curPipe \in Pipes \union {NULL}
        /\ session[s].destPipe \in Pipes \union {NULL}
    BY <1>1 DEF Sessions
  <2>3. session[s].isMoving = TRUE => session[s].deleted = FALSE /\ session[s].destPipe \in Pipes
    <3>1. session[s].isMoving = TRUE => References(s) # 0
      BY DEF References
    <3>. QED  BY <2>1, <2>2, <3>1 DEF RecordInv
  <2>4. \A l \in Kinds, p \in Pipes :
          <<l, p>> \in Requests(i) <=>
            \/ l = "join" /\ WantsJoin(s, p)
            \/ l = "in" /\ WantsIn(s, p)
            \/ l = "out" /\ WantsOut(s, p)
            \/ l = "leave" /\ WantsLeave(s, p)
    BY <2>1, RequestsWanted
  <2> HIDE DEF i
  <2>5. "join" \in Kinds /\ "in" \in Kinds /\ "out" \in Kinds /\ "leave" \in Kinds
    BY DEF Kinds
  <2>6. CASE session[s].isMoving = TRUE /\ s \notin entering /\ session[s].curPipe = NULL
    <3>1. \A p \in Pipes : /\ WantsJoin(s, p) <=> p = session[s].destPipe
                           /\ ~WantsIn(s, p) /\ ~WantsOut(s, p) /\ ~WantsLeave(s, p)
      BY <2>3, <2>6, PipeAssumption DEF WantsJoin, WantsIn, WantsOut, WantsLeave
    <3>2. \A l \in Kinds, p \in Pipes :
            <<l, p>> \in Requests(i) <=> l = "join" /\ p = session[s].destPipe
      BY <2>4, <3>1
    <3>3. Requests(i) = {<<"join", session[s].destPipe>>}
      BY <2>3, <2>5, <2>6, <3>2, OneRequest
    <3>. QED  BY <2>6, <3>3 DEF i
  <2>7. CASE /\ session[s].isMoving = TRUE /\ s \notin entering
             /\ session[s].curPipe # NULL /\ i \in users[session[s].curPipe]
    <3>1. \A p \in Pipes : /\ WantsOut(s, p) <=> p = session[s].curPipe
                           /\ ~WantsIn(s, p) /\ ~WantsJoin(s, p) /\ ~WantsLeave(s, p)
      BY <2>3, <2>7 DEF WantsJoin, WantsIn, WantsOut, WantsLeave, i
    <3>2. \A l \in Kinds, p \in Pipes :
            <<l, p>> \in Requests(i) <=> l = "out" /\ p = session[s].curPipe
      BY <2>4, <3>1
    <3>3. Requests(i) = {<<"out", session[s].curPipe>>}
      BY <2>2, <2>5, <2>7, <3>2, OneRequest
    <3>. QED  BY <2>7, <3>3 DEF i
  <2>8. CASE /\ session[s].isMoving = TRUE /\ s \notin entering
             /\ session[s].curPipe # NULL /\ i \notin users[session[s].curPipe]
    <3>1. \A p \in Pipes : /\ WantsIn(s, p) <=> p = session[s].destPipe
                           /\ ~WantsOut(s, p) /\ ~WantsJoin(s, p) /\ ~WantsLeave(s, p)
      BY <2>3, <2>8 DEF WantsJoin, WantsIn, WantsOut, WantsLeave, i
    <3>2. \A l \in Kinds, p \in Pipes :
            <<l, p>> \in Requests(i) <=> l = "in" /\ p = session[s].destPipe
      BY <2>4, <3>1
    <3>3. Requests(i) = {<<"in", session[s].destPipe>>}
      BY <2>3, <2>5, <2>8, <3>2, OneRequest
    <3>. QED  BY <2>8, <3>3 DEF i
  <2>9. CASE session[s].isMoving = TRUE /\ s \in entering
    <3>1. session[s].curPipe = NULL
      BY <2>1, <2>9 DEF RecordInv
    <3>2. \A p \in Pipes : ~WantsIn(s, p) /\ ~WantsOut(s, p) /\ ~WantsJoin(s, p) /\ ~WantsLeave(s, p)
      BY <2>3, <2>9, <3>1, PipeAssumption DEF WantsJoin, WantsIn, WantsOut, WantsLeave
    <3>3. Requests(i) = {}
      BY <2>4, <3>2, NoRequest
    <3>. QED  BY <2>3, <2>9, <3>3 DEF i
  <2>10. CASE session[s].isMoving = FALSE /\ session[s].deleted = TRUE
    <3>1. session[s].curPipe \in Pipes
      BY <2>1, <2>2, <2>10 DEF RecordInv
    <3>2. \A p \in Pipes : /\ WantsLeave(s, p) <=> p = session[s].curPipe
                           /\ ~WantsIn(s, p) /\ ~WantsOut(s, p) /\ ~WantsJoin(s, p)
      BY <2>10 DEF WantsJoin, WantsIn, WantsOut, WantsLeave
    <3>3. \A l \in Kinds, p \in Pipes :
            <<l, p>> \in Requests(i) <=> l = "leave" /\ p = session[s].curPipe
      BY <2>4, <3>2
    <3>4. Requests(i) = {<<"leave", session[s].curPipe>>}
      BY <2>5, <3>1, <3>3, OneRequest
    <3>. QED  BY <2>10, <3>4 DEF i
  <2>11. CASE session[s].isMoving = FALSE /\ session[s].deleted = FALSE
    <3>1. \A p \in Pipes : ~WantsIn(s, p) /\ ~WantsOut(s, p) /\ ~WantsJoin(s, p) /\ ~WantsLeave(s, p)
      BY <2>11 DEF WantsJoin, WantsIn, WantsOut, WantsLeave
    <3>2. Requests(i) = {}
      BY <2>4, <3>1, NoRequest
    <3>. QED  BY <2>11, <3>2 DEF i
  <2>. QED  BY <2>2, <2>6, <2>7, <2>8, <2>9, <2>10, <2>11
<1>. QED  BY <1>2, <1>3

(* A session that moves has one request under way, a deleted one its leave, *)
(* any other none; and no request is for a session that is gone.            *)
THEOREM RequestsArePending == Spec => []RequestIsPending
<1>1. ASSUME Inv
      PROVE  RequestIsPending
  <2>1. ASSUME NEW q, Queued(q), InOrder(q), NEW p \in Pipes
        PROVE  /\ Len(q[p]) = Cardinality(Values(q[p]))
               /\ \A i \in Values(q[p]) : \E s \in Slots : session[s].id = i
    <3>1. q[p] \in Seq(IDs) /\ Distinct(q[p])
      BY <2>1 DEF Queued, InOrder
    <3>. QED  BY <2>1, <3>1, DistinctLen DEF InOrder, IsSession
  <2>2. ASSUME NEW k \in DOMAIN Queue, NEW p \in Pipes
        PROVE  /\ Len(Queue[k][p]) = Cardinality(Values(Queue[k][p]))
               /\ \A i \in Values(Queue[k][p]) : \E s \in Slots : session[s].id = i
    <3>1. Queued(Queue[k]) /\ InOrder(Queue[k])
      BY <1>1, QueueOfKind DEF Kinds, Inv, TypeInv, QueueInv
    <3>. QED  BY <2>1, <3>1
  <2>. QED  BY <1>1, <2>2, PendingOfSession DEF RequestIsPending
<1>. QED  BY <1>1, InvInvariant, PTL

===============================================================================
