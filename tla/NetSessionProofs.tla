--------------------------- MODULE NetSessionProofs ---------------------------
(***************************************************************************)
(* IOcount_ counts right, for every number of threads, slots, clients and  *)
(* posted send signs, and therefore nobody touches a released session: the *)
(* two hold only together, and only together with the owner of a dead slot *)
(* and with the one send and the one receive a session has at a time.  The *)
(* types of NetSession's variables come first.  From this invariant follow *)
(* that no error is reached, and the order of a session's jobs.            *)
(***************************************************************************)
EXTENDS NetSession, FiniteSetTheorems, TLAPS

LEMMA WrapType ==
  ASSUME NEW n \in Int
  PROVE  Wrap(n) \in UShort
  BY DEF Wrap, UShort

LEMMA ClearFlagType ==
  ASSUME NEW n \in UShort
  PROVE  ClearFlag(n) \in UShort
  BY DEF ClearFlag, DELETE_FLAG_BIT, UShort

(* How many references each step of a thread stands for.                    *)
Weight(step) == IF step \in OneRef THEN 1 ELSE IF step \in TwoRefs THEN 2 ELSE 0

LEMMA StepTypes ==
  /\ {"idle", "cas", "leave", "destroy", "push", "init"} \subseteq Steps
  /\ {"dead1", "id1", "disconnect", "cancel1", "cancelIO1", "drop1", "aborted",
      "recvd", "parse", "recvPost", "recvPending", "sendPending", "fill",
      "online", "join"} \subseteq Steps
  /\ {"dead2", "id2", "enqueue", "cancel2", "cancelIO2", "drop2", "sign",
      "sendPost", "drain", "unflag", "wsaSend", "sendTest", "sendFree",
      "wsaRecv", "sendDone"} \subseteq Steps
  BY DEF Steps, ZeroRefs, OneRef, TwoRefs

LEMMA IOStates ==
  /\ {"none", "pending", "data", "closed", "aborted"} \subseteq RecvStates
  /\ {"none", "pending", "sent", "closed", "aborted"} \subseteq SendStates
  /\ {"none", "JOIN", "RECV", "LEAVE"} \subseteq Jobs
  BY DEF RecvStates, SendStates, Jobs

LEMMA AddType ==
  ASSUME TypeOK, NEW s \in Slots, NEW n \in Int, Add(s, n)
  PROVE  IOcount' \in [Slots -> UShort]
  <1>1. IOcount[s] + n \in Int
    BY DEF TypeOK, UShort
  <1>2. Wrap(IOcount[s] + n) \in UShort
    BY <1>1, WrapType
  <1> QED
    BY <1>2 DEF TypeOK, Add

LEMMA TypeAcceptor ==
  ASSUME TypeOK, NEW t \in Threads, AcceptorStep(t)
  PROVE  TypeOK'
  <1> USE StepTypes, IOStates DEF TypeOK, Goto, Idx, CountOnly,
         slotVars, ioVars, sendVars, arrayVars, logicVars
  <1>1. CASE InitializeCount(t)
    <2>1. IOcount' \in [Slots -> UShort]
      BY <1>1, AddType DEF InitializeCount
    <2> QED
      BY <1>1, <2>1 DEF InitializeCount
  <1>2. CASE InitializeFields(t)
    BY <1>2 DEF InitializeFields, MaybeIDs
  <1>3. CASE InitializeFlag(t)
    <2>1. IOcount[Idx(t)] \in UShort
      BY <1>3 DEF InitializeFlag
    <2>2. ClearFlag(IOcount[Idx(t)]) \in UShort
      BY <2>1, ClearFlagType
    <2>3. IOcount' \in [Slots -> UShort]
      BY <1>3, <2>2 DEF InitializeFlag
    <2> QED
      BY <1>3, <2>3 DEF InitializeFlag
  <1>4. CASE OnWorkerClientJoin(t)
    <2>1. known' \subseteq MaybeIDs
      BY <1>4 DEF OnWorkerClientJoin
    <2>2. lastJob' \in [Uniques -> Jobs]
      BY <1>4 DEF OnWorkerClientJoin
    <2>3. /\ pc' \in [Threads -> Steps]
          /\ \A u \in Threads : pc'[u] # "idle" => session'[u].index \in Slots
      BY <1>4 DEF OnWorkerClientJoin
    <2>4. UNCHANGED <<slotVars, ioVars, sendVars, signs, arrayVars, leaves,
                      leavePosts, session, calls, errors>>
      BY <1>4 DEF OnWorkerClientJoin
    <2> QED
      BY <2>1, <2>2, <2>3, <2>4
  <1> QED
    BY <1>1, <1>2, <1>3, <1>4 DEF AcceptorStep

LEMMA TypeReturn ==
  ASSUME TypeOK, NEW t \in Threads, Return(t)
  PROVE  /\ pc' \in [Threads -> Steps]
         /\ session' \in [Threads -> MaybeIDs]
         /\ \A u \in Threads : pc'[u] # "idle" => session'[u].index \in Slots
  <1>1. NoSession \in MaybeIDs
    BY DEF NoSession, MaybeIDs
  <1> QED
    BY <1>1, StepTypes DEF TypeOK, Return, Goto, Idx

LEMMA TypeRelease ==
  ASSUME TypeOK, NEW t \in Threads, ReleaseStep(t)
  PROVE  TypeOK'
  <1> USE StepTypes, IOStates DEF TypeOK, Goto, Idx,
         slotVars, ioVars, sendVars, arrayVars, logicVars
  <1>1. ASSUME NEW n \in {1, 2}, Drop(t, n)
        PROVE  TypeOK'
    <2>1. IOcount' \in [Slots -> UShort]
      BY <1>1, AddType DEF Drop
    <2>2. /\ pc' \in [Threads -> Steps]
          /\ session' \in [Threads -> MaybeIDs]
          /\ \A u \in Threads : pc'[u] # "idle" => session'[u].index \in Slots
      BY <1>1, TypeReturn DEF Drop
    <2> QED
      BY <1>1, <2>1, <2>2 DEF Drop
  <1>2. CASE SetDeleteFlag(t)
    <2>1. DELETE_FLAG_BIT \in UShort
      BY DEF DELETE_FLAG_BIT, UShort
    <2>2. /\ pc' \in [Threads -> Steps]
          /\ session' \in [Threads -> MaybeIDs]
          /\ \A u \in Threads : pc'[u] # "idle" => session'[u].index \in Slots
      BY <1>2, TypeReturn DEF SetDeleteFlag
    <2> QED
      BY <1>2, <2>1, <2>2 DEF SetDeleteFlag
  <1>3. CASE ReleaseSession(t)
    BY <1>3 DEF ReleaseSession, OnClientLeave
  <1>4. CASE Destroy(t)
    BY <1>4, BoundsAssumption DEF Destroy
  <1>5. CASE PushSessionIndex(t)
    BY <1>5, TypeReturn DEF PushSessionIndex
  <1> QED
    BY <1>1, <1>2, <1>3, <1>4, <1>5 DEF ReleaseStep

LEMMA TypeCancelIO ==
  ASSUME TypeOK, NEW s \in Slots, CancelIO(s)
  PROVE  recvIO' \in [Slots -> RecvStates] /\ sendIO' \in [Slots -> SendStates]
  <1>1. "aborted" \in RecvStates /\ "aborted" \in SendStates
    BY DEF RecvStates, SendStates
  <1> QED
    BY <1>1 DEF TypeOK, CancelIO

LEMMA TypeCall ==
  ASSUME TypeOK, NEW t \in Threads, CallStep(t)
  PROVE  TypeOK'
  <1> USE StepTypes, IOStates DEF TypeOK, Goto, Idx, ControlOnly,
         slotVars, ioVars, sendVars, arrayVars, logicVars
  <1>1. CASE AcquireIsDead(t)
    BY <1>1 DEF AcquireIsDead
  <1>2. CASE AcquireUnique(t)
    BY <1>2 DEF AcquireUnique
  <1>3. CASE Disconnect(t)
    BY <1>3 DEF Disconnect
  <1>4. CASE SetCanceled(t)
    BY <1>4 DEF SetCanceled
  <1>5. CASE CancelIOStep(t)
    BY <1>5, TypeCancelIO DEF CancelIOStep
  <1>6. CASE EnqueueSendQ(t)
    <2>1. sendQ' \in [Slots -> 0 .. SendQMax]
      BY <1>6, BoundsAssumption DEF EnqueueSendQ
    <2> QED
      BY <1>6, <2>1 DEF EnqueueSendQ
  <1>7. CASE AsyncSendPacket(t)
    <2>1. CASE isSending[Idx(t)]
      BY <1>7, <2>1 DEF AsyncSendPacket
    <2>2. CASE ~isSending[Idx(t)]
      BY <1>7, <2>2, TypeReturn DEF AsyncSendPacket
    <2> QED
      BY <2>1, <2>2
  <1> QED
    BY <1>1, <1>2, <1>3, <1>4, <1>5, <1>6, <1>7 DEF CallStep

LEMMA TypeSend ==
  ASSUME TypeOK, NEW t \in Threads, SendStep(t)
  PROVE  TypeOK'
  <1> USE StepTypes, IOStates DEF TypeOK, Goto, Idx, ControlOnly,
         slotVars, ioVars, sendVars, arrayVars, logicVars
  <1>1. CASE SendPost(t)
    BY <1>1 DEF SendPost
  <1>2. CASE SendPostDrain(t)
    BY <1>2, BoundsAssumption DEF SendPostDrain
  <1>3. CASE SendPostEmpty(t)
    BY <1>3 DEF SendPostEmpty
  <1>4. CASE SendPostWSASend(t)
    <2>1. CASE SendsCompleteAtOnce /\ Return(t)
                 /\ sendIO' = [sendIO EXCEPT ![Idx(t)] = "sent"]
      BY <1>4, <2>1, TypeReturn DEF SendPostWSASend
    <2>2. CASE /\ sendIO' = [sendIO EXCEPT ![Idx(t)] = "pending"]
               /\ Goto(t, "sendPending")
               /\ UNCHANGED session
      BY <1>4, <2>2 DEF SendPostWSASend
    <2>3. CASE Goto(t, "cancel2") /\ UNCHANGED <<sendIO, session>>
      BY <1>4, <2>3 DEF SendPostWSASend
    <2> QED
      BY <1>4, <2>1, <2>2, <2>3 DEF SendPostWSASend
  <1>5. CASE SendPostPending(t)
    BY <1>5 DEF SendPostPending
  <1>6. CASE OnSendComplete(t)
    <2>1. IOcount' \in [Slots -> UShort]
      BY <1>6, AddType DEF OnSendComplete
    <2> QED
      BY <1>6, <2>1 DEF OnSendComplete, CountOnly
  <1>7. CASE OnSendCompleteTest(t)
    BY <1>7 DEF OnSendCompleteTest
  <1>8. CASE SetSendFlagFalse(t)
    BY <1>8 DEF SetSendFlagFalse
  <1> QED
    BY <1>1, <1>2, <1>3, <1>4, <1>5, <1>6, <1>7, <1>8 DEF SendStep

LEMMA TypeRecv ==
  ASSUME TypeOK, NEW t \in Threads, RecvStep(t)
  PROVE  TypeOK'
  <1> USE StepTypes, IOStates DEF TypeOK, Goto, Idx, ControlOnly,
         slotVars, ioVars, sendVars, arrayVars, logicVars
  <1>1. CASE RecvPost(t)
    <2>1. IOcount' \in [Slots -> UShort]
      BY <1>1, AddType DEF RecvPost
    <2> QED
      BY <1>1, <2>1 DEF RecvPost, CountOnly
  <1>2. CASE RecvPostWSARecv(t)
    BY <1>2 DEF RecvPostWSARecv
  <1>3. CASE RecvPostPending(t)
    BY <1>3 DEF RecvPostPending
  <1>4. CASE OnRecvComplete(t)
    BY <1>4 DEF OnRecvComplete
  <1>5. CASE CompleteRecvCheck(t)
    BY <1>5 DEF CompleteRecvCheck
  <1>6. CASE OperationAborted(t)
    BY <1>6 DEF OperationAborted
  <1> QED
    BY <1>1, <1>2, <1>3, <1>4, <1>5, <1>6 DEF RecvStep

LEMMA TypeDequeue ==
  ASSUME TypeOK, NEW t \in Threads, Dequeue(t)
  PROVE  TypeOK'
  <1> USE StepTypes, IOStates DEF TypeOK, Goto, Idx,
         slotVars, ioVars, sendVars, arrayVars, logicVars
  <1>1. ASSUME NEW s \in Slots, DequeueRecv(t, s)
        PROVE  TypeOK'
    BY <1>1 DEF DequeueRecv, MaybeIDs
  <1>2. ASSUME NEW s \in Slots, DequeueSend(t, s)
        PROVE  TypeOK'
    BY <1>2 DEF DequeueSend, MaybeIDs
  <1>3. ASSUME NEW g \in Signs, SendSign(t, g)
        PROVE  TypeOK'
    <2>1. NoSession \in MaybeIDs
      BY DEF NoSession, MaybeIDs
    <2> QED
      BY <1>3, <2>1 DEF SendSign
  <1>4. ASSUME NEW u \in Uniques, ClientLeavePosted(t, u)
        PROVE  TypeOK'
    BY <1>4 DEF ClientLeavePosted, OnClientLeave
  <1> QED
    BY <1>1, <1>2, <1>3, <1>4 DEF Dequeue

LEMMA TypeOther ==
  ASSUME TypeOK,
         \/ \E s \in Slots : Accept(s) \/ KernelRecv(s) \/ KernelSend(s)
         \/ \E t \in Workers, id \in SessionIDs, n \in {1, 2} : FindSession(t, id, n)
  PROVE  TypeOK'
  <1> USE StepTypes, IOStates DEF TypeOK, Goto, Idx,
         slotVars, ioVars, sendVars, arrayVars, logicVars
  <1>1. ASSUME NEW s \in Slots, Accept(s)
        PROVE  TypeOK'
    <2>1. stamp \in Uniques /\ stamp' \in 1 .. (MaxAccepts + 1)
      BY <1>1, BoundsAssumption DEF Accept, Uniques
    <2>2. [index |-> s, unique |-> stamp] \in MaybeIDs
      BY <2>1 DEF MaybeIDs
    <2>3. /\ pc' \in [Threads -> Steps]
          /\ session' \in [Threads -> MaybeIDs]
      BY <1>1, <2>2 DEF Accept
    <2>4. \A t \in Threads : pc'[t] # "idle" => session'[t].index \in Slots
      <3> SUFFICES ASSUME NEW t \in Threads, pc'[t] # "idle"
                   PROVE  session'[t].index \in Slots
        OBVIOUS
      <3>1. CASE t = Acceptor
        BY <1>1, <3>1 DEF Accept
      <3>2. CASE t # Acceptor
        BY <1>1, <3>2 DEF Accept
      <3> QED
        BY <3>1, <3>2
    <2>5. freeIdx' \subseteq Slots
      BY <1>1 DEF Accept
    <2>6. UNCHANGED <<slotVars, ioVars, sendVars, signs, logicVars, calls, errors>>
      BY <1>1 DEF Accept
    <2> QED
      BY <2>1, <2>3, <2>4, <2>5, <2>6
  <1>2. ASSUME NEW s \in Slots, KernelRecv(s)
        PROVE  TypeOK'
    BY <1>2 DEF KernelRecv
  <1>3. ASSUME NEW s \in Slots, KernelSend(s)
        PROVE  TypeOK'
    BY <1>3 DEF KernelSend
  <1>4. ASSUME NEW t \in Workers, NEW id \in SessionIDs, NEW n \in {1, 2},
               FindSession(t, id, n)
        PROVE  TypeOK'
    <2>1. id \in MaybeIDs /\ id.index \in Slots /\ n \in Int
      BY DEF SessionIDs, MaybeIDs
    <2>2. IOcount' \in [Slots -> UShort]
      BY <1>4, <2>1, AddType DEF FindSession
    <2>3. calls' \in 0 .. MaxCalls
      BY <1>4, BoundsAssumption DEF FindSession
    <2>4. t \in Threads
      BY DEF Threads
    <2>5. /\ pc' \in [Threads -> Steps]
          /\ session' \in [Threads -> MaybeIDs]
          /\ \A u \in Threads : pc'[u] # "idle" => session'[u].index \in Slots
      BY <1>4, <2>1, <2>4 DEF FindSession
    <2> QED
      BY <1>4, <2>2, <2>3, <2>5 DEF FindSession
  <1> QED
    BY <1>1, <1>2, <1>3, <1>4

LEMMA TypeStep ==
  ASSUME TypeOK, [Next]_vars
  PROVE  TypeOK'
  <1>1. CASE UNCHANGED vars
    BY <1>1 DEF TypeOK, vars, Idx, slotVars, ioVars, sendVars, arrayVars, logicVars
  <1>2. CASE \E t \in Threads : Continue(t)
    BY <1>2, TypeAcceptor, TypeRelease, TypeCall, TypeSend, TypeRecv DEF Continue
  <1>3. CASE \E t \in Workers : Dequeue(t)
    BY <1>3, TypeDequeue DEF Threads
  <1>4. CASE \/ \E s \in Slots : Accept(s) \/ KernelRecv(s) \/ KernelSend(s)
             \/ \E t \in Workers, id \in SessionIDs, n \in {1, 2} : FindSession(t, id, n)
    BY <1>4, TypeOther
  <1> QED
    BY <1>1, <1>2, <1>3, <1>4 DEF Next

LEMMA TypeInit == Init => TypeOK
  <1> SUFFICES ASSUME Init PROVE TypeOK
    OBVIOUS
  <1>1. NoSession \in MaybeIDs /\ DELETE_FLAG_BIT \in UShort
    BY DEF NoSession, MaybeIDs, DELETE_FLAG_BIT, UShort
  <1>2. stamp \in 1 .. (MaxAccepts + 1) /\ calls \in 0 .. MaxCalls
    BY BoundsAssumption DEF Init
  <1>3. sendQ \in [Slots -> 0 .. SendQMax]
    BY BoundsAssumption DEF Init
  <1> QED
    BY <1>1, <1>2, <1>3, StepTypes, IOStates DEF Init, TypeOK, Idx

(* Every variable keeps its type: in particular IOcount_ stays 16 bits wide *)
(* and a thread inside a procedure always has a slot to work on.            *)
THEOREM TypeCorrect == Spec => []TypeOK
  <1>1. TypeOK /\ [Next]_vars => TypeOK'
    BY TypeStep
  <1> QED
    BY TypeInit, <1>1, PTL DEF Spec

-------------------------------------------------------------------------------
(***************************************************************************)
(* The steps of a thread: what each counts for, and the parts it is in.    *)
(***************************************************************************)
Facts(step, weight, alive, bound, owner, flag, recv) ==
  /\ Weight(step) = weight
  /\ (step \in AliveSteps) <=> alive
  /\ (step \in BoundSteps) <=> bound
  /\ (step \in OwnerSteps) <=> owner
  /\ (step \in FlagSteps)  <=> flag
  /\ (step \in RecvSteps)  <=> recv

LEMMA StepSets ==
  /\ "idle" \notin AliveSteps /\ "idle" \notin FlagSteps /\ "idle" \notin RecvSteps
  /\ "idle" \notin OneRef /\ "idle" \notin TwoRefs
  /\ OneRef \intersect TwoRefs = {}
  /\ AliveSteps \subseteq OneRef \union TwoRefs
  /\ BoundSteps \subseteq AliveSteps
  /\ FlagSteps \subseteq AliveSteps
  /\ RecvSteps \subseteq AliveSteps
  /\ "idle" \notin OwnerSteps
  BY DEF OneRef, TwoRefs, AliveSteps, BoundSteps, FlagSteps, RecvSteps, OwnerSteps

LEMMA ZeroFacts ==
  /\ Facts("idle",        0, FALSE, FALSE, FALSE, FALSE, FALSE)
  /\ Facts("cas",         0, FALSE, FALSE, FALSE, FALSE, FALSE)
  /\ Facts("leave",       0, FALSE, FALSE, TRUE,  FALSE, FALSE)
  /\ Facts("destroy",     0, FALSE, FALSE, TRUE,  FALSE, FALSE)
  /\ Facts("push",        0, FALSE, FALSE, TRUE,  FALSE, FALSE)
  /\ Facts("init",        0, FALSE, FALSE, TRUE,  FALSE, FALSE)
  BY DEF Facts, Weight, OneRef, TwoRefs, AliveSteps, BoundSteps, OwnerSteps,
         FlagSteps, RecvSteps

LEMMA OneFacts ==
  /\ Facts("fill",        1, FALSE, FALSE, TRUE,  FALSE, FALSE)
  /\ Facts("online",      1, FALSE, FALSE, TRUE,  FALSE, FALSE)
  /\ Facts("join",        1, TRUE,  TRUE,  FALSE, FALSE, TRUE)
  /\ Facts("dead1",       1, FALSE, FALSE, FALSE, FALSE, FALSE)
  /\ Facts("id1",         1, TRUE,  FALSE, FALSE, FALSE, FALSE)
  /\ Facts("disconnect",  1, TRUE,  TRUE,  FALSE, FALSE, FALSE)
  /\ Facts("cancel1",     1, TRUE,  TRUE,  FALSE, FALSE, FALSE)
  /\ Facts("cancelIO1",   1, TRUE,  TRUE,  FALSE, FALSE, FALSE)
  /\ Facts("drop1",       1, FALSE, FALSE, FALSE, FALSE, FALSE)
  /\ Facts("aborted",     1, TRUE,  TRUE,  FALSE, FALSE, FALSE)
  /\ Facts("recvd",       1, TRUE,  TRUE,  FALSE, FALSE, TRUE)
  /\ Facts("parse",       1, TRUE,  TRUE,  FALSE, FALSE, TRUE)
  /\ Facts("recvPost",    1, TRUE,  TRUE,  FALSE, FALSE, TRUE)
  /\ Facts("recvPending", 1, TRUE,  TRUE,  FALSE, FALSE, FALSE)
  /\ Facts("sendPending", 1, TRUE,  TRUE,  FALSE, FALSE, FALSE)
  BY DEF Facts, Weight, OneRef, TwoRefs, AliveSteps, BoundSteps, OwnerSteps,
         FlagSteps, RecvSteps

LEMMA TwoFacts ==
  /\ Facts("dead2",       2, FALSE, FALSE, FALSE, FALSE, FALSE)
  /\ Facts("id2",         2, TRUE,  FALSE, FALSE, FALSE, FALSE)
  /\ Facts("enqueue",     2, TRUE,  TRUE,  FALSE, FALSE, FALSE)
  /\ Facts("sign",        2, TRUE,  TRUE,  FALSE, FALSE, FALSE)
  /\ Facts("cancel2",     2, TRUE,  TRUE,  FALSE, FALSE, FALSE)
  /\ Facts("cancelIO2",   2, TRUE,  TRUE,  FALSE, FALSE, FALSE)
  /\ Facts("drop2",       2, FALSE, FALSE, FALSE, FALSE, FALSE)
  /\ Facts("sendPost",    2, TRUE,  TRUE,  FALSE, FALSE, FALSE)
  /\ Facts("drain",       2, TRUE,  TRUE,  FALSE, TRUE,  FALSE)
  /\ Facts("unflag",      2, TRUE,  TRUE,  FALSE, TRUE,  FALSE)
  /\ Facts("wsaSend",     2, TRUE,  TRUE,  FALSE, TRUE,  FALSE)
  /\ Facts("sendTest",    2, TRUE,  TRUE,  FALSE, TRUE,  FALSE)
  /\ Facts("sendFree",    2, TRUE,  TRUE,  FALSE, TRUE,  FALSE)
  /\ Facts("wsaRecv",     2, TRUE,  TRUE,  FALSE, FALSE, TRUE)
  /\ Facts("sendDone", IF isSendIOPending THEN 1 ELSE 2,
                             TRUE,  TRUE,  FALSE, TRUE,  FALSE)
  BY DEF Facts, Weight, OneRef, TwoRefs, AliveSteps, BoundSteps, OwnerSteps,
         FlagSteps, RecvSteps

-------------------------------------------------------------------------------
(* Arithmetic of the 16-bit count.                                          *)

LEMMA ClearFlagLow ==
  ASSUME NEW k \in Int, 0 <= k, k < DELETE_FLAG_BIT
  PROVE  ClearFlag(k) = k /\ Wrap(k) = k
  BY DEF ClearFlag, Wrap, DELETE_FLAG_BIT

LEMMA ClearFlagHigh ==
  ASSUME NEW k \in Int, DELETE_FLAG_BIT <= k, k < 65536
  PROVE  ClearFlag(k) = k - DELETE_FLAG_BIT /\ Wrap(k) = k
  BY DEF ClearFlag, Wrap, DELETE_FLAG_BIT

LEMMA CountArithmetic ==
  ASSUME NEW c \in UShort, NEW d \in Int,
         0 <= ClearFlag(c) + d, ClearFlag(c) + d < DELETE_FLAG_BIT
  PROVE  /\ ClearFlag(Wrap(c + d)) = ClearFlag(c) + d
         /\ (Wrap(c + d) >= DELETE_FLAG_BIT) <=> (c >= DELETE_FLAG_BIT)
  <1>1. c \in Int /\ 0 <= c /\ c < 65536 /\ DELETE_FLAG_BIT \in Int
    BY DEF UShort, DELETE_FLAG_BIT
  <1>2. c + d \in Int
    BY <1>1
  <1>3. CASE c < DELETE_FLAG_BIT
    <2>1. ClearFlag(c) = c
      BY <1>1, <1>3, ClearFlagLow
    <2>2. 0 <= c + d /\ c + d < DELETE_FLAG_BIT
      BY <2>1
    <2>3. ClearFlag(c + d) = c + d /\ Wrap(c + d) = c + d
      BY <1>2, <2>2, ClearFlagLow
    <2>4. ~(c + d >= DELETE_FLAG_BIT) /\ ~(c >= DELETE_FLAG_BIT)
      BY <1>1, <1>2, <1>3, <2>2
    <2> QED
      BY <2>1, <2>3, <2>4
  <1>4. CASE c >= DELETE_FLAG_BIT
    <2>1. ClearFlag(c) = c - DELETE_FLAG_BIT
      BY <1>1, <1>4, ClearFlagHigh
    <2>2. DELETE_FLAG_BIT <= c + d /\ c + d < 65536
      BY <1>1, <2>1 DEF DELETE_FLAG_BIT
    <2>3. ClearFlag(c + d) = (c + d) - DELETE_FLAG_BIT /\ Wrap(c + d) = c + d
      BY <1>2, <2>2, ClearFlagHigh
    <2>4. (c - DELETE_FLAG_BIT) + d = (c + d) - DELETE_FLAG_BIT
      BY <1>1
    <2>5. c + d >= DELETE_FLAG_BIT
      BY <1>1, <1>2, <2>2
    <2> QED
      BY <1>4, <2>1, <2>3, <2>4, <2>5
  <1> QED
    BY <1>1, <1>3, <1>4

LEMMA WrapIdentity ==
  ASSUME NEW c \in UShort
  PROVE  Wrap(c + 0) = c
  BY DEF Wrap, UShort

-------------------------------------------------------------------------------
(* Counting the threads on a slot.                                          *)

At(S, s) == {t \in Threads : pc[t] \in S /\ Idx(t) = s}

LEMMA ThreadsFinite == IsFiniteSet(Threads)
  <1>1. IsFiniteSet(Workers \union {Acceptor})
    BY ThreadsAssumption, FS_AddElement
  <1> QED
    BY <1>1 DEF Threads

LEMMA AtFinite ==
  \A S, s : IsFiniteSet(At(S, s)) /\ Cardinality(At(S, s)) \in Nat
  <1> SUFFICES ASSUME NEW S, NEW s
               PROVE  IsFiniteSet(At(S, s)) /\ Cardinality(At(S, s)) \in Nat
    OBVIOUS
  <1>1. At(S, s) \in SUBSET Threads
    BY DEF At
  <1>2. IsFiniteSet(At(S, s))
    BY <1>1, ThreadsFinite, FS_Subset
  <1> QED
    BY <1>2, FS_CardinalityType

(* Two sets that agree but for one element.                                 *)
LEMMA CardStep ==
  ASSUME NEW A, NEW B, NEW t, IsFiniteSet(A), IsFiniteSet(B),
         A \ {t} = B \ {t}
  PROVE  Cardinality(B) - (IF t \in B THEN 1 ELSE 0)
           = Cardinality(A) - (IF t \in A THEN 1 ELSE 0)
  <1>1. Cardinality(A \ {t}) = IF t \in A THEN Cardinality(A) - 1 ELSE Cardinality(A)
    BY FS_RemoveElement
  <1>2. Cardinality(B \ {t}) = IF t \in B THEN Cardinality(B) - 1 ELSE Cardinality(B)
    BY FS_RemoveElement
  <1>3. Cardinality(A) \in Nat /\ Cardinality(B) \in Nat
    BY FS_CardinalityType
  <1> QED
    BY <1>1, <1>2, <1>3

LEMMA ReferencesBound ==
  \A s : References(s) \in Nat /\ References(s) < DELETE_FLAG_BIT
  <1> SUFFICES ASSUME NEW s
               PROVE  References(s) \in Nat /\ References(s) < DELETE_FLAG_BIT
    OBVIOUS
  <1> DEFINE One == At(OneRef, s)
             Two == At(TwoRefs, s)
             G   == SignHolders(s)
  <1>1. IsFiniteSet(One) /\ IsFiniteSet(Two)
    BY AtFinite
  <1>2. One \intersect Two = {}
    BY StepSets DEF At
  <1>3. One \union Two \in SUBSET Threads /\ Two \in SUBSET Threads
    BY DEF At
  <1>4. Cardinality(One \union Two) = Cardinality(One) + Cardinality(Two) - 0
    BY <1>1, <1>2, FS_Union, FS_EmptySet
  <1>5. /\ Cardinality(One \union Two) <= Cardinality(Threads)
        /\ Cardinality(Two) <= Cardinality(Threads)
    BY <1>3, ThreadsFinite, FS_Subset
  <1>6. /\ Cardinality(One) \in Nat /\ Cardinality(Two) \in Nat
        /\ Cardinality(Threads) \in Nat
    BY <1>1, ThreadsFinite, FS_CardinalityType
  <1>7. G \in SUBSET Signs
    BY DEF SignHolders
  <1>8. IsFiniteSet(G) /\ Cardinality(G) <= Cardinality(Signs)
    BY <1>7, ThreadsAssumption, FS_Subset
  <1>9. Cardinality(G) \in Nat /\ Cardinality(Signs) \in Nat
    BY <1>8, ThreadsAssumption, FS_CardinalityType
  <1>10. /\ RecvRefs(s) \in {0, 1}
         /\ SendRefs(s) \in {0, 1, 2}
    BY DEF RecvRefs, SendRefs
  <1>11. OneHolders(s) = One /\ TwoHolders(s) = Two
    BY DEF OneHolders, TwoHolders, At
  <1>12. References(s) = Cardinality(One) + 2 * Cardinality(Two)
                           + 2 * Cardinality(G) + RecvRefs(s) + SendRefs(s)
    BY <1>6, <1>9, <1>10, <1>11 DEF References, ThreadRefs, SignRefs
  <1>13. 2 * Cardinality(Threads) + 2 * Cardinality(Signs) + 3 < DELETE_FLAG_BIT
    BY ThreadsAssumption
  <1>14. DELETE_FLAG_BIT \in Nat
    BY DEF DELETE_FLAG_BIT
  <1> HIDE DEF One, Two, G
  <1> QED
    BY <1>4, <1>5, <1>6, <1>8, <1>9, <1>10, <1>12, <1>13, <1>14

-------------------------------------------------------------------------------
(* A step in which thread t, working on slot x, goes from a to b.           *)

Moved(t, x, a, b) ==
  /\ pc[t] = a /\ pc'[t] = b
  /\ a = "idle" \/ Idx(t) = x
  /\ b = "idle" \/ session'[t].index = x
  /\ \A u \in Threads \ {t} : pc'[u] = pc[u] /\ session'[u] = session[u]

LEMMA AtStep ==
  ASSUME NEW t \in Threads, NEW x, NEW a, NEW b, Moved(t, x, a, b),
         NEW S, "idle" \notin S, NEW s
  PROVE  /\ s # x => At(S, s)' = At(S, s)
         /\ At(S, x)' \ {t} = At(S, x) \ {t}
         /\ t \in At(S, x) <=> a \in S
         /\ t \in At(S, x)' <=> b \in S
  <1>1. s # x => At(S, s)' = At(S, s)
    BY DEF Moved, At, Idx
  <1>2. At(S, x)' \ {t} = At(S, x) \ {t}
    BY DEF Moved, At, Idx
  <1>3. t \in At(S, x) <=> a \in S
    BY DEF Moved, At, Idx
  <1>4. t \in At(S, x)' <=> b \in S
    BY DEF Moved, At, Idx
  <1> QED
    BY <1>1, <1>2, <1>3, <1>4

LEMMA AtFiniteNext ==
  (\A S, s : IsFiniteSet(At(S, s)) /\ Cardinality(At(S, s)) \in Nat)'
  BY AtFinite, PTL

LEMMA ThreadRefsStep ==
  ASSUME NEW t \in Threads, NEW x, NEW a, NEW b, Moved(t, x, a, b), NEW s
  PROVE  /\ s # x => ThreadRefs(s)' = ThreadRefs(s)
         /\ ThreadRefs(x)' - Weight(b) = ThreadRefs(x) - Weight(a)
         /\ ThreadRefs(s) \in Nat /\ ThreadRefs(s)' \in Nat
         /\ Weight(a) \in Nat /\ Weight(b) \in Nat
  <1>1. /\ "idle" \notin OneRef /\ "idle" \notin TwoRefs
        /\ OneRef \intersect TwoRefs = {}
    BY StepSets
  <1>2. \A y : ThreadRefs(y) = Cardinality(At(OneRef, y)) + 2 * Cardinality(At(TwoRefs, y))
    BY DEF ThreadRefs, OneHolders, TwoHolders, At
  <1>3. \A y : ThreadRefs(y)' = Cardinality(At(OneRef, y)') + 2 * Cardinality(At(TwoRefs, y)')
    BY DEF ThreadRefs, OneHolders, TwoHolders, At
  <1>4. \A y : /\ Cardinality(At(OneRef, y)) \in Nat /\ Cardinality(At(TwoRefs, y)) \in Nat
               /\ Cardinality(At(OneRef, y)') \in Nat /\ Cardinality(At(TwoRefs, y)') \in Nat
    BY AtFinite, AtFiniteNext
  <1>5. s # x => ThreadRefs(s)' = ThreadRefs(s)
    <2>1. s # x => At(OneRef, s)' = At(OneRef, s) /\ At(TwoRefs, s)' = At(TwoRefs, s)
      BY <1>1, AtStep
    <2> QED
      BY <2>1, <1>2, <1>3
  <1>6. \A S : "idle" \notin S =>
          Cardinality(At(S, x)') - (IF b \in S THEN 1 ELSE 0)
            = Cardinality(At(S, x)) - (IF a \in S THEN 1 ELSE 0)
    <2> SUFFICES ASSUME NEW S, "idle" \notin S
                 PROVE  Cardinality(At(S, x)') - (IF b \in S THEN 1 ELSE 0)
                          = Cardinality(At(S, x)) - (IF a \in S THEN 1 ELSE 0)
      OBVIOUS
    <2>1. /\ At(S, x)' \ {t} = At(S, x) \ {t}
          /\ t \in At(S, x) <=> a \in S
          /\ t \in At(S, x)' <=> b \in S
      BY AtStep
    <2>2. IsFiniteSet(At(S, x)) /\ IsFiniteSet(At(S, x)')
      BY AtFinite, AtFiniteNext
    <2>3. Cardinality(At(S, x)') - (IF t \in At(S, x)' THEN 1 ELSE 0)
            = Cardinality(At(S, x)) - (IF t \in At(S, x) THEN 1 ELSE 0)
      BY <2>1, <2>2, CardStep
    <2> QED
      BY <2>1, <2>3
  <1>7. Cardinality(At(OneRef, x)') - (IF b \in OneRef THEN 1 ELSE 0)
          = Cardinality(At(OneRef, x)) - (IF a \in OneRef THEN 1 ELSE 0)
    BY <1>1, <1>6
  <1>8. Cardinality(At(TwoRefs, x)') - (IF b \in TwoRefs THEN 1 ELSE 0)
          = Cardinality(At(TwoRefs, x)) - (IF a \in TwoRefs THEN 1 ELSE 0)
    BY <1>1, <1>6
  <1>9. /\ Weight(a) = (IF a \in OneRef THEN 1 ELSE 0) + 2 * (IF a \in TwoRefs THEN 1 ELSE 0)
        /\ Weight(b) = (IF b \in OneRef THEN 1 ELSE 0) + 2 * (IF b \in TwoRefs THEN 1 ELSE 0)
    BY <1>1 DEF Weight
  <1>10. ThreadRefs(x)' - Weight(b) = ThreadRefs(x) - Weight(a)
    BY <1>2, <1>3, <1>4, <1>7, <1>8, <1>9
  <1>11. Weight(a) \in Nat /\ Weight(b) \in Nat
    BY DEF Weight
  <1> QED
    BY <1>2, <1>3, <1>4, <1>5, <1>10, <1>11

(* References that no thread holds.                                         *)
Other(s) == SignRefs(s) + RecvRefs(s) + SendRefs(s)

LEMMA OtherType ==
  \A s : Other(s) \in Nat /\ References(s) = ThreadRefs(s) + Other(s)
  <1> SUFFICES ASSUME NEW s
               PROVE  Other(s) \in Nat /\ References(s) = ThreadRefs(s) + Other(s)
    OBVIOUS
  <1>1. SignHolders(s) \in SUBSET Signs
    BY DEF SignHolders
  <1>2. Cardinality(SignHolders(s)) \in Nat
    BY <1>1, ThreadsAssumption, FS_Subset, FS_CardinalityType
  <1>3. RecvRefs(s) \in Nat /\ SendRefs(s) \in Nat
    BY DEF RecvRefs, SendRefs
  <1>4. SignRefs(s) \in Nat
    BY <1>2 DEF SignRefs
  <1>5. ThreadRefs(s) \in Nat
    <2>1. /\ Cardinality(At(OneRef, s)) \in Nat
          /\ Cardinality(At(TwoRefs, s)) \in Nat
      BY AtFinite
    <2> QED
      BY <2>1 DEF ThreadRefs, OneHolders, TwoHolders, At
  <1> QED
    BY <1>3, <1>4, <1>5 DEF Other, References

LEMMA CountTypesNext ==
  /\ \A s : Other(s)' \in Nat /\ References(s)' = ThreadRefs(s)' + Other(s)'
  /\ \A s : References(s)' \in Nat /\ References(s)' < DELETE_FLAG_BIT
  <1>1. (\A s : Other(s) \in Nat /\ References(s) = ThreadRefs(s) + Other(s))'
    BY OtherType, PTL
  <1>2. (\A s : References(s) \in Nat /\ References(s) < DELETE_FLAG_BIT)'
    BY ReferencesBound, PTL
  <1> QED
    BY <1>1, <1>2

LEMMA Balance ==
  ASSUME NEW r \in Int, NEW r1 \in Int, NEW u \in Int, NEW u1 \in Int,
         NEW o \in Int, NEW o1 \in Int, NEW d \in Int,
         r1 - u1 = r - u, u1 + o1 = u + o + d
  PROVE  r1 + o1 = (r + o) + d
  OBVIOUS

LEMMA ReferencesStep ==
  ASSUME NEW t \in Threads, NEW x, NEW a, NEW b, Moved(t, x, a, b), NEW d \in Int,
         Weight(b) + Other(x)' = Weight(a) + Other(x) + d
  PROVE  References(x)' = References(x) + d
  <1> DEFINE r  == ThreadRefs(x)
             r1 == ThreadRefs(x)'
             u  == Weight(a)
             u1 == Weight(b)
             o  == Other(x)
             o1 == Other(x)'
  <1>1. r1 - u1 = r - u
    BY ThreadRefsStep
  <1>2. r \in Int /\ r1 \in Int /\ u \in Int /\ u1 \in Int
    BY ThreadRefsStep
  <1>3. o \in Int /\ References(x) = r + o
    BY OtherType
  <1>4. o1 \in Int /\ References(x)' = r1 + o1
    BY CountTypesNext
  <1>5. u1 + o1 = u + o + d
    OBVIOUS
  <1> HIDE DEF r, r1, u, u1, o, o1
  <1>6. r1 + o1 = (r + o) + d
    BY <1>1, <1>2, <1>3, <1>4, <1>5
  <1> QED
    BY <1>3, <1>4, <1>6

LEMMA CountStep ==
  ASSUME TypeOK, CountMatchesReferences,
         NEW t \in Threads, NEW x \in Slots, NEW a, NEW b, Moved(t, x, a, b),
         NEW d \in Int, Add(x, d),
         \A s \in Slots \ {x} : Other(s)' = Other(s),
         Weight(b) + Other(x)' = Weight(a) + Other(x) + d
  PROVE  /\ CountMatchesReferences'
         /\ \A s \in Slots : isDead(s)' <=> isDead(s)
  <1>1. IOcount \in [Slots -> UShort]
    BY DEF TypeOK
  <1>2. /\ IOcount'[x] = Wrap(IOcount[x] + d)
        /\ \A s \in Slots \ {x} : IOcount'[s] = IOcount[s]
    BY <1>1 DEF Add
  <1>3. References(x)' = References(x) + d
    BY ReferencesStep
  <1>4. References(x)' \in Nat /\ References(x)' < DELETE_FLAG_BIT
    BY CountTypesNext
  <1>5. ClearFlag(IOcount[x]) = References(x)
    BY DEF CountMatchesReferences
  <1>6. IOcount[x] \in UShort
    BY <1>1
  <1>7. 0 <= ClearFlag(IOcount[x]) + d /\ ClearFlag(IOcount[x]) + d < DELETE_FLAG_BIT
    BY <1>3, <1>4, <1>5
  <1>8. /\ ClearFlag(Wrap(IOcount[x] + d)) = ClearFlag(IOcount[x]) + d
        /\ (Wrap(IOcount[x] + d) >= DELETE_FLAG_BIT) <=> (IOcount[x] >= DELETE_FLAG_BIT)
    BY <1>6, <1>7, CountArithmetic
  <1>9. \A s \in Slots \ {x} : References(s)' = References(s)
    <2> SUFFICES ASSUME NEW s \in Slots \ {x}
                 PROVE  References(s)' = References(s)
      OBVIOUS
    <2>1. ThreadRefs(s)' = ThreadRefs(s)
      BY ThreadRefsStep
    <2> QED
      BY <2>1, OtherType, CountTypesNext
  <1>10. \A s \in Slots : ClearFlag(IOcount'[s]) = References(s)'
    BY <1>2, <1>3, <1>5, <1>8, <1>9 DEF CountMatchesReferences
  <1>11. CountMatchesReferences'
    BY <1>10 DEF CountMatchesReferences, ClearFlag
  <1>12. \A s \in Slots : isDead(s)' <=> isDead(s)
    BY <1>2, <1>8 DEF isDead
  <1> QED
    BY <1>11, <1>12

LEMMA SameCount ==
  ASSUME TypeOK, UNCHANGED IOcount, NEW x \in Slots
  PROVE  Add(x, 0)
  <1>1. IOcount[x] \in UShort
    BY DEF TypeOK
  <1>2. Wrap(IOcount[x] + 0) = IOcount[x]
    BY <1>1, WrapIdentity
  <1> QED
    BY <1>2 DEF Add, TypeOK

-------------------------------------------------------------------------------
(***************************************************************************)
(* The inductive invariant.  CountMatchesReferences needs the one send and *)
(* the one receive (else the posting of an operation would overwrite one   *)
(* that is counted); these need ReferencedIsAlive when a slot gets a new   *)
(* client; and that needs the count, because SetDeleteFlag looks at        *)
(* nothing else.                                                           *)
(***************************************************************************)
OnlineIsBound ==
  \A t \in Threads : pc[t] = "online" => unique[Idx(t)] = session[t].unique

Inv ==
  /\ TypeOK
  /\ CountMatchesReferences
  /\ ReferencedIsAlive
  /\ OnlineIsBound
  /\ DeadSlotHasOneOwner
  /\ OneSendAtATime
  /\ OneRecvAtATime

LEMMA AliveStep ==
  ASSUME TypeOK, ReferencedIsAlive, OnlineIsBound,
         NEW t \in Threads, NEW x \in Slots, NEW a, NEW b, Moved(t, x, a, b),
         \A s \in Slots : isDead(s)' => isDead(s),
         UNCHANGED unique,
         b \in AliveSteps => ~isDead(x)',
         b \in BoundSteps \union {"online"} => unique[x] = session'[t].unique,
         \A g \in Signs : \/ signs'[g] \in {signs[g], NoSession}
                          \/ signs'[g] = session[t] /\ a \in BoundSteps,
         \A s \in Slots : recvIO'[s] # "none" \/ sendIO'[s] # "none" =>
                            (recvIO[s] # "none" \/ sendIO[s] # "none"
                              \/ (s = x /\ ~isDead(x)'))
  PROVE  ReferencedIsAlive' /\ OnlineIsBound'
  <1>0. "idle" \notin AliveSteps /\ BoundSteps \subseteq AliveSteps
    BY StepSets
  <1> DEFINE DeadNow(s) == IOcount[s] >= DELETE_FLAG_BIT
             DeadNext(s) == IOcount'[s] >= DELETE_FLAG_BIT
  <1>a. \A s \in Slots : DeadNext(s) => DeadNow(s)
    BY DEF isDead
  <1>b. b \in AliveSteps => ~DeadNext(x)
    BY DEF isDead
  <1>c. /\ \A u \in Threads : pc[u] \in AliveSteps => ~DeadNow(session[u].index)
        /\ \A g \in Signs : signs[g] # NoSession => ~DeadNow(signs[g].index)
        /\ \A s \in Slots : (recvIO[s] # "none" \/ sendIO[s] # "none") => ~DeadNow(s)
    BY DEF ReferencedIsAlive, isDead, Idx
  <1>d. /\ \A u \in Threads : pc[u] # "idle" => session[u].index \in Slots
        /\ \A g \in Signs : signs[g] # NoSession => signs[g].index \in Slots
    BY DEF TypeOK, Idx
  <1>e. \A s \in Slots : recvIO'[s] # "none" \/ sendIO'[s] # "none" =>
          (recvIO[s] # "none" \/ sendIO[s] # "none" \/ (s = x /\ ~DeadNext(x)))
    BY DEF isDead
  <1>f. "idle" \notin BoundSteps \union {"online"}
    BY <1>0
  <1> HIDE DEF DeadNow, DeadNext
  <1>1. ASSUME NEW u \in Threads, pc'[u] \in AliveSteps
        PROVE  ~DeadNext(session'[u].index)
    <2>1. CASE u = t
      <3>1. b \in AliveSteps /\ session'[u].index = x
        BY <1>0, <1>1, <2>1 DEF Moved
      <3> QED
        BY <1>a, <1>b, <3>1
    <2>2. CASE u # t
      <3>1. pc[u] \in AliveSteps /\ session'[u] = session[u]
        BY <1>1, <2>2 DEF Moved
      <3>2. ~DeadNow(session[u].index) /\ session[u].index \in Slots
        BY <1>0, <1>c, <1>d, <3>1
      <3> QED
        BY <1>a, <3>1, <3>2
    <2> QED
      BY <2>1, <2>2
  <1>2. ASSUME NEW u \in Threads, pc'[u] \in BoundSteps \union {"online"}
        PROVE  unique'[session'[u].index] = session'[u].unique
    <2>1. CASE u = t
      <3>1. b \in BoundSteps \union {"online"} /\ session'[u].index = x
        BY <1>f, <1>2, <2>1 DEF Moved
      <3> QED
        BY <2>1, <3>1
    <2>2. CASE u # t
      <3>1. pc[u] \in BoundSteps \union {"online"} /\ session'[u] = session[u]
        BY <1>2, <2>2 DEF Moved
      <3> QED
        BY <3>1 DEF ReferencedIsAlive, OnlineIsBound, Idx
    <2> QED
      BY <2>1, <2>2
  <1>4. ASSUME NEW g \in Signs, signs'[g] # NoSession
        PROVE  /\ ~DeadNext(signs'[g].index)
               /\ unique'[signs'[g].index] = signs'[g].unique
    <2>1. CASE signs'[g] = signs[g]
      <3>1. ~DeadNow(signs[g].index) /\ signs[g].index \in Slots
        BY <1>4, <1>c, <1>d, <2>1
      <3>2. unique[signs[g].index] = signs[g].unique
        BY <1>4, <2>1 DEF ReferencedIsAlive
      <3> QED
        BY <1>a, <2>1, <3>1, <3>2
    <2>2. CASE signs'[g] = session[t] /\ a \in BoundSteps
      <3>1. pc[t] \in BoundSteps /\ pc[t] \in AliveSteps /\ pc[t] # "idle"
        BY <1>0, <2>2 DEF Moved
      <3>2. ~DeadNow(session[t].index) /\ session[t].index \in Slots
        BY <1>c, <1>d, <3>1
      <3>3. unique[session[t].index] = session[t].unique
        BY <3>1 DEF ReferencedIsAlive, Idx
      <3> QED
        BY <1>a, <2>2, <3>2, <3>3
    <2> QED
      BY <1>4, <2>1, <2>2
  <1>5. ASSUME NEW s \in Slots, recvIO'[s] # "none" \/ sendIO'[s] # "none"
        PROVE  ~DeadNext(s)
    BY <1>5, <1>a, <1>c, <1>e
  <1> USE DEF DeadNext
  <1>6. OnlineIsBound'
    BY <1>2 DEF OnlineIsBound, Idx
  <1>7. ReferencedIsAlive'
    BY <1>1, <1>2, <1>4, <1>5 DEF ReferencedIsAlive, Idx, isDead
  <1> QED
    BY <1>6, <1>7

LEMMA OwnersAreAt ==
  /\ \A s : Owners(s) = At(OwnerSteps, s) /\ Owners(s)' = At(OwnerSteps, s)'
  /\ \A s : FlagHolders(s) = At(FlagSteps, s) /\ FlagHolders(s)' = At(FlagSteps, s)'
  /\ \A s : Receivers(s) = At(RecvSteps, s) /\ Receivers(s)' = At(RecvSteps, s)'
  BY DEF Owners, FlagHolders, Receivers, At

LEMMA OwnerStep ==
  ASSUME DeadSlotHasOneOwner,
         NEW t \in Threads, NEW x \in Slots, NEW a, NEW b, Moved(t, x, a, b),
         \A s \in Slots : isDead(s)' <=> isDead(s),
         UNCHANGED freeIdx,
         a \in OwnerSteps <=> b \in OwnerSteps
  PROVE  DeadSlotHasOneOwner'
  <1>1. \A s : At(OwnerSteps, s)' = At(OwnerSteps, s)
    <2>1. "idle" \notin OwnerSteps
      BY StepSets
    <2>2. \A s : s # x => At(OwnerSteps, s)' = At(OwnerSteps, s)
      BY <2>1, AtStep
    <2>3. /\ At(OwnerSteps, x)' \ {t} = At(OwnerSteps, x) \ {t}
          /\ t \in At(OwnerSteps, x)' <=> t \in At(OwnerSteps, x)
      BY <2>1, AtStep
    <2> QED
      BY <2>2, <2>3
  <1>2. \A s : Owners(s)' = Owners(s)
    BY <1>1, OwnersAreAt
  <1> QED
    BY <1>2 DEF DeadSlotHasOneOwner

LEMMA SendStepKeeps ==
  ASSUME OneSendAtATime,
         NEW t \in Threads, NEW x \in Slots, NEW a, NEW b, Moved(t, x, a, b),
         UNCHANGED isSending,
         \A s \in Slots : sendIO'[s] # "none" => sendIO[s] # "none",
         b \in FlagSteps => a \in FlagSteps
  PROVE  OneSendAtATime'
  <1>1. \A s : At(FlagSteps, s)' \subseteq At(FlagSteps, s)
    <2>1. "idle" \notin FlagSteps
      BY StepSets
    <2>2. \A s : s # x => At(FlagSteps, s)' = At(FlagSteps, s)
      BY <2>1, AtStep
    <2>3. /\ At(FlagSteps, x)' \ {t} = At(FlagSteps, x) \ {t}
          /\ t \in At(FlagSteps, x)' => t \in At(FlagSteps, x)
      BY <2>1, AtStep
    <2> QED
      BY <2>2, <2>3
  <1>2. \A s : FlagHolders(s)' \subseteq FlagHolders(s)
    BY <1>1, OwnersAreAt
  <1>3. ASSUME NEW s \in Slots
        PROVE  /\ \A u, v \in FlagHolders(s)' : u = v
               /\ sendIO'[s] # "none" => FlagHolders(s)' = {}
               /\ FlagHolders(s)' # {} \/ sendIO'[s] # "none" => isSending'[s]
    BY <1>2 DEF OneSendAtATime
  <1> QED
    BY <1>3 DEF OneSendAtATime

LEMMA RecvStepKeeps ==
  ASSUME OneRecvAtATime,
         NEW t \in Threads, NEW x \in Slots, NEW a, NEW b, Moved(t, x, a, b),
         \A s \in Slots : recvIO'[s] # "none" => recvIO[s] # "none",
         b \in RecvSteps => a \in RecvSteps
  PROVE  OneRecvAtATime'
  <1>1. \A s : At(RecvSteps, s)' \subseteq At(RecvSteps, s)
    <2>1. "idle" \notin RecvSteps
      BY StepSets
    <2>2. \A s : s # x => At(RecvSteps, s)' = At(RecvSteps, s)
      BY <2>1, AtStep
    <2>3. /\ At(RecvSteps, x)' \ {t} = At(RecvSteps, x) \ {t}
          /\ t \in At(RecvSteps, x)' => t \in At(RecvSteps, x)
      BY <2>1, AtStep
    <2> QED
      BY <2>2, <2>3
  <1>2. \A s : Receivers(s)' \subseteq Receivers(s)
    BY <1>1, OwnersAreAt
  <1>3. ASSUME NEW s \in Slots
        PROVE  /\ \A u, v \in Receivers(s)' : u = v
               /\ recvIO'[s] # "none" => Receivers(s)' = {}
    BY <1>2 DEF OneRecvAtATime
  <1> QED
    BY <1>3 DEF OneRecvAtATime

(* A step that changes no more than the count and the place of its thread.  *)
LEMMA QuietStep ==
  ASSUME Inv, TypeOK',
         NEW t \in Threads, NEW x \in Slots, NEW a, NEW b, Moved(t, x, a, b),
         NEW d \in Int, Add(x, d), Weight(b) = Weight(a) + d,
         UNCHANGED <<unique, isSending, signs, freeIdx>>,
         \A s \in Slots : RecvRefs(s)' = RecvRefs(s) /\ SendRefs(s)' = SendRefs(s),
         b \in AliveSteps => ~isDead(x),
         b \in BoundSteps \union {"online"} => unique[x] = session'[t].unique,
         a \in OwnerSteps <=> b \in OwnerSteps,
         b \in FlagSteps => a \in FlagSteps,
         b \in RecvSteps => a \in RecvSteps
  PROVE  Inv'
  <1>1. \A s \in Slots : Other(s)' = Other(s)
    BY DEF Other, SignRefs, SignHolders
  <1>2. Weight(b) + Other(x)' = Weight(a) + Other(x) + d
    <2>1. Other(x) \in Int /\ Weight(a) \in Int
      BY OtherType DEF Weight
    <2> QED
      BY <1>1, <2>1
  <1>3. CountMatchesReferences' /\ \A s \in Slots : isDead(s)' <=> isDead(s)
    <2>1. TypeOK /\ CountMatchesReferences
      BY DEF Inv
    <2>2. \A s \in Slots \ {x} : Other(s)' = Other(s)
      BY <1>1
    <2> QED
      BY <1>2, <2>1, <2>2, CountStep
  <1>4. \A s \in Slots : /\ recvIO'[s] # "none" => recvIO[s] # "none"
                         /\ sendIO'[s] # "none" => sendIO[s] # "none"
    BY DEF RecvRefs, SendRefs
  <1>5. ReferencedIsAlive' /\ OnlineIsBound'
    <2>1. TypeOK /\ ReferencedIsAlive /\ OnlineIsBound
      BY DEF Inv
    <2>2. UNCHANGED unique
      OBVIOUS
    <2>3. \A g \in Signs : signs'[g] \in {signs[g], NoSession}
      OBVIOUS
    <2> QED
      BY <1>3, <1>4, <2>1, <2>2, <2>3, AliveStep
  <1>6. DeadSlotHasOneOwner'
    BY <1>3, OwnerStep DEF Inv
  <1>7. OneSendAtATime'
    BY <1>4, SendStepKeeps DEF Inv
  <1>8. OneRecvAtATime'
    BY <1>4, RecvStepKeeps DEF Inv
  <1> QED
    BY <1>3, <1>5, <1>6, <1>7, <1>8 DEF Inv

(* The same for a thread that stays on its slot and comes into no part of   *)
(* the steps that it was not in.                                            *)
LEMMA WalkStep ==
  ASSUME Inv, TypeOK',
         NEW t \in Threads, NEW a, NEW b, pc[t] = a, a # "idle",
         Goto(t, b), b = "idle" \/ UNCHANGED session,
         \A u \in Threads \ {t} : session'[u] = session[u],
         NEW d \in Int, Add(Idx(t), d), Weight(b) = Weight(a) + d,
         UNCHANGED <<unique, isSending, signs, freeIdx>>,
         \A s \in Slots : RecvRefs(s)' = RecvRefs(s) /\ SendRefs(s)' = SendRefs(s),
         b \in AliveSteps => a \in AliveSteps,
         b \in BoundSteps => a \in BoundSteps,
         b # "online",
         a \in OwnerSteps <=> b \in OwnerSteps,
         b \in FlagSteps => a \in FlagSteps,
         b \in RecvSteps => a \in RecvSteps
  PROVE  Inv'
  <1>1. PICK x \in Slots : Idx(t) = x
    BY DEF Inv, TypeOK
  <1>2. Moved(t, x, a, b)
    BY <1>1 DEF Moved, Goto, Idx, Inv, TypeOK
  <1>3. Add(x, d)
    BY <1>1
  <1>4. b \in AliveSteps => ~isDead(x)
    BY <1>1 DEF Inv, ReferencedIsAlive
  <1>5. b \in BoundSteps \union {"online"} => unique[x] = session'[t].unique
    <2>1. "idle" \notin BoundSteps
      BY StepSets
    <2> QED
      BY <1>1, <2>1 DEF Inv, ReferencedIsAlive, Idx
  <1> QED
    BY <1>2, <1>3, <1>4, <1>5, QuietStep

(* The parts of the steps that b is in and a is not in.                     *)
NoNewPart(a, b) ==
  /\ b \in AliveSteps => a \in AliveSteps
  /\ b \in BoundSteps => a \in BoundSteps
  /\ b # "online"
  /\ a \in OwnerSteps <=> b \in OwnerSteps
  /\ b \in FlagSteps => a \in FlagSteps
  /\ b \in RecvSteps => a \in RecvSteps

NothingShared ==
  UNCHANGED <<IOcount, unique, isSending, signs, freeIdx, recvIO, sendIO, session>>

LEMMA PlainStep ==
  ASSUME Inv, TypeOK', NEW t \in Threads, NEW a, NEW b, pc[t] = a, a # "idle",
         Goto(t, b), NothingShared, Weight(b) = Weight(a), NoNewPart(a, b)
  PROVE  Inv'
  <1>1. Add(Idx(t), 0)
    <2>1. Idx(t) \in Slots
      BY DEF Inv, TypeOK
    <2> QED
      BY <2>1, SameCount DEF Inv, NothingShared
  <1>2. Weight(b) = Weight(a) + 0
    BY DEF Weight
  <1>3. \A s \in Slots : RecvRefs(s)' = RecvRefs(s) /\ SendRefs(s)' = SendRefs(s)
    BY DEF RecvRefs, SendRefs, NothingShared
  <1> QED
    BY <1>1, <1>2, <1>3, WalkStep DEF NoNewPart, NothingShared

(* AcquireSession: a thread that saw the slot alive, or the right ID.       *)
LEMMA AcquireStep ==
  ASSUME Inv, TypeOK', NEW t \in Threads, NEW a, NEW b, pc[t] = a, a # "idle",
         Goto(t, b), b # "idle", NothingShared, Weight(b) = Weight(a),
         ~isDead(Idx(t)),
         b \in BoundSteps => unique[Idx(t)] = session[t].unique,
         b # "online",
         a \notin OwnerSteps, b \notin OwnerSteps, b \notin FlagSteps, b \notin RecvSteps
  PROVE  Inv'
  <1>1. PICK x \in Slots : Idx(t) = x
    BY DEF Inv, TypeOK
  <1>2. Moved(t, x, a, b)
    BY <1>1 DEF Moved, Goto, Idx, Inv, TypeOK, NothingShared
  <1>3. Add(x, 0)
    BY SameCount DEF Inv, NothingShared
  <1>4. Weight(b) = Weight(a) + 0
    BY DEF Weight
  <1>5. \A s \in Slots : RecvRefs(s)' = RecvRefs(s) /\ SendRefs(s)' = SendRefs(s)
    BY DEF RecvRefs, SendRefs, NothingShared
  <1>6. ~isDead(x)
    BY <1>1
  <1>7. b \in BoundSteps \union {"online"} => unique[x] = session'[t].unique
    BY <1>1 DEF NothingShared
  <1>8. UNCHANGED <<unique, isSending, signs, freeIdx>>
    BY DEF NothingShared
  <1> QED
    BY <1>2, <1>3, <1>4, <1>5, <1>6, <1>7, <1>8, QuietStep

LEMMA CallKeeps ==
  ASSUME Inv, TypeOK', NEW t \in Threads,
         \/ AcquireIsDead(t) \/ AcquireUnique(t) \/ Disconnect(t) \/ SetCanceled(t)
         \/ EnqueueSendQ(t)
  PROVE  Inv'
  <1>1. CASE AcquireIsDead(t)
    <2>0. NothingShared
      BY <1>1 DEF AcquireIsDead, ControlOnly, NothingShared, slotVars, ioVars,
                  sendVars, arrayVars
    <2>1. CASE pc[t] = "dead1" /\ Goto(t, "drop1")
      <3>1. NoNewPart("dead1", "drop1") /\ Weight("drop1") = Weight("dead1")
        BY OneFacts DEF Facts, NoNewPart
      <3> QED
        BY <2>0, <2>1, <3>1, PlainStep
    <2>2. CASE pc[t] = "dead2" /\ Goto(t, "drop2")
      <3>1. NoNewPart("dead2", "drop2") /\ Weight("drop2") = Weight("dead2")
        BY TwoFacts DEF Facts, NoNewPart
      <3> QED
        BY <2>0, <2>2, <3>1, PlainStep
    <2>3. CASE pc[t] = "dead1" /\ ~isDead(Idx(t)) /\ Goto(t, "id1")
      <3>1. Facts("dead1", 1, FALSE, FALSE, FALSE, FALSE, FALSE)
        BY OneFacts
      <3>2. Facts("id1", 1, TRUE, FALSE, FALSE, FALSE, FALSE)
        BY OneFacts
      <3> QED
        BY <2>0, <2>3, <3>1, <3>2, AcquireStep DEF Facts
    <2>4. CASE pc[t] = "dead2" /\ ~isDead(Idx(t)) /\ Goto(t, "id2")
      <3>1. Facts("dead2", 2, FALSE, FALSE, FALSE, FALSE, FALSE)
        BY TwoFacts
      <3>2. Facts("id2", 2, TRUE, FALSE, FALSE, FALSE, FALSE)
        BY TwoFacts
      <3> QED
        BY <2>0, <2>4, <3>1, <3>2, AcquireStep DEF Facts
    <2> QED
      BY <1>1, <2>1, <2>2, <2>3, <2>4 DEF AcquireIsDead
  <1>2. CASE AcquireUnique(t)
    <2>0. NothingShared
      BY <1>2 DEF AcquireUnique, ControlOnly, NothingShared, slotVars, ioVars,
                  sendVars, arrayVars
    <2>1. CASE pc[t] = "id1" /\ Goto(t, "drop1")
      <3>1. NoNewPart("id1", "drop1") /\ Weight("drop1") = Weight("id1")
        BY OneFacts DEF Facts, NoNewPart
      <3> QED
        BY <2>0, <2>1, <3>1, PlainStep
    <2>2. CASE pc[t] = "id2" /\ Goto(t, "drop2")
      <3>1. NoNewPart("id2", "drop2") /\ Weight("drop2") = Weight("id2")
        BY TwoFacts DEF Facts, NoNewPart
      <3> QED
        BY <2>0, <2>2, <3>1, PlainStep
    <2>3. CASE pc[t] = "id1" /\ unique[Idx(t)] = session[t].unique /\ Goto(t, "disconnect")
      <3>1. Facts("id1", 1, TRUE, FALSE, FALSE, FALSE, FALSE)
        BY OneFacts
      <3>2. Facts("disconnect", 1, TRUE, TRUE, FALSE, FALSE, FALSE)
        BY OneFacts
      <3>3. ~isDead(Idx(t))
        BY <2>3, <3>1 DEF Facts, Inv, ReferencedIsAlive
      <3> QED
        BY <2>0, <2>3, <3>1, <3>2, <3>3, AcquireStep DEF Facts
    <2>4. CASE pc[t] = "id2" /\ unique[Idx(t)] = session[t].unique /\ Goto(t, "enqueue")
      <3>1. Facts("id2", 2, TRUE, FALSE, FALSE, FALSE, FALSE)
        BY TwoFacts
      <3>2. Facts("enqueue", 2, TRUE, TRUE, FALSE, FALSE, FALSE)
        BY TwoFacts
      <3>3. ~isDead(Idx(t))
        BY <2>4, <3>1 DEF Facts, Inv, ReferencedIsAlive
      <3> QED
        BY <2>0, <2>4, <3>1, <3>2, <3>3, AcquireStep DEF Facts
    <2> QED
      BY <1>2, <2>1, <2>2, <2>3, <2>4 DEF AcquireUnique
  <1>3. CASE Disconnect(t)
    <2>1. NothingShared
      BY <1>3 DEF Disconnect, ControlOnly, NothingShared, slotVars, ioVars,
                  sendVars, arrayVars
    <2>2. /\ NoNewPart("disconnect", "drop1") /\ Weight("drop1") = Weight("disconnect")
          /\ NoNewPart("disconnect", "cancel1") /\ Weight("cancel1") = Weight("disconnect")
      BY OneFacts DEF Facts, NoNewPart
    <2>3. pc[t] = "disconnect" /\ (Goto(t, "drop1") \/ Goto(t, "cancel1"))
      BY <1>3 DEF Disconnect
    <2> QED
      BY <2>1, <2>2, <2>3, PlainStep
  <1>4. CASE SetCanceled(t)
    <2>1. NothingShared
      BY <1>4 DEF SetCanceled, NothingShared, slotVars, ioVars, sendVars, arrayVars
    <2>2. NoNewPart("cancel1", "cancelIO1") /\ Weight("cancelIO1") = Weight("cancel1")
      BY OneFacts DEF Facts, NoNewPart
    <2>3. NoNewPart("cancel2", "cancelIO2") /\ Weight("cancelIO2") = Weight("cancel2")
      BY TwoFacts DEF Facts, NoNewPart
    <2>4. \/ pc[t] = "cancel1" /\ Goto(t, "cancelIO1")
          \/ pc[t] = "cancel2" /\ Goto(t, "cancelIO2")
      BY <1>4 DEF SetCanceled
    <2> QED
      BY <2>1, <2>2, <2>3, <2>4, PlainStep
  <1>5. CASE EnqueueSendQ(t)
    <2>1. NothingShared
      BY <1>5 DEF EnqueueSendQ, NothingShared, slotVars, ioVars, sendVars, arrayVars
    <2>2. /\ NoNewPart("enqueue", "cancel2") /\ Weight("cancel2") = Weight("enqueue")
          /\ NoNewPart("enqueue", "sendPost") /\ Weight("sendPost") = Weight("enqueue")
          /\ NoNewPart("enqueue", "sign") /\ Weight("sign") = Weight("enqueue")
      BY TwoFacts DEF Facts, NoNewPart
    <2>3. pc[t] = "enqueue" /\ (Goto(t, "cancel2") \/ Goto(t, "sendPost") \/ Goto(t, "sign"))
      BY <1>5 DEF EnqueueSendQ
    <2> QED
      BY <2>1, <2>2, <2>3, PlainStep
  <1> QED
    BY <1>1, <1>2, <1>3, <1>4, <1>5

(* Steps that only go on.                                                   *)
LEMMA GoOnKeeps ==
  ASSUME Inv, TypeOK', NEW t \in Threads,
         \/ OnWorkerClientJoin(t) \/ ReleaseSession(t) \/ SendPostDrain(t)
         \/ SendPostPending(t) \/ OnSendCompleteTest(t) \/ RecvPostPending(t)
         \/ OnRecvComplete(t) \/ CompleteRecvCheck(t) \/ OperationAborted(t)
  PROVE  Inv'
  <1>1. CASE OnWorkerClientJoin(t)
    <2>1. NothingShared
      BY <1>1 DEF OnWorkerClientJoin, ControlOnly, NothingShared, slotVars,
                  ioVars, sendVars, arrayVars
    <2>2. NoNewPart("join", "recvPost") /\ Weight("recvPost") = Weight("join")
      BY OneFacts DEF Facts, NoNewPart
    <2>3. pc[t] = "join" /\ Goto(t, "recvPost")
      BY <1>1 DEF OnWorkerClientJoin
    <2> QED
      BY <2>1, <2>2, <2>3, PlainStep
  <1>2. CASE ReleaseSession(t)
    <2>1. NothingShared
      BY <1>2 DEF ReleaseSession, ControlOnly, NothingShared, slotVars,
                  ioVars, sendVars, arrayVars
    <2>2. NoNewPart("leave", "destroy") /\ Weight("destroy") = Weight("leave")
      BY ZeroFacts DEF Facts, NoNewPart
    <2>3. pc[t] = "leave" /\ Goto(t, "destroy")
      BY <1>2 DEF ReleaseSession
    <2> QED
      BY <2>1, <2>2, <2>3, PlainStep
  <1>3. CASE SendPostDrain(t)
    <2>1. NothingShared
      BY <1>3 DEF SendPostDrain, ControlOnly, NothingShared, slotVars,
                  ioVars, sendVars, arrayVars
    <2>2. /\ NoNewPart("drain", "unflag") /\ Weight("unflag") = Weight("drain")
          /\ NoNewPart("drain", "wsaSend") /\ Weight("wsaSend") = Weight("drain")
      BY TwoFacts DEF Facts, NoNewPart
    <2>3. pc[t] = "drain" /\ (Goto(t, "unflag") \/ Goto(t, "wsaSend"))
      BY <1>3 DEF SendPostDrain
    <2> QED
      BY <2>1, <2>2, <2>3, PlainStep
  <1>4. CASE SendPostPending(t)
    <2>1. NothingShared
      BY <1>4 DEF SendPostPending, ControlOnly, NothingShared, slotVars,
                  ioVars, sendVars, arrayVars
    <2>2. /\ NoNewPart("sendPending", "cancelIO1") /\ Weight("cancelIO1") = Weight("sendPending")
          /\ NoNewPart("sendPending", "drop1") /\ Weight("drop1") = Weight("sendPending")
          /\ NoNewPart("sendPending", "cancel1") /\ Weight("cancel1") = Weight("sendPending")
      BY OneFacts DEF Facts, NoNewPart
    <2>3. pc[t] = "sendPending" /\ (Goto(t, "cancelIO1") \/ Goto(t, "drop1") \/ Goto(t, "cancel1"))
      BY <1>4 DEF SendPostPending
    <2> QED
      BY <2>1, <2>2, <2>3, PlainStep
  <1>5. CASE OnSendCompleteTest(t)
    <2>1. NothingShared
      BY <1>5 DEF OnSendCompleteTest, ControlOnly, NothingShared, slotVars,
                  ioVars, sendVars, arrayVars
    <2>2. /\ NoNewPart("sendTest", "drop2") /\ Weight("drop2") = Weight("sendTest")
          /\ NoNewPart("sendTest", "sendFree") /\ Weight("sendFree") = Weight("sendTest")
      BY TwoFacts DEF Facts, NoNewPart
    <2>3. pc[t] = "sendTest" /\ (Goto(t, "drop2") \/ Goto(t, "sendFree"))
      BY <1>5 DEF OnSendCompleteTest
    <2> QED
      BY <2>1, <2>2, <2>3, PlainStep
  <1>6. CASE RecvPostPending(t)
    <2>1. NothingShared
      BY <1>6 DEF RecvPostPending, ControlOnly, NothingShared, slotVars,
                  ioVars, sendVars, arrayVars
    <2>2. /\ NoNewPart("recvPending", "cancelIO1") /\ Weight("cancelIO1") = Weight("recvPending")
          /\ NoNewPart("recvPending", "drop1") /\ Weight("drop1") = Weight("recvPending")
      BY OneFacts DEF Facts, NoNewPart
    <2>3. pc[t] = "recvPending" /\ (Goto(t, "cancelIO1") \/ Goto(t, "drop1"))
      BY <1>6 DEF RecvPostPending
    <2> QED
      BY <2>1, <2>2, <2>3, PlainStep
  <1>7. CASE OnRecvComplete(t)
    <2>1. NothingShared
      BY <1>7 DEF OnRecvComplete, ControlOnly, NothingShared, slotVars,
                  ioVars, sendVars, arrayVars
    <2>2. /\ NoNewPart("recvd", "drop1") /\ Weight("drop1") = Weight("recvd")
          /\ NoNewPart("recvd", "parse") /\ Weight("parse") = Weight("recvd")
      BY OneFacts DEF Facts, NoNewPart
    <2>3. pc[t] = "recvd" /\ (Goto(t, "drop1") \/ Goto(t, "parse"))
      BY <1>7 DEF OnRecvComplete
    <2> QED
      BY <2>1, <2>2, <2>3, PlainStep
  <1>8. CASE CompleteRecvCheck(t)
    <2>1. NothingShared
      BY <1>8 DEF CompleteRecvCheck, ControlOnly, NothingShared, slotVars,
                  ioVars, sendVars, arrayVars
    <2>2. /\ NoNewPart("parse", "recvPost") /\ Weight("recvPost") = Weight("parse")
          /\ NoNewPart("parse", "cancel1") /\ Weight("cancel1") = Weight("parse")
      BY OneFacts DEF Facts, NoNewPart
    <2>3. pc[t] = "parse" /\ (Goto(t, "recvPost") \/ Goto(t, "cancel1"))
      BY <1>8 DEF CompleteRecvCheck
    <2> QED
      BY <2>1, <2>2, <2>3, PlainStep
  <1>9. CASE OperationAborted(t)
    <2>1. NothingShared
      BY <1>9 DEF OperationAborted, ControlOnly, NothingShared, slotVars,
                  ioVars, sendVars, arrayVars
    <2>2. NoNewPart("aborted", "drop1") /\ Weight("drop1") = Weight("aborted")
      BY OneFacts DEF Facts, NoNewPart
    <2>3. pc[t] = "aborted" /\ Goto(t, "drop1")
      BY <1>9 DEF OperationAborted
    <2> QED
      BY <2>1, <2>2, <2>3, PlainStep
  <1> QED
    BY <1>1, <1>2, <1>3, <1>4, <1>5, <1>6, <1>7, <1>8, <1>9

(* Steps that take or give back references.                                 *)
LEMMA CountingKeeps ==
  ASSUME Inv, TypeOK', NEW t \in Threads,
         \/ InitializeCount(t) \/ RecvPost(t) \/ OnSendComplete(t)
         \/ Drop(t, 1) \/ Drop(t, 2)
  PROVE  Inv'
  <1>1. CASE InitializeCount(t)
    <2>1. NoNewPart("init", "fill") /\ Weight("fill") = Weight("init") + 1
      BY ZeroFacts, OneFacts DEF Facts, NoNewPart
    <2>2. /\ UNCHANGED <<unique, isSending, signs, freeIdx, session>>
          /\ \A s \in Slots : RecvRefs(s)' = RecvRefs(s) /\ SendRefs(s)' = SendRefs(s)
      BY <1>1 DEF InitializeCount, CountOnly, ioVars, sendVars, arrayVars,
                  RecvRefs, SendRefs
    <2>3. pc[t] = "init" /\ Goto(t, "fill") /\ Add(Idx(t), 1)
      BY <1>1 DEF InitializeCount
    <2> QED
      BY <2>1, <2>2, <2>3, WalkStep DEF NoNewPart
  <1>2. CASE RecvPost(t)
    <2>1. NoNewPart("recvPost", "wsaRecv") /\ Weight("wsaRecv") = Weight("recvPost") + 1
      BY TwoFacts, OneFacts DEF Facts, NoNewPart
    <2>2. /\ UNCHANGED <<unique, isSending, signs, freeIdx, session>>
          /\ \A s \in Slots : RecvRefs(s)' = RecvRefs(s) /\ SendRefs(s)' = SendRefs(s)
      BY <1>2 DEF RecvPost, CountOnly, ioVars, sendVars, arrayVars,
                  RecvRefs, SendRefs
    <2>3. pc[t] = "recvPost" /\ Goto(t, "wsaRecv") /\ Add(Idx(t), 1)
      BY <1>2 DEF RecvPost
    <2> QED
      BY <2>1, <2>2, <2>3, WalkStep DEF NoNewPart
  <1>3. CASE OnSendComplete(t)
    <2>0. pc[t] = "sendDone" /\ Goto(t, "sendTest")
      BY <1>3 DEF OnSendComplete
    <2>1. NoNewPart("sendDone", "sendTest")
      BY TwoFacts DEF Facts, NoNewPart
    <2>2. /\ UNCHANGED <<unique, isSending, signs, freeIdx, session>>
          /\ UNCHANGED <<recvIO, sendIO>>
          /\ \A s \in Slots : RecvRefs(s)' = RecvRefs(s) /\ SendRefs(s)' = SendRefs(s)
      BY <1>3 DEF OnSendComplete, CountOnly, ioVars, sendVars, arrayVars,
                  RecvRefs, SendRefs
    <2>3. CASE isSendIOPending
      <3>1. Weight("sendTest") = Weight("sendDone") + 1
        BY <2>3, TwoFacts DEF Facts
      <3>2. Add(Idx(t), 1)
        BY <1>3, <2>3 DEF OnSendComplete
      <3> QED
        BY <2>0, <2>1, <2>2, <3>1, <3>2, WalkStep DEF NoNewPart
    <2>4. CASE ~isSendIOPending
      <3>1. Weight("sendTest") = Weight("sendDone")
        BY <2>4, TwoFacts DEF Facts
      <3>2. NothingShared
        BY <1>3, <2>2, <2>4 DEF OnSendComplete, NothingShared
      <3> QED
        BY <2>0, <2>1, <3>1, <3>2, PlainStep
    <2> QED
      BY <2>3, <2>4
  <1>4. ASSUME NEW n \in {1, 2}, NEW a, Drop(t, n), pc[t] = a,
               a # "idle", Weight(a) = n,
               NoNewPart(a, "cas"), NoNewPart(a, "idle")
        PROVE  Inv'
    <2>1. Weight("cas") = Weight(a) + (-n) /\ Weight("idle") = Weight(a) + (-n)
      BY <1>4, ZeroFacts DEF Facts
    <2>2. /\ UNCHANGED <<unique, isSending, signs, freeIdx>>
          /\ \A s \in Slots : RecvRefs(s)' = RecvRefs(s) /\ SendRefs(s)' = SendRefs(s)
      BY <1>4 DEF Drop, ioVars, sendVars, arrayVars, RecvRefs, SendRefs
    <2>3. Add(Idx(t), -n) /\ -n \in Int
      BY <1>4 DEF Drop
    <2>4. CASE Goto(t, "cas") /\ UNCHANGED session
      BY <1>4, <2>1, <2>2, <2>3, <2>4, WalkStep DEF NoNewPart
    <2>5. CASE Return(t)
      <3>1. Goto(t, "idle") /\ \A u \in Threads \ {t} : session'[u] = session[u]
        BY <2>5 DEF Return, Inv, TypeOK
      <3> QED
        BY <1>4, <2>1, <2>2, <2>3, <3>1, WalkStep DEF NoNewPart
    <2> QED
      BY <1>4, <2>4, <2>5 DEF Drop
  <1>5. CASE Drop(t, 1)
    <2>1. /\ Weight("drop1") = 1
          /\ NoNewPart("drop1", "cas") /\ NoNewPart("drop1", "idle")
      BY ZeroFacts, OneFacts DEF Facts, NoNewPart
    <2>2. pc[t] = "drop1"
      BY <1>5 DEF Drop
    <2> QED
      BY <1>4, <1>5, <2>1, <2>2
  <1>6. CASE Drop(t, 2)
    <2>1. /\ Weight("drop2") = 2
          /\ NoNewPart("drop2", "cas") /\ NoNewPart("drop2", "idle")
      BY ZeroFacts, TwoFacts DEF Facts, NoNewPart
    <2>2. pc[t] = "drop2"
      BY <1>6 DEF Drop
    <2> QED
      BY <1>4, <1>6, <2>1, <2>2
  <1> QED
    BY <1>1, <1>2, <1>3, <1>5, <1>6

(* CancelIoEx changes what an operation will end with, not that it counts.  *)
LEMMA CancelIOKeeps ==
  ASSUME Inv, TypeOK', NEW t \in Threads, CancelIOStep(t)
  PROVE  Inv'
  <1>1. /\ NoNewPart("cancelIO1", "drop1") /\ Weight("drop1") = Weight("cancelIO1") + 0
        /\ NoNewPart("cancelIO2", "drop2") /\ Weight("drop2") = Weight("cancelIO2") + 0
    BY OneFacts, TwoFacts DEF Facts, NoNewPart
  <1>2. UNCHANGED <<IOcount, unique, isSending, signs, freeIdx, session>>
    BY DEF CancelIOStep, slotVars, sendVars, arrayVars
  <1>3. \A s \in Slots : RecvRefs(s)' = RecvRefs(s) /\ SendRefs(s)' = SendRefs(s)
    BY DEF CancelIOStep, CancelIO, RecvRefs, SendRefs, Inv, TypeOK
  <1>4. \/ pc[t] = "cancelIO1" /\ Goto(t, "drop1")
        \/ pc[t] = "cancelIO2" /\ Goto(t, "drop2")
    BY DEF CancelIOStep
  <1>5. Idx(t) \in Slots
    BY <1>4 DEF Inv, TypeOK
  <1>6. Add(Idx(t), 0)
    BY <1>2, <1>5, SameCount DEF Inv
  <1>7. CASE pc[t] = "cancelIO1" /\ Goto(t, "drop1")
    BY <1>1, <1>2, <1>3, <1>6, <1>7, WalkStep DEF NoNewPart
  <1>8. CASE pc[t] = "cancelIO2" /\ Goto(t, "drop2")
    BY <1>1, <1>2, <1>3, <1>6, <1>8, WalkStep DEF NoNewPart
  <1> QED
    BY <1>4, <1>7, <1>8

-------------------------------------------------------------------------------
(* What changes hands: the slot, the send flag, the right to receive.       *)

LEMMA OwnerEnters ==
  ASSUME DeadSlotHasOneOwner,
         NEW t \in Threads, NEW x \in Slots, NEW a, NEW b, Moved(t, x, a, b),
         a \notin OwnerSteps, b \in OwnerSteps, Owners(x) = {},
         isDead(x)', x \notin freeIdx',
         \A s \in Slots \ {x} : /\ isDead(s)' <=> isDead(s)
                                /\ s \in freeIdx' <=> s \in freeIdx
  PROVE  DeadSlotHasOneOwner'
  <1>0. "idle" \notin OwnerSteps
    BY StepSets
  <1>1. \A s : s # x => At(OwnerSteps, s)' = At(OwnerSteps, s)
    BY <1>0, AtStep
  <1>2. /\ At(OwnerSteps, x)' \ {t} = At(OwnerSteps, x) \ {t}
        /\ t \in At(OwnerSteps, x)'
    BY <1>0, AtStep
  <1>3. Owners(x)' = {t} /\ \A s \in Slots \ {x} : Owners(s)' = Owners(s)
    BY <1>1, <1>2, OwnersAreAt
  <1>5. ASSUME NEW s \in Slots
        PROVE  /\ isDead(s)' <=> (s \in freeIdx' \/ Owners(s)' # {})
               /\ s \in freeIdx' => Owners(s)' = {}
               /\ \A u, v \in Owners(s)' : u = v
    <2>1. CASE s = x
      BY <1>3, <2>1
    <2>2. CASE s # x
      <3>1. /\ isDead(s)' <=> isDead(s)
            /\ s \in freeIdx' <=> s \in freeIdx
            /\ Owners(s)' = Owners(s)
        BY <1>3, <2>2
      <3>2. /\ isDead(s) <=> (s \in freeIdx \/ Owners(s) # {})
            /\ s \in freeIdx => Owners(s) = {}
            /\ \A u, v \in Owners(s) : u = v
        BY DEF DeadSlotHasOneOwner
      <3> QED
        BY <3>1, <3>2
    <2> QED
      BY <2>1, <2>2
  <1> QED
    BY <1>5 DEF DeadSlotHasOneOwner

LEMMA OwnerLeaves ==
  ASSUME DeadSlotHasOneOwner,
         NEW t \in Threads, NEW x \in Slots, NEW a, NEW b, Moved(t, x, a, b),
         a \in OwnerSteps, b \notin OwnerSteps,
         isDead(x)' <=> x \in freeIdx',
         \A s \in Slots \ {x} : /\ isDead(s)' <=> isDead(s)
                                /\ s \in freeIdx' <=> s \in freeIdx
  PROVE  DeadSlotHasOneOwner'
  <1>0. "idle" \notin OwnerSteps
    BY StepSets
  <1>1. \A s : s # x => At(OwnerSteps, s)' = At(OwnerSteps, s)
    BY <1>0, AtStep
  <1>2. /\ At(OwnerSteps, x)' \ {t} = At(OwnerSteps, x) \ {t}
        /\ t \in At(OwnerSteps, x) /\ t \notin At(OwnerSteps, x)'
    BY <1>0, AtStep
  <1>3. \A u \in At(OwnerSteps, x) : u = t
    BY <1>2, OwnersAreAt DEF DeadSlotHasOneOwner
  <1>4. Owners(x)' = {} /\ \A s \in Slots \ {x} : Owners(s)' = Owners(s)
    BY <1>1, <1>2, <1>3, OwnersAreAt
  <1>5. ASSUME NEW s \in Slots
        PROVE  /\ isDead(s)' <=> (s \in freeIdx' \/ Owners(s)' # {})
               /\ s \in freeIdx' => Owners(s)' = {}
               /\ \A u, v \in Owners(s)' : u = v
    <2>1. CASE s = x
      BY <1>4, <2>1
    <2>2. CASE s # x
      <3>1. /\ isDead(s)' <=> isDead(s)
            /\ s \in freeIdx' <=> s \in freeIdx
            /\ Owners(s)' = Owners(s)
        BY <1>4, <2>2
      <3>2. /\ isDead(s) <=> (s \in freeIdx \/ Owners(s) # {})
            /\ s \in freeIdx => Owners(s) = {}
            /\ \A u, v \in Owners(s) : u = v
        BY DEF DeadSlotHasOneOwner
      <3> QED
        BY <3>1, <3>2
    <2> QED
      BY <2>1, <2>2
  <1> QED
    BY <1>5 DEF DeadSlotHasOneOwner

LEMMA FlagEnters ==
  ASSUME OneSendAtATime,
         NEW t \in Threads, NEW x \in Slots, NEW a, NEW b, Moved(t, x, a, b),
         b \in FlagSteps, FlagHolders(x) = {}, sendIO'[x] = "none", isSending'[x],
         \A s \in Slots \ {x} : isSending'[s] = isSending[s] /\ sendIO'[s] = sendIO[s]
  PROVE  OneSendAtATime'
  <1>0. "idle" \notin FlagSteps
    BY StepSets
  <1>1. \A s : s # x => At(FlagSteps, s)' = At(FlagSteps, s)
    BY <1>0, AtStep
  <1>2. At(FlagSteps, x)' \ {t} = At(FlagSteps, x) \ {t}
    BY <1>0, AtStep
  <1>3. \A u \in FlagHolders(x)' : u = t
    BY <1>2, OwnersAreAt
  <1>4. \A s \in Slots \ {x} : FlagHolders(s)' = FlagHolders(s)
    BY <1>1, OwnersAreAt
  <1>5. ASSUME NEW s \in Slots
        PROVE  /\ \A u, v \in FlagHolders(s)' : u = v
               /\ sendIO'[s] # "none" => FlagHolders(s)' = {}
               /\ FlagHolders(s)' # {} \/ sendIO'[s] # "none" => isSending'[s]
    <2>1. CASE s = x
      BY <1>3, <2>1
    <2>2. CASE s # x
      BY <1>4, <2>2 DEF OneSendAtATime
    <2> QED
      BY <2>1, <2>2
  <1> QED
    BY <1>5 DEF OneSendAtATime

LEMMA FlagLeaves ==
  ASSUME OneSendAtATime,
         NEW t \in Threads, NEW x \in Slots, NEW a, NEW b, Moved(t, x, a, b),
         a \in FlagSteps \/ FlagHolders(x) = {}, b \notin FlagSteps,
         sendIO'[x] # "none" => isSending'[x],
         \A s \in Slots \ {x} : isSending'[s] = isSending[s] /\ sendIO'[s] = sendIO[s]
  PROVE  OneSendAtATime'
  <1>0. "idle" \notin FlagSteps
    BY StepSets
  <1>1. \A s : s # x => At(FlagSteps, s)' = At(FlagSteps, s)
    BY <1>0, AtStep
  <1>2. /\ At(FlagSteps, x)' \ {t} = At(FlagSteps, x) \ {t}
        /\ t \in At(FlagSteps, x) <=> a \in FlagSteps
        /\ t \notin At(FlagSteps, x)'
    BY <1>0, AtStep
  <1>3. a \in FlagSteps => \A u \in At(FlagSteps, x) : u = t
    BY <1>2, OwnersAreAt DEF OneSendAtATime
  <1>4. FlagHolders(x)' = {} /\ \A s \in Slots \ {x} : FlagHolders(s)' = FlagHolders(s)
    BY <1>1, <1>2, <1>3, OwnersAreAt
  <1>5. ASSUME NEW s \in Slots
        PROVE  /\ \A u, v \in FlagHolders(s)' : u = v
               /\ sendIO'[s] # "none" => FlagHolders(s)' = {}
               /\ FlagHolders(s)' # {} \/ sendIO'[s] # "none" => isSending'[s]
    <2>1. CASE s = x
      BY <1>4, <2>1
    <2>2. CASE s # x
      BY <1>4, <2>2 DEF OneSendAtATime
    <2> QED
      BY <2>1, <2>2
  <1> QED
    BY <1>5 DEF OneSendAtATime

LEMMA RecvEnters ==
  ASSUME OneRecvAtATime,
         NEW t \in Threads, NEW x \in Slots, NEW a, NEW b, Moved(t, x, a, b),
         Receivers(x) = {}, recvIO'[x] = "none",
         \A s \in Slots \ {x} : recvIO'[s] = recvIO[s]
  PROVE  OneRecvAtATime'
  <1>0. "idle" \notin RecvSteps
    BY StepSets
  <1>1. \A s : s # x => At(RecvSteps, s)' = At(RecvSteps, s)
    BY <1>0, AtStep
  <1>2. At(RecvSteps, x)' \ {t} = At(RecvSteps, x) \ {t}
    BY <1>0, AtStep
  <1>3. \A u \in Receivers(x)' : u = t
    BY <1>2, OwnersAreAt
  <1>4. \A s \in Slots \ {x} : Receivers(s)' = Receivers(s)
    BY <1>1, OwnersAreAt
  <1>5. ASSUME NEW s \in Slots
        PROVE  /\ \A u, v \in Receivers(s)' : u = v
               /\ recvIO'[s] # "none" => Receivers(s)' = {}
    <2>1. CASE s = x
      BY <1>3, <2>1
    <2>2. CASE s # x
      BY <1>4, <2>2 DEF OneRecvAtATime
    <2> QED
      BY <2>1, <2>2
  <1> QED
    BY <1>5 DEF OneRecvAtATime

LEMMA RecvLeaves ==
  ASSUME OneRecvAtATime,
         NEW t \in Threads, NEW x \in Slots, NEW a, NEW b, Moved(t, x, a, b),
         a \in RecvSteps, b \notin RecvSteps,
         \A s \in Slots \ {x} : recvIO'[s] = recvIO[s]
  PROVE  OneRecvAtATime'
  <1>0. "idle" \notin RecvSteps
    BY StepSets
  <1>1. \A s : s # x => At(RecvSteps, s)' = At(RecvSteps, s)
    BY <1>0, AtStep
  <1>2. /\ At(RecvSteps, x)' \ {t} = At(RecvSteps, x) \ {t}
        /\ t \in At(RecvSteps, x) /\ t \notin At(RecvSteps, x)'
    BY <1>0, AtStep
  <1>3. \A u \in At(RecvSteps, x) : u = t
    BY <1>2, OwnersAreAt DEF OneRecvAtATime
  <1>4. Receivers(x)' = {} /\ \A s \in Slots \ {x} : Receivers(s)' = Receivers(s)
    BY <1>1, <1>2, <1>3, OwnersAreAt
  <1>5. ASSUME NEW s \in Slots
        PROVE  /\ \A u, v \in Receivers(s)' : u = v
               /\ recvIO'[s] # "none" => Receivers(s)' = {}
    <2>1. CASE s = x
      BY <1>4, <2>1
    <2>2. CASE s # x
      BY <1>4, <2>2 DEF OneRecvAtATime
    <2> QED
      BY <2>1, <2>2
  <1> QED
    BY <1>5 DEF OneRecvAtATime

(* Nothing goes on in a dead slot.                                          *)
LEMMA DeadIsQuiet ==
  ASSUME Inv, NEW x \in Slots, isDead(x)
  PROVE  /\ \A t \in Threads : pc[t] \in AliveSteps => Idx(t) # x
         /\ FlagHolders(x) = {} /\ Receivers(x) = {}
         /\ recvIO[x] = "none" /\ sendIO[x] = "none"
         /\ \A g \in Signs : signs[g] # NoSession => signs[g].index # x
  <1>1. \A t \in Threads : pc[t] \in AliveSteps => Idx(t) # x
    BY DEF Inv, ReferencedIsAlive
  <1>2. FlagHolders(x) = {} /\ Receivers(x) = {}
    BY <1>1, StepSets DEF FlagHolders, Receivers
  <1>3. recvIO[x] = "none" /\ sendIO[x] = "none"
    BY DEF Inv, ReferencedIsAlive
  <1>4. \A g \in Signs : signs[g] # NoSession => signs[g].index # x
    BY DEF Inv, ReferencedIsAlive
  <1> QED
    BY <1>1, <1>2, <1>3, <1>4

(* Nothing refers to a slot whose count is zero.                            *)
LEMMA ZeroIsUnreferenced ==
  ASSUME TypeOK, NEW x \in Slots, References(x) = 0
  PROVE  /\ \A t \in Threads : pc[t] \in AliveSteps => Idx(t) # x
         /\ recvIO[x] = "none" /\ sendIO[x] = "none"
         /\ \A g \in Signs : signs[g] # NoSession => signs[g].index # x
  <1>1. /\ IsFiniteSet(At(OneRef, x)) /\ IsFiniteSet(At(TwoRefs, x))
        /\ Cardinality(At(OneRef, x)) \in Nat /\ Cardinality(At(TwoRefs, x)) \in Nat
    BY AtFinite
  <1>2. SignHolders(x) \in SUBSET Signs
    BY DEF SignHolders
  <1>3. IsFiniteSet(SignHolders(x)) /\ Cardinality(SignHolders(x)) \in Nat
    BY <1>2, ThreadsAssumption, FS_Subset, FS_CardinalityType
  <1>4. RecvRefs(x) \in {0, 1} /\ SendRefs(x) \in {0, 1, 2}
    BY DEF RecvRefs, SendRefs
  <1>5. Cardinality(At(OneRef, x)) + 2 * Cardinality(At(TwoRefs, x))
          + 2 * Cardinality(SignHolders(x)) + RecvRefs(x) + SendRefs(x) = 0
    BY DEF References, ThreadRefs, SignRefs, OneHolders, TwoHolders, At
  <1>6. /\ Cardinality(At(OneRef, x)) = 0 /\ Cardinality(At(TwoRefs, x)) = 0
        /\ Cardinality(SignHolders(x)) = 0 /\ RecvRefs(x) = 0 /\ SendRefs(x) = 0
    <2> DEFINE one  == Cardinality(At(OneRef, x))
               two  == Cardinality(At(TwoRefs, x))
               sign == Cardinality(SignHolders(x))
               recv == RecvRefs(x)
               send == SendRefs(x)
    <2>1. /\ one \in Nat /\ two \in Nat /\ sign \in Nat /\ recv \in Nat /\ send \in Nat
          /\ one + 2 * two + 2 * sign + recv + send = 0
      BY <1>1, <1>3, <1>4, <1>5
    <2> HIDE DEF one, two, sign, recv, send
    <2>2. one = 0 /\ two = 0 /\ sign = 0 /\ recv = 0 /\ send = 0
      BY <2>1
    <2> QED
      BY <2>2 DEF one, two, sign, recv, send
  <1>7. At(OneRef, x) = {} /\ At(TwoRefs, x) = {} /\ SignHolders(x) = {}
    BY <1>1, <1>3, <1>6, FS_EmptySet
  <1>8. \A t \in Threads : pc[t] \in AliveSteps => Idx(t) # x
    BY <1>7, StepSets DEF At
  <1>9. recvIO[x] = "none" /\ sendIO[x] = "none"
    BY <1>6 DEF RecvRefs, SendRefs
  <1>10. \A g \in Signs : signs[g].index # x
    BY <1>7 DEF SignHolders
  <1> QED
    BY <1>8, <1>9, <1>10

-------------------------------------------------------------------------------
(* The accept thread and the release of a slot.                             *)

LEMMA AcceptKeeps ==
  ASSUME Inv, TypeOK', NEW x \in Slots, Accept(x)
  PROVE  Inv'
  <1>0. Acceptor \in Threads
    BY DEF Threads
  <1>1. Moved(Acceptor, x, "idle", "init")
    BY <1>0 DEF Accept, Moved, Goto, Inv, TypeOK
  <1>2. /\ UNCHANGED <<IOcount, unique, isSending, signs, recvIO, sendIO>>
        /\ x \in freeIdx /\ freeIdx' = freeIdx \ {x}
    BY DEF Accept, slotVars, ioVars, sendVars
  <1>3. Weight("init") = 0 /\ Weight("idle") = 0
    BY ZeroFacts DEF Facts
  <1>4. \A s : Other(s)' = Other(s) /\ Other(s) \in Nat
    BY <1>2, OtherType DEF Other, SignRefs, SignHolders, RecvRefs, SendRefs
  <1>5. CountMatchesReferences' /\ \A s \in Slots : isDead(s)' <=> isDead(s)
    <2>1. TypeOK /\ CountMatchesReferences
      BY DEF Inv
    <2>2. Add(x, 0)
      BY <1>2, <2>1, SameCount
    <2>3. Weight("init") + Other(x)' = Weight("idle") + Other(x) + 0
      BY <1>3, <1>4
    <2> QED
      BY <1>0, <1>1, <1>4, <2>1, <2>2, <2>3, CountStep
  <1>6. /\ "init" \notin AliveSteps /\ "init" \notin BoundSteps /\ "init" \in OwnerSteps
        /\ "init" \notin FlagSteps /\ "init" \notin RecvSteps /\ "idle" \notin OwnerSteps
    BY ZeroFacts DEF Facts
  <1>7. ReferencedIsAlive' /\ OnlineIsBound'
    <2>1. TypeOK /\ ReferencedIsAlive /\ OnlineIsBound
      BY DEF Inv
    <2> QED
      BY <1>0, <1>1, <1>2, <1>5, <1>6, <2>1, AliveStep
  <1>8. DeadSlotHasOneOwner'
    <2>1. isDead(x) /\ Owners(x) = {}
      BY <1>2 DEF Inv, DeadSlotHasOneOwner
    <2>2. isDead(x)' /\ x \notin freeIdx'
      BY <1>2, <1>5, <2>1
    <2>3. \A s \in Slots \ {x} : s \in freeIdx' <=> s \in freeIdx
      BY <1>2
    <2> QED
      BY <1>0, <1>1, <1>5, <1>6, <2>1, <2>2, <2>3, OwnerEnters DEF Inv
  <1>9. OneSendAtATime'
    BY <1>0, <1>1, <1>2, <1>6, SendStepKeeps DEF Inv
  <1>10. OneRecvAtATime'
    BY <1>0, <1>1, <1>2, <1>6, RecvStepKeeps DEF Inv
  <1> QED
    BY <1>5, <1>7, <1>8, <1>9, <1>10 DEF Inv

LEMMA InitializeFieldsKeeps ==
  ASSUME Inv, TypeOK', NEW t \in Threads, InitializeFields(t)
  PROVE  Inv'
  <1>1. PICK x \in Slots : Idx(t) = x
    BY DEF InitializeFields, Inv, TypeOK
  <1>2. Moved(t, x, "fill", "online")
    BY <1>1 DEF InitializeFields, Moved, Goto, Idx, Inv, TypeOK
  <1>3. /\ UNCHANGED <<IOcount, isSending, signs, freeIdx, recvIO, sendIO, session>>
        /\ unique' = [unique EXCEPT ![x] = session[t].unique]
    BY <1>1 DEF InitializeFields, ioVars, sendVars, arrayVars
  <1>4. /\ Weight("fill") = 1 /\ Weight("online") = 1
        /\ "fill" \in OwnerSteps /\ "online" \in OwnerSteps /\ "online" \notin AliveSteps
        /\ "online" \notin FlagSteps /\ "online" \notin RecvSteps
    BY OneFacts DEF Facts
  <1>5. \A s : Other(s)' = Other(s) /\ Other(s) \in Nat
    BY <1>3, OtherType DEF Other, SignRefs, SignHolders, RecvRefs, SendRefs
  <1>6. CountMatchesReferences' /\ \A s \in Slots : isDead(s)' <=> isDead(s)
    <2>1. TypeOK /\ CountMatchesReferences
      BY DEF Inv
    <2>2. Add(x, 0)
      BY <1>3, <2>1, SameCount
    <2>3. Weight("online") + Other(x)' = Weight("fill") + Other(x) + 0
      BY <1>4, <1>5
    <2> QED
      BY <1>2, <1>5, <2>1, <2>2, <2>3, CountStep
  <1>7. t \in Owners(x)
    BY <1>1, <1>2, <1>4 DEF Owners, Moved
  <1>8. isDead(x) /\ \A u \in Owners(x) : u = t
    BY <1>7 DEF Inv, DeadSlotHasOneOwner
  <1>9. /\ \A u \in Threads : pc[u] \in AliveSteps => Idx(u) # x
        /\ \A g \in Signs : signs[g] # NoSession => signs[g].index # x
    BY <1>8, DeadIsQuiet
  <1>10. \A u \in Threads : pc[u] \in OwnerSteps /\ Idx(u) = x => u = t
    BY <1>8 DEF Owners
  <1>11. unique \in [Slots -> {0} \union Uniques]
    BY DEF Inv, TypeOK
  <1>12. /\ unique'[x] = session[t].unique
         /\ \A y : y # x => unique'[y] = unique[y]
    BY <1>3, <1>11
  <1>13. ReferencedIsAlive'
    <2>1. ASSUME NEW u \in Threads, pc'[u] \in AliveSteps
          PROVE  pc[u] \in AliveSteps /\ pc'[u] = pc[u]
      BY <1>2, <1>4, <2>1 DEF Moved
    <2>2. \A u \in Threads : pc'[u] \in AliveSteps => ~isDead(Idx(u)) /\ Idx(u) # x
      BY <1>9, <2>1 DEF Inv, ReferencedIsAlive
    <2>3. \A u \in Threads : pc'[u] \in BoundSteps => unique'[Idx(u)] = session[u].unique
      <3>1. BoundSteps \subseteq AliveSteps
        BY StepSets
      <3> QED
        BY <1>12, <2>1, <2>2, <3>1 DEF Inv, ReferencedIsAlive
    <2>4. \A g \in Signs : signs[g] # NoSession =>
            ~isDead(signs[g].index) /\ unique'[signs[g].index] = signs[g].unique
      BY <1>9, <1>12 DEF Inv, ReferencedIsAlive
    <2>5. \A s \in Slots : (recvIO[s] # "none" \/ sendIO[s] # "none") => ~isDead(s)
      BY DEF Inv, ReferencedIsAlive
    <2> QED
      BY <1>3, <2>2, <2>3, <2>4, <2>5 DEF ReferencedIsAlive, Idx, isDead
  <1>14. OnlineIsBound'
    <2>1. ASSUME NEW u \in Threads, pc'[u] = "online"
          PROVE  unique'[session[u].index] = session[u].unique
      <3>1. CASE u = t
        BY <1>1, <1>12, <3>1 DEF Idx
      <3>2. CASE u # t
        <4>1. pc[u] = "online"
          BY <1>2, <2>1, <3>2 DEF Moved
        <4>2. Idx(u) # x /\ unique[Idx(u)] = session[u].unique
          BY <1>4, <1>10, <3>2, <4>1 DEF Inv, OnlineIsBound
        <4> QED
          BY <1>12, <4>2 DEF Idx
      <3> QED
        BY <3>1, <3>2
    <2> QED
      BY <1>3, <2>1 DEF OnlineIsBound, Idx
  <1>15. DeadSlotHasOneOwner'
    BY <1>2, <1>3, <1>4, <1>6, OwnerStep DEF Inv
  <1>16. OneSendAtATime'
    BY <1>2, <1>3, <1>4, SendStepKeeps DEF Inv
  <1>17. OneRecvAtATime'
    BY <1>2, <1>3, <1>4, RecvStepKeeps DEF Inv
  <1> QED
    BY <1>6, <1>13, <1>14, <1>15, <1>16, <1>17 DEF Inv

LEMMA InitializeFlagKeeps ==
  ASSUME Inv, TypeOK', NEW t \in Threads, InitializeFlag(t)
  PROVE  Inv'
  <1>1. PICK x \in Slots : Idx(t) = x
    BY DEF InitializeFlag, Inv, TypeOK
  <1>2. Moved(t, x, "online", "join")
    BY <1>1 DEF InitializeFlag, Moved, Goto, Idx, Inv, TypeOK, CountOnly
  <1>3. /\ UNCHANGED <<unique, isSending, signs, freeIdx, recvIO, sendIO, session>>
        /\ IOcount' = [IOcount EXCEPT ![x] = ClearFlag(@)]
    BY <1>1 DEF InitializeFlag, CountOnly, ioVars, sendVars, arrayVars
  <1>4. /\ Weight("online") = 1 /\ Weight("join") = 1
        /\ "online" \in OwnerSteps /\ "join" \notin OwnerSteps /\ "join" \notin FlagSteps
    BY OneFacts DEF Facts
  <1>5. \A s : Other(s)' = Other(s) /\ Other(s) \in Nat
    BY <1>3, OtherType DEF Other, SignRefs, SignHolders, RecvRefs, SendRefs
  <1>6. \A s \in Slots : References(s)' = References(s)
    <2>1. \A s : References(s) = ThreadRefs(s) + Other(s)
      BY OtherType
    <2>2. \A s : References(s)' = ThreadRefs(s)' + Other(s)'
      BY CountTypesNext
    <2>3. \A s : s # x => ThreadRefs(s)' = ThreadRefs(s)
      BY <1>2, ThreadRefsStep
    <2>4. ThreadRefs(x)' = ThreadRefs(x)
      <3>1. ThreadRefs(x)' - Weight("join") = ThreadRefs(x) - Weight("online")
        BY <1>2, ThreadRefsStep
      <3>2. ThreadRefs(x) \in Nat /\ ThreadRefs(x)' \in Nat
        BY <1>2, ThreadRefsStep
      <3> QED
        BY <1>4, <3>1, <3>2
    <2> QED
      BY <1>5, <2>1, <2>2, <2>3, <2>4
  <1>7. IOcount \in [Slots -> UShort]
    BY DEF Inv, TypeOK
  <1>8. /\ IOcount'[x] = ClearFlag(IOcount[x])
        /\ \A s \in Slots \ {x} : IOcount'[s] = IOcount[s]
    BY <1>3, <1>7
  <1>9. /\ ClearFlag(IOcount[x]) \in Int
        /\ 0 <= ClearFlag(IOcount[x]) /\ ClearFlag(IOcount[x]) < DELETE_FLAG_BIT
    BY ReferencesBound, DeadIsQuiet DEF Inv, CountMatchesReferences
  <1>10. ClearFlag(ClearFlag(IOcount[x])) = ClearFlag(IOcount[x])
    BY <1>9, ClearFlagLow
  <1>11. CountMatchesReferences'
    <2>1. \A s \in Slots : ClearFlag(IOcount'[s]) = References(s)'
      BY <1>6, <1>8, <1>10 DEF Inv, CountMatchesReferences
    <2> QED
      BY <2>1 DEF CountMatchesReferences, ClearFlag
  <1>12. /\ ~isDead(x)'
         /\ \A s \in Slots \ {x} : isDead(s)' <=> isDead(s)
    BY <1>8, <1>9 DEF isDead, DELETE_FLAG_BIT
  <1>13. t \in Owners(x)
    BY <1>1, <1>2, <1>4 DEF Owners, Moved
  <1>14. isDead(x) /\ x \notin freeIdx
    BY <1>13 DEF Inv, DeadSlotHasOneOwner
  <1>15. ReferencedIsAlive' /\ OnlineIsBound'
    <2>1. TypeOK /\ ReferencedIsAlive /\ OnlineIsBound
      BY DEF Inv
    <2>2. \A s \in Slots : isDead(s)' => isDead(s)
      BY <1>12
    <2>3. unique[x] = session'[t].unique
      BY <1>1, <1>2, <1>3 DEF Inv, OnlineIsBound, Moved
    <2> QED
      BY <1>2, <1>3, <1>12, <2>1, <2>2, <2>3, AliveStep
  <1>16. DeadSlotHasOneOwner'
    BY <1>2, <1>3, <1>4, <1>12, <1>14, OwnerLeaves DEF Inv
  <1>17. OneSendAtATime'
    BY <1>2, <1>3, <1>4, SendStepKeeps DEF Inv
  <1>18. OneRecvAtATime'
    <2>1. Receivers(x) = {} /\ recvIO[x] = "none"
      BY <1>14, DeadIsQuiet
    <2> QED
      BY <1>2, <1>3, <2>1, RecvEnters DEF Inv
  <1> QED
    BY <1>11, <1>15, <1>16, <1>17, <1>18 DEF Inv

-------------------------------------------------------------------------------
(* References pass from a thread to an operation or a sign, or back, and    *)
(* IOcount_ stays as it is.                                                 *)

LEMMA PassStep ==
  ASSUME Inv,
         NEW t \in Threads, NEW x \in Slots, NEW a, NEW b, Moved(t, x, a, b),
         UNCHANGED <<IOcount, unique, freeIdx>>,
         \A s \in Slots \ {x} : Other(s)' = Other(s),
         Weight(b) + Other(x)' = Weight(a) + Other(x),
         b \in AliveSteps => ~isDead(x),
         b \in BoundSteps \union {"online"} => unique[x] = session'[t].unique,
         \A g \in Signs : \/ signs'[g] \in {signs[g], NoSession}
                          \/ signs'[g] = session[t] /\ a \in BoundSteps,
         \A s \in Slots : recvIO'[s] # "none" \/ sendIO'[s] # "none" =>
                            (recvIO[s] # "none" \/ sendIO[s] # "none"
                              \/ (s = x /\ ~isDead(x))),
         a \notin OwnerSteps, b \notin OwnerSteps
  PROVE  /\ CountMatchesReferences' /\ DeadSlotHasOneOwner'
         /\ ReferencedIsAlive' /\ OnlineIsBound'
  <1>1. TypeOK /\ CountMatchesReferences /\ ReferencedIsAlive /\ OnlineIsBound
    BY DEF Inv
  <1>2. CountMatchesReferences' /\ \A s \in Slots : isDead(s)' <=> isDead(s)
    <2>1. Add(x, 0)
      BY <1>1, SameCount
    <2>2. Weight(b) + Other(x)' = Weight(a) + Other(x) + 0
      <3>1. Weight(a) \in Int /\ Other(x) \in Int
        BY OtherType DEF Weight
      <3> QED
        BY <3>1
    <2> QED
      BY <1>1, <2>1, <2>2, CountStep
  <1>3. DeadSlotHasOneOwner'
    BY <1>2, OwnerStep DEF Inv
  <1>4. b \in AliveSteps => ~isDead(x)'
    BY <1>2
  <1>5. \A s \in Slots : recvIO'[s] # "none" \/ sendIO'[s] # "none" =>
                           (recvIO[s] # "none" \/ sendIO[s] # "none"
                             \/ (s = x /\ ~isDead(x)'))
    BY <1>2
  <1>6. UNCHANGED unique
    OBVIOUS
  <1>7. ReferencedIsAlive' /\ OnlineIsBound'
    BY <1>1, <1>2, <1>4, <1>5, <1>6, AliveStep
  <1> QED
    BY <1>2, <1>3, <1>7

(* The references of x that no thread holds, one kind at a time.            *)
LEMMA OtherParts ==
  \A s : /\ SignRefs(s) \in Nat /\ SignRefs(s)' \in Nat
         /\ RecvRefs(s) \in {0, 1} /\ RecvRefs(s)' \in {0, 1}
         /\ SendRefs(s) \in {0, 1, 2} /\ SendRefs(s)' \in {0, 1, 2}
         /\ (UNCHANGED signs => SignRefs(s)' = SignRefs(s))
  <1> SUFFICES ASSUME NEW s
               PROVE  /\ SignRefs(s) \in Nat /\ SignRefs(s)' \in Nat
                      /\ RecvRefs(s) \in {0, 1} /\ RecvRefs(s)' \in {0, 1}
                      /\ SendRefs(s) \in {0, 1, 2} /\ SendRefs(s)' \in {0, 1, 2}
                      /\ (UNCHANGED signs => SignRefs(s)' = SignRefs(s))
    OBVIOUS
  <1>1. SignHolders(s) \in SUBSET Signs /\ SignHolders(s)' \in SUBSET Signs
    BY DEF SignHolders
  <1>2. Cardinality(SignHolders(s)) \in Nat /\ Cardinality(SignHolders(s)') \in Nat
    BY <1>1, ThreadsAssumption, FS_Subset, FS_CardinalityType
  <1>3. SignRefs(s) \in Nat /\ SignRefs(s)' \in Nat
    BY <1>2 DEF SignRefs
  <1>4. UNCHANGED signs => SignRefs(s)' = SignRefs(s)
    BY DEF SignRefs, SignHolders
  <1>5. RecvRefs(s) \in {0, 1} /\ RecvRefs(s)' \in {0, 1}
    BY DEF RecvRefs
  <1>6. SendRefs(s) \in {0, 1, 2} /\ SendRefs(s)' \in {0, 1, 2}
    BY DEF SendRefs
  <1> QED
    BY <1>3, <1>4, <1>5, <1>6

(* A thread that touches nothing but the send flag of its slot.             *)
LEMMA FlagStep ==
  ASSUME Inv,
         NEW t \in Threads, NEW x \in Slots, NEW a, NEW b, Moved(t, x, a, b),
         a # "idle", b # "idle",
         UNCHANGED <<IOcount, unique, freeIdx, signs, recvIO, sendIO, session>>,
         Weight(b) = Weight(a), NoNewPart(a, b) \/ a \in BoundSteps,
         b # "online", a \notin OwnerSteps, b \notin OwnerSteps
  PROVE  /\ CountMatchesReferences' /\ DeadSlotHasOneOwner'
         /\ ReferencedIsAlive' /\ OnlineIsBound'
  <1>1. \A s : Other(s)' = Other(s) /\ Other(s) \in Nat
    BY OtherType DEF Other, SignRefs, SignHolders, RecvRefs, SendRefs
  <1>2. Idx(t) = x /\ pc[t] = a
    BY DEF Moved
  <1>3. b \in AliveSteps => ~isDead(x)
    BY <1>2, StepSets DEF Inv, ReferencedIsAlive, NoNewPart
  <1>4. b \in BoundSteps \union {"online"} => unique[x] = session'[t].unique
    BY <1>2 DEF Inv, ReferencedIsAlive, NoNewPart, Idx
  <1> QED
    BY <1>1, <1>3, <1>4, PassStep

LEMMA SendFlagKeeps ==
  ASSUME Inv, TypeOK', NEW t \in Threads,
         SendPost(t) \/ SendPostEmpty(t) \/ SetSendFlagFalse(t)
  PROVE  Inv'
  <1>1. PICK x \in Slots : Idx(t) = x
    BY DEF SendPost, SendPostEmpty, SetSendFlagFalse, Inv, TypeOK
  <1>2. UNCHANGED <<IOcount, unique, freeIdx, signs, recvIO, sendIO, session>>
    BY DEF SendPost, SendPostEmpty, SetSendFlagFalse, slotVars, ioVars, arrayVars
  <1>3. \A s \in Slots : recvIO'[s] # "none" => recvIO[s] # "none"
    BY <1>2
  <1>4. isSending \in [Slots -> BOOLEAN] /\ pc \in [Threads -> Steps]
    BY DEF Inv, TypeOK
  <1>5. \A a, b : pc[t] = a /\ Goto(t, b) => Moved(t, x, a, b)
    BY <1>1, <1>2, <1>4 DEF Moved, Goto, Idx
  <1>6. \A s \in Slots \ {x} : isSending'[s] = isSending[s] /\ sendIO'[s] = sendIO[s]
    BY <1>1, <1>2, <1>4 DEF SendPost, SendPostEmpty, SetSendFlagFalse
  <1>7. CASE SendPost(t)
    <2>1. pc[t] = "sendPost" /\ isSending'[x]
      BY <1>1, <1>4, <1>7 DEF SendPost
    <2>2. Goto(t, IF isSending[x] THEN "drop2" ELSE "drain")
      BY <1>1, <1>7 DEF SendPost
    <2>3. /\ NoNewPart("sendPost", "drop2") /\ "sendPost" \in BoundSteps
          /\ Weight("drop2") = Weight("sendPost") /\ Weight("drain") = Weight("sendPost")
          /\ "drain" \in FlagSteps /\ "drain" \notin RecvSteps
          /\ "sendPost" \notin OwnerSteps /\ "drain" \notin OwnerSteps
      BY TwoFacts DEF Facts, NoNewPart
    <2>4. CASE isSending[x]
      <3>1. Goto(t, "drop2")
        BY <2>2, <2>4
      <3>2. isSending' = isSending
        BY <1>1, <1>4, <1>7, <2>4 DEF SendPost
      <3>3. NothingShared
        BY <1>2, <3>2 DEF NothingShared
      <3> QED
        BY <2>1, <2>3, <3>1, <3>3, PlainStep
    <2>5. CASE ~isSending[x]
      <3>1. Moved(t, x, "sendPost", "drain")
        BY <1>5, <2>1, <2>2, <2>5
      <3>2. FlagHolders(x) = {} /\ sendIO[x] = "none"
        BY <2>5 DEF Inv, OneSendAtATime
      <3>3. OneSendAtATime'
        BY <1>2, <1>6, <2>1, <2>3, <3>1, <3>2, FlagEnters DEF Inv
      <3>4. OneRecvAtATime'
        BY <1>3, <2>3, <3>1, RecvStepKeeps DEF Inv
      <3>5. /\ CountMatchesReferences' /\ DeadSlotHasOneOwner'
            /\ ReferencedIsAlive' /\ OnlineIsBound'
        BY <1>2, <2>3, <3>1, FlagStep
      <3> QED
        BY <3>3, <3>4, <3>5 DEF Inv
    <2> QED
      BY <2>4, <2>5
  <1>8. ASSUME NEW a, NEW b, pc[t] = a, Goto(t, b), a # "idle", b # "idle",
               a \in FlagSteps, a \in BoundSteps, b \notin FlagSteps, b \notin RecvSteps,
               Weight(b) = Weight(a), b # "online",
               a \notin OwnerSteps, b \notin OwnerSteps
        PROVE  Inv'
    <2>1. Moved(t, x, a, b)
      BY <1>5, <1>8
    <2>2. t \in FlagHolders(x)
      BY <1>1, <1>8 DEF FlagHolders
    <2>3. sendIO[x] = "none"
      BY <2>2 DEF Inv, OneSendAtATime
    <2>4. OneSendAtATime'
      BY <1>2, <1>6, <1>8, <2>1, <2>3, FlagLeaves DEF Inv
    <2>5. OneRecvAtATime'
      BY <1>3, <1>8, <2>1, RecvStepKeeps DEF Inv
    <2>6. /\ CountMatchesReferences' /\ DeadSlotHasOneOwner'
          /\ ReferencedIsAlive' /\ OnlineIsBound'
      BY <1>2, <1>8, <2>1, FlagStep
    <2> QED
      BY <2>4, <2>5, <2>6 DEF Inv
  <1>9. CASE SendPostEmpty(t)
    <2>1. pc[t] = "unflag" /\ Goto(t, "drop2")
      BY <1>9 DEF SendPostEmpty
    <2>2. /\ "unflag" \in FlagSteps /\ "unflag" \in BoundSteps
          /\ "drop2" \notin FlagSteps /\ "drop2" \notin RecvSteps
          /\ Weight("drop2") = Weight("unflag")
          /\ "unflag" \notin OwnerSteps /\ "drop2" \notin OwnerSteps
      BY TwoFacts DEF Facts
    <2> QED
      BY <1>8, <2>1, <2>2
  <1>10. CASE SetSendFlagFalse(t)
    <2>1. pc[t] = "sendFree" /\ Goto(t, "sendPost")
      BY <1>10 DEF SetSendFlagFalse
    <2>2. /\ "sendFree" \in FlagSteps /\ "sendFree" \in BoundSteps
          /\ "sendPost" \notin FlagSteps /\ "sendPost" \notin RecvSteps
          /\ Weight("sendPost") = Weight("sendFree")
          /\ "sendFree" \notin OwnerSteps /\ "sendPost" \notin OwnerSteps
      BY TwoFacts DEF Facts
    <2> QED
      BY <1>8, <2>1, <2>2
  <1> QED
    BY <1>7, <1>9, <1>10

(* WSASend and WSARecv: the operation takes over what the thread held.      *)
LEMMA PostSendKeeps ==
  ASSUME Inv, TypeOK', KernelMatchesMode, NEW t \in Threads, SendPostWSASend(t)
  PROVE  Inv'
  <1>1. PICK x \in Slots : Idx(t) = x
    BY DEF SendPostWSASend, Inv, TypeOK
  <1>2. pc[t] = "wsaSend" /\ UNCHANGED <<IOcount, unique, freeIdx, signs, recvIO, isSending>>
    BY DEF SendPostWSASend, slotVars, sendVars, arrayVars
  <1>3. sendIO \in [Slots -> SendStates] /\ pc \in [Threads -> Steps]
        /\ session \in [Threads -> MaybeIDs]
    BY DEF Inv, TypeOK
  <1>4. /\ Weight("wsaSend") = 2 /\ Weight("idle") = 0 /\ Weight("sendPending") = 1
        /\ Weight("cancel2") = 2
        /\ "wsaSend" \in FlagSteps /\ "wsaSend" \in BoundSteps /\ "wsaSend" \in AliveSteps
        /\ "wsaSend" \notin OwnerSteps
        /\ NoNewPart("wsaSend", "idle") /\ NoNewPart("wsaSend", "sendPending")
        /\ NoNewPart("wsaSend", "cancel2")
        /\ "idle" \notin FlagSteps /\ "sendPending" \notin FlagSteps
        /\ "idle" \notin BoundSteps
    BY ZeroFacts, OneFacts, TwoFacts DEF Facts, NoNewPart
  <1>5. /\ ~isDead(x) /\ unique[x] = session[t].unique
    BY <1>1, <1>2, <1>4 DEF Inv, ReferencedIsAlive, Idx
  <1>6. t \in FlagHolders(x)
    BY <1>1, <1>2, <1>4 DEF FlagHolders
  <1>7. sendIO[x] = "none" /\ isSending[x]
    BY <1>6 DEF Inv, OneSendAtATime
  <1>8. ASSUME NEW b \in {"idle", "sendPending"}, NEW result \in SendStates \ {"none"},
               sendIO' = [sendIO EXCEPT ![x] = result], Moved(t, x, "wsaSend", b),
               b = "idle" \/ UNCHANGED session,
               Weight(b) + SendRefs(x)' = 2
        PROVE  Inv'
    <2>1. /\ \A s \in Slots \ {x} : sendIO'[s] = sendIO[s]
          /\ sendIO'[x] = result
      BY <1>3, <1>8
    <2>2. \A s \in Slots \ {x} : Other(s)' = Other(s)
      BY <1>2, <2>1 DEF Other, SignRefs, SignHolders, RecvRefs, SendRefs
    <2>3. Weight(b) + Other(x)' = Weight("wsaSend") + Other(x)
      <3>1. SendRefs(x) = 0
        BY <1>7 DEF SendRefs
      <3>2. SignRefs(x)' = SignRefs(x) /\ RecvRefs(x)' = RecvRefs(x)
        BY <1>2 DEF SignRefs, SignHolders, RecvRefs
      <3>3. /\ SignRefs(x) \in Int /\ RecvRefs(x) \in Int /\ SendRefs(x)' \in Int
            /\ Weight(b) \in Int
        BY OtherParts DEF Weight
      <3> DEFINE w == Weight(b)
                 o == SignRefs(x)
                 r == RecvRefs(x)
                 n == SendRefs(x)'
      <3>4. Other(x)' = o + r + n /\ Other(x) = o + r + 0
        BY <3>1, <3>2 DEF Other
      <3>5. w \in Int /\ o \in Int /\ r \in Int /\ n \in Int /\ w + n = 2
        BY <1>8, <3>3
      <3> HIDE DEF w, o, r, n
      <3>6. w + (o + r + n) = 2 + (o + r + 0)
        BY <3>5
      <3> QED
        BY <1>4, <3>4, <3>6 DEF w
    <2>4. b \in AliveSteps => ~isDead(x)
      BY <1>5
    <2>5. b \in BoundSteps \union {"online"} => unique[x] = session'[t].unique
      BY <1>4, <1>5, <1>8
    <2>6. \A s \in Slots : recvIO'[s] # "none" \/ sendIO'[s] # "none" =>
                             (recvIO[s] # "none" \/ sendIO[s] # "none"
                               \/ (s = x /\ ~isDead(x)))
      BY <1>2, <1>5, <2>1
    <2>7. "wsaSend" \notin OwnerSteps /\ b \notin OwnerSteps
      BY <1>4 DEF NoNewPart
    <2>8. /\ CountMatchesReferences' /\ DeadSlotHasOneOwner'
          /\ ReferencedIsAlive' /\ OnlineIsBound'
      BY <1>2, <1>8, <2>2, <2>3, <2>4, <2>5, <2>6, <2>7, PassStep
    <2>9. OneSendAtATime'
      BY <1>2, <1>4, <1>7, <1>8, <2>1, FlagLeaves DEF Inv
    <2>10. OneRecvAtATime'
      BY <1>2, <1>4, <1>8, RecvStepKeeps DEF Inv, NoNewPart
    <2> QED
      BY <2>8, <2>9, <2>10 DEF Inv
  <1>9. CASE SendsCompleteAtOnce /\ sendIO' = [sendIO EXCEPT ![Idx(t)] = "sent"] /\ Return(t)
    <2>1. Moved(t, x, "wsaSend", "idle")
      BY <1>1, <1>2, <1>3, <1>9 DEF Return, Moved, Goto, Idx
    <2>2. ~isSendIOPending
      BY <1>9 DEF KernelMatchesMode
    <2>3. SendRefs(x)' = 2
      BY <1>1, <1>3, <1>9, <2>2 DEF SendRefs
    <2>4. /\ "idle" \in {"idle", "sendPending"} /\ "sent" \in SendStates \ {"none"}
          /\ sendIO' = [sendIO EXCEPT ![x] = "sent"]
      BY <1>1, <1>9 DEF SendStates
    <2>5. Weight("idle") + SendRefs(x)' = 2
      BY <1>4, <2>3
    <2> QED
      BY <1>8, <2>1, <2>4, <2>5
  <1>10. CASE /\ sendIO' = [sendIO EXCEPT ![Idx(t)] = "pending"]
              /\ Goto(t, "sendPending") /\ UNCHANGED session
    <2>1. Moved(t, x, "wsaSend", "sendPending")
      BY <1>1, <1>2, <1>3, <1>10 DEF Moved, Goto, Idx
    <2>2. SendRefs(x)' = 1
      BY <1>1, <1>3, <1>10 DEF SendRefs
    <2>3. /\ "sendPending" \in {"idle", "sendPending"}
          /\ "pending" \in SendStates \ {"none"}
          /\ sendIO' = [sendIO EXCEPT ![x] = "pending"]
      BY <1>1, <1>10 DEF SendStates
    <2>4. Weight("sendPending") + SendRefs(x)' = 2
      BY <1>4, <2>2
    <2> QED
      BY <1>8, <1>10, <2>1, <2>3, <2>4
  <1>11. CASE Goto(t, "cancel2") /\ UNCHANGED <<sendIO, session>>
    <2>1. NothingShared
      BY <1>2, <1>11 DEF NothingShared
    <2> QED
      BY <1>2, <1>4, <1>11, <2>1, PlainStep
  <1> QED
    BY <1>9, <1>10, <1>11 DEF SendPostWSASend

LEMMA PostRecvKeeps ==
  ASSUME Inv, TypeOK', NEW t \in Threads, RecvPostWSARecv(t)
  PROVE  Inv'
  <1>1. PICK x \in Slots : Idx(t) = x
    BY DEF RecvPostWSARecv, Inv, TypeOK
  <1>2. /\ pc[t] = "wsaRecv"
        /\ UNCHANGED <<IOcount, unique, freeIdx, signs, sendIO, isSending, session>>
    BY DEF RecvPostWSARecv, slotVars, sendVars, arrayVars
  <1>3. recvIO \in [Slots -> RecvStates] /\ pc \in [Threads -> Steps]
    BY DEF Inv, TypeOK
  <1>4. /\ Weight("wsaRecv") = 2 /\ Weight("drop1") = 1 /\ Weight("recvPending") = 1
        /\ Weight("cancel2") = 2
        /\ "wsaRecv" \in RecvSteps /\ "wsaRecv" \in BoundSteps /\ "wsaRecv" \in AliveSteps
        /\ "wsaRecv" \notin OwnerSteps
        /\ NoNewPart("wsaRecv", "drop1") /\ NoNewPart("wsaRecv", "recvPending")
        /\ NoNewPart("wsaRecv", "cancel2")
        /\ "drop1" \notin RecvSteps /\ "recvPending" \notin RecvSteps
    BY OneFacts, TwoFacts DEF Facts, NoNewPart
  <1>5. /\ ~isDead(x) /\ unique[x] = session[t].unique
    BY <1>1, <1>2, <1>4 DEF Inv, ReferencedIsAlive, Idx
  <1>6. t \in Receivers(x)
    BY <1>1, <1>2, <1>4 DEF Receivers
  <1>7. recvIO[x] = "none"
    BY <1>6 DEF Inv, OneRecvAtATime
  <1>8. ASSUME NEW b \in {"drop1", "recvPending"}, NEW result \in {"data", "closed", "pending"},
               recvIO' = [recvIO EXCEPT ![x] = result], Goto(t, b)
        PROVE  Inv'
    <2>0. Moved(t, x, "wsaRecv", b)
      BY <1>1, <1>2, <1>3, <1>8 DEF Moved, Goto, Idx
    <2>1. /\ \A s \in Slots \ {x} : recvIO'[s] = recvIO[s]
          /\ recvIO'[x] = result
      BY <1>3, <1>8
    <2>2. \A s \in Slots \ {x} : Other(s)' = Other(s)
      BY <1>2, <2>1 DEF Other, SignRefs, SignHolders, RecvRefs, SendRefs
    <2>3. Weight(b) + Other(x)' = Weight("wsaRecv") + Other(x)
      <3>1. RecvRefs(x) = 0 /\ RecvRefs(x)' = 1
        BY <1>7, <2>1 DEF RecvRefs
      <3>2. SignRefs(x)' = SignRefs(x) /\ SendRefs(x)' = SendRefs(x)
        BY <1>2 DEF SignRefs, SignHolders, SendRefs
      <3>3. SignRefs(x) \in Int /\ SendRefs(x) \in Int
        BY OtherParts
      <3> DEFINE o == SignRefs(x)
                 n == SendRefs(x)
      <3>4. Other(x)' = o + 1 + n /\ Other(x) = o + 0 + n
        BY <3>1, <3>2 DEF Other
      <3>5. o \in Int /\ n \in Int
        BY <3>3
      <3> HIDE DEF o, n
      <3>6. 1 + (o + 1 + n) = 2 + (o + 0 + n)
        BY <3>5
      <3> QED
        BY <1>4, <3>4, <3>6
    <2>4. b \in AliveSteps => ~isDead(x)
      BY <1>5
    <2>5. b \in BoundSteps \union {"online"} => unique[x] = session'[t].unique
      BY <1>2, <1>5
    <2>6. \A s \in Slots : recvIO'[s] # "none" \/ sendIO'[s] # "none" =>
                             (recvIO[s] # "none" \/ sendIO[s] # "none"
                               \/ (s = x /\ ~isDead(x)))
      BY <1>2, <1>5, <2>1
    <2>7. "wsaRecv" \notin OwnerSteps /\ b \notin OwnerSteps
      BY <1>4 DEF NoNewPart
    <2>8. /\ CountMatchesReferences' /\ DeadSlotHasOneOwner'
          /\ ReferencedIsAlive' /\ OnlineIsBound'
      BY <1>2, <2>0, <2>2, <2>3, <2>4, <2>5, <2>6, <2>7, PassStep
    <2>9. OneSendAtATime'
      BY <1>2, <1>4, <2>0, SendStepKeeps DEF Inv, NoNewPart
    <2>10. OneRecvAtATime'
      BY <1>4, <2>0, <2>1, RecvLeaves DEF Inv
    <2> QED
      BY <2>8, <2>9, <2>10 DEF Inv
  <1>9. CASE Goto(t, "cancel2") /\ UNCHANGED recvIO
    <2>1. NothingShared
      BY <1>2, <1>9 DEF NothingShared
    <2> QED
      BY <1>2, <1>4, <1>9, <2>1, PlainStep
  <1> QED
    BY <1>1, <1>8, <1>9 DEF RecvPostWSARecv

(* A posted send sign counts for two.                                       *)
LEMMA SignPosted ==
  ASSUME TypeOK, NEW x \in Slots, NEW g \in Signs, NEW id, id.index = x,
         signs[g] = NoSession, signs' = [signs EXCEPT ![g] = id]
  PROVE  /\ SignRefs(x)' = SignRefs(x) + 2
         /\ \A s \in Slots \ {x} : SignRefs(s)' = SignRefs(s)
  <1>1. signs \in [Signs -> MaybeIDs] /\ 0 \notin Slots
    BY DEF TypeOK, Slots
  <1>2. g \notin SignHolders(x) /\ \A s \in Slots : g \notin SignHolders(s)
    BY <1>1 DEF SignHolders, NoSession
  <1>3. SignHolders(x)' = SignHolders(x) \union {g}
    BY <1>1 DEF SignHolders
  <1>4. \A s \in Slots \ {x} : SignHolders(s)' = SignHolders(s)
    BY <1>1, <1>2 DEF SignHolders
  <1>5. SignHolders(x) \in SUBSET Signs
    BY DEF SignHolders
  <1>6. IsFiniteSet(SignHolders(x)) /\ Cardinality(SignHolders(x)) \in Nat
    BY <1>5, ThreadsAssumption, FS_Subset, FS_CardinalityType
  <1>7. Cardinality(SignHolders(x)') = Cardinality(SignHolders(x)) + 1
    BY <1>2, <1>3, <1>6, FS_AddElement
  <1> QED
    BY <1>4, <1>6, <1>7 DEF SignRefs

LEMMA SignTaken ==
  ASSUME TypeOK, NEW x \in Slots, NEW g \in Signs, signs[g].index = x,
         signs' = [signs EXCEPT ![g] = NoSession]
  PROVE  /\ SignRefs(x) = SignRefs(x)' + 2
         /\ \A s \in Slots \ {x} : SignRefs(s)' = SignRefs(s)
  <1>1. signs \in [Signs -> MaybeIDs] /\ 0 \notin Slots
    BY DEF TypeOK, Slots
  <1>2. g \in SignHolders(x)
    BY DEF SignHolders
  <1>3. SignHolders(x)' = SignHolders(x) \ {g}
    BY <1>1 DEF SignHolders, NoSession
  <1>4. \A s \in Slots \ {x} : SignHolders(s)' = SignHolders(s)
    BY <1>1 DEF SignHolders, NoSession
  <1>5. SignHolders(x) \in SUBSET Signs
    BY DEF SignHolders
  <1>6. IsFiniteSet(SignHolders(x)) /\ Cardinality(SignHolders(x)) \in Nat
    BY <1>5, ThreadsAssumption, FS_Subset, FS_CardinalityType
  <1>7. Cardinality(SignHolders(x)') = Cardinality(SignHolders(x)) - 1
    BY <1>2, <1>3, <1>6, FS_RemoveElement
  <1> QED
    BY <1>4, <1>6, <1>7 DEF SignRefs

LEMMA AsyncSendKeeps ==
  ASSUME Inv, TypeOK', NEW t \in Threads, AsyncSendPacket(t)
  PROVE  Inv'
  <1>1. PICK x \in Slots : Idx(t) = x
    BY DEF AsyncSendPacket, Inv, TypeOK
  <1>2. /\ pc[t] = "sign"
        /\ UNCHANGED <<IOcount, unique, freeIdx, recvIO, sendIO, isSending>>
    BY DEF AsyncSendPacket, slotVars, ioVars, sendVars, arrayVars
  <1>3. /\ signs \in [Signs -> MaybeIDs] /\ pc \in [Threads -> Steps]
        /\ session \in [Threads -> MaybeIDs]
    BY DEF Inv, TypeOK
  <1>4. /\ Weight("sign") = 2 /\ Weight("idle") = 0 /\ Weight("drop2") = 2
        /\ "sign" \in BoundSteps /\ "sign" \notin OwnerSteps
        /\ NoNewPart("sign", "idle") /\ NoNewPart("sign", "drop2")
        /\ "idle" \notin BoundSteps /\ "idle" \notin AliveSteps
        /\ "idle" \notin OwnerSteps /\ "idle" \notin FlagSteps /\ "idle" \notin RecvSteps
    BY ZeroFacts, TwoFacts DEF Facts, NoNewPart
  <1>5. CASE Goto(t, "drop2") /\ UNCHANGED <<signs, session>>
    <2>1. NothingShared
      BY <1>2, <1>5 DEF NothingShared
    <2> QED
      BY <1>2, <1>4, <1>5, <2>1, PlainStep
  <1>6. ASSUME NEW g \in Signs, signs[g] = NoSession,
               signs' = [signs EXCEPT ![g] = session[t]], Return(t)
        PROVE  Inv'
    <2>1. Moved(t, x, "sign", "idle")
      BY <1>1, <1>2, <1>3, <1>6 DEF Return, Moved, Goto, Idx
    <2>2. /\ SignRefs(x)' = SignRefs(x) + 2
          /\ \A s \in Slots \ {x} : SignRefs(s)' = SignRefs(s)
      BY <1>1, <1>6, SignPosted DEF Inv, Idx
    <2>3. \A s : RecvRefs(s)' = RecvRefs(s) /\ SendRefs(s)' = SendRefs(s)
      BY <1>2 DEF RecvRefs, SendRefs
    <2>4. \A s \in Slots \ {x} : Other(s)' = Other(s)
      BY <2>2, <2>3 DEF Other
    <2>5. Weight("idle") + Other(x)' = Weight("sign") + Other(x)
      <3> DEFINE o == SignRefs(x)
                 r == RecvRefs(x)
                 n == SendRefs(x)
      <3>1. Other(x)' = (o + 2) + r + n /\ Other(x) = o + r + n
        BY <2>2, <2>3 DEF Other
      <3>2. o \in Int /\ r \in Int /\ n \in Int
        BY OtherParts
      <3> HIDE DEF o, r, n
      <3>3. 0 + ((o + 2) + r + n) = 2 + (o + r + n)
        BY <3>2
      <3> QED
        BY <1>4, <3>1, <3>3
    <2>6. \A h \in Signs : \/ signs'[h] \in {signs[h], NoSession}
                           \/ signs'[h] = session[t] /\ "sign" \in BoundSteps
      BY <1>3, <1>4, <1>6
    <2>7. \A s \in Slots : recvIO'[s] # "none" \/ sendIO'[s] # "none" =>
                             (recvIO[s] # "none" \/ sendIO[s] # "none"
                               \/ (s = x /\ ~isDead(x)))
      BY <1>2
    <2>8. "idle" \notin BoundSteps \union {"online"}
      BY <1>4
    <2>9. /\ CountMatchesReferences' /\ DeadSlotHasOneOwner'
          /\ ReferencedIsAlive' /\ OnlineIsBound'
      BY <1>2, <1>4, <2>1, <2>4, <2>5, <2>6, <2>7, <2>8, PassStep
    <2>10. OneSendAtATime'
      BY <1>2, <1>4, <2>1, SendStepKeeps DEF Inv
    <2>11. OneRecvAtATime'
      BY <1>2, <1>4, <2>1, RecvStepKeeps DEF Inv
    <2> QED
      BY <2>9, <2>10, <2>11 DEF Inv
  <1> QED
    BY <1>5, <1>6 DEF AsyncSendPacket

LEMMA SendSignKeeps ==
  ASSUME Inv, TypeOK', NEW t \in Threads, NEW g \in Signs, SendSign(t, g)
  PROVE  Inv'
  <1>1. signs[g] # NoSession
    BY DEF SendSign
  <1>2. PICK x \in Slots : signs[g].index = x
    BY <1>1 DEF Inv, TypeOK
  <1>3. /\ pc[t] = "idle"
        /\ UNCHANGED <<IOcount, unique, freeIdx, recvIO, sendIO, isSending>>
        /\ signs' = [signs EXCEPT ![g] = NoSession]
        /\ session' = [session EXCEPT ![t] = signs[g]]
    BY DEF SendSign, slotVars, ioVars, sendVars, arrayVars
  <1>4. /\ signs \in [Signs -> MaybeIDs] /\ pc \in [Threads -> Steps]
        /\ session \in [Threads -> MaybeIDs]
    BY DEF Inv, TypeOK
  <1>5. /\ Weight("sendPost") = 2 /\ Weight("idle") = 0
        /\ "sendPost" \notin OwnerSteps /\ "sendPost" \notin FlagSteps
        /\ "sendPost" \notin RecvSteps /\ "idle" \notin OwnerSteps
    BY ZeroFacts, TwoFacts DEF Facts
  <1>6. Moved(t, x, "idle", "sendPost")
    BY <1>2, <1>3, <1>4 DEF SendSign, Moved, Goto
  <1>7. ~isDead(x) /\ unique[x] = session'[t].unique
    BY <1>1, <1>2, <1>3, <1>4 DEF Inv, ReferencedIsAlive
  <1>8. /\ SignRefs(x) = SignRefs(x)' + 2
        /\ \A s \in Slots \ {x} : SignRefs(s)' = SignRefs(s)
    BY <1>2, <1>3, SignTaken DEF Inv
  <1>9. \A s : RecvRefs(s)' = RecvRefs(s) /\ SendRefs(s)' = SendRefs(s)
    BY <1>3 DEF RecvRefs, SendRefs
  <1>10. \A s \in Slots \ {x} : Other(s)' = Other(s)
    BY <1>8, <1>9 DEF Other
  <1>11. Weight("sendPost") + Other(x)' = Weight("idle") + Other(x)
    <2> DEFINE o == SignRefs(x)'
               r == RecvRefs(x)
               n == SendRefs(x)
    <2>1. Other(x)' = o + r + n /\ Other(x) = (o + 2) + r + n
      BY <1>8, <1>9 DEF Other
    <2>2. o \in Int /\ r \in Int /\ n \in Int
      BY OtherParts
    <2> HIDE DEF o, r, n
    <2>3. 2 + (o + r + n) = 0 + ((o + 2) + r + n)
      BY <2>2
    <2> QED
      BY <1>5, <2>1, <2>3
  <1>12. \A h \in Signs : signs'[h] \in {signs[h], NoSession}
    BY <1>3, <1>4
  <1>13. \A s \in Slots : recvIO'[s] # "none" \/ sendIO'[s] # "none" =>
                            (recvIO[s] # "none" \/ sendIO[s] # "none"
                              \/ (s = x /\ ~isDead(x)))
    BY <1>3
  <1>14. /\ CountMatchesReferences' /\ DeadSlotHasOneOwner'
         /\ ReferencedIsAlive' /\ OnlineIsBound'
    BY <1>3, <1>5, <1>6, <1>7, <1>10, <1>11, <1>12, <1>13, PassStep
  <1>15. OneSendAtATime'
    BY <1>3, <1>5, <1>6, SendStepKeeps DEF Inv
  <1>16. OneRecvAtATime'
    BY <1>3, <1>5, <1>6, RecvStepKeeps DEF Inv
  <1> QED
    BY <1>14, <1>15, <1>16 DEF Inv

(* A completion is dequeued: the thread takes over what the operation held. *)
LEMMA DequeueRecvKeeps ==
  ASSUME Inv, TypeOK', NEW t \in Threads, NEW x \in Slots, DequeueRecv(t, x)
  PROVE  Inv'
  <1>1. /\ pc[t] = "idle" /\ recvIO[x] \in {"data", "closed", "aborted"}
        /\ UNCHANGED <<IOcount, unique, freeIdx, signs, sendIO, isSending>>
        /\ recvIO' = [recvIO EXCEPT ![x] = "none"]
        /\ session' = [session EXCEPT ![t] = [index |-> x, unique |-> unique[x]]]
    BY DEF DequeueRecv, slotVars, sendVars, arrayVars
  <1>2. /\ recvIO \in [Slots -> RecvStates] /\ pc \in [Threads -> Steps]
        /\ session \in [Threads -> MaybeIDs]
    BY DEF Inv, TypeOK
  <1>3. PICK b \in {"recvd", "cancel1", "aborted"} : Goto(t, b)
    BY <1>1 DEF DequeueRecv
  <1>4. /\ Weight(b) = 1 /\ Weight("idle") = 0
        /\ b \notin OwnerSteps /\ b \notin FlagSteps /\ "idle" \notin OwnerSteps
    BY <1>3, ZeroFacts, OneFacts DEF Facts
  <1>5. Moved(t, x, "idle", b)
    BY <1>1, <1>2, <1>3 DEF Moved, Goto
  <1>6. ~isDead(x) /\ unique[x] = session'[t].unique
    BY <1>1, <1>2 DEF Inv, ReferencedIsAlive
  <1>7. /\ \A s \in Slots \ {x} : recvIO'[s] = recvIO[s]
        /\ recvIO'[x] = "none"
    BY <1>1, <1>2
  <1>8. \A s \in Slots \ {x} : Other(s)' = Other(s)
    BY <1>1, <1>7 DEF Other, SignRefs, SignHolders, RecvRefs, SendRefs
  <1>9. Weight(b) + Other(x)' = Weight("idle") + Other(x)
    <2>1. RecvRefs(x) = 1 /\ RecvRefs(x)' = 0
      BY <1>1, <1>7 DEF RecvRefs
    <2>2. SignRefs(x)' = SignRefs(x) /\ SendRefs(x)' = SendRefs(x)
      BY <1>1 DEF SignRefs, SignHolders, SendRefs
    <2> DEFINE o == SignRefs(x)
               n == SendRefs(x)
    <2>3. Other(x)' = o + 0 + n /\ Other(x) = o + 1 + n
      BY <2>1, <2>2 DEF Other
    <2>4. o \in Int /\ n \in Int
      BY OtherParts
    <2> HIDE DEF o, n
    <2>5. 1 + (o + 0 + n) = 0 + (o + 1 + n)
      BY <2>4
    <2> QED
      BY <1>4, <2>3, <2>5
  <1>10. \A s \in Slots : recvIO'[s] # "none" \/ sendIO'[s] # "none" =>
                            (recvIO[s] # "none" \/ sendIO[s] # "none"
                              \/ (s = x /\ ~isDead(x)))
    BY <1>1, <1>7
  <1>11. \A g \in Signs : signs'[g] \in {signs[g], NoSession}
    BY <1>1
  <1>12. /\ CountMatchesReferences' /\ DeadSlotHasOneOwner'
         /\ ReferencedIsAlive' /\ OnlineIsBound'
    BY <1>1, <1>4, <1>5, <1>6, <1>8, <1>9, <1>10, <1>11, PassStep
  <1>13. OneSendAtATime'
    BY <1>1, <1>4, <1>5, SendStepKeeps DEF Inv
  <1>14. Receivers(x) = {}
    BY <1>1 DEF Inv, OneRecvAtATime
  <1>15. OneRecvAtATime'
    BY <1>5, <1>7, <1>14, RecvEnters DEF Inv
  <1> QED
    BY <1>12, <1>13, <1>15 DEF Inv

LEMMA DequeueSendKeeps ==
  ASSUME Inv, TypeOK', NEW t \in Threads, NEW x \in Slots, DequeueSend(t, x)
  PROVE  Inv'
  <1>1. /\ pc[t] = "idle" /\ sendIO[x] \in {"sent", "closed", "aborted"}
        /\ UNCHANGED <<IOcount, unique, freeIdx, signs, recvIO, isSending>>
        /\ sendIO' = [sendIO EXCEPT ![x] = "none"]
        /\ session' = [session EXCEPT ![t] = [index |-> x, unique |-> unique[x]]]
    BY DEF DequeueSend, slotVars, sendVars, arrayVars
  <1>2. /\ sendIO \in [Slots -> SendStates] /\ pc \in [Threads -> Steps]
        /\ session \in [Threads -> MaybeIDs]
    BY DEF Inv, TypeOK
  <1>3. PICK b \in {"sendDone", "cancel1", "aborted"} :
          Goto(t, b) /\ (b = "sendDone" <=> sendIO[x] = "sent")
    BY <1>1 DEF DequeueSend
  <1>4. /\ b \notin OwnerSteps /\ "idle" \notin OwnerSteps
        /\ b \notin RecvSteps /\ "idle" \notin RecvSteps
        /\ b \in FlagSteps <=> b = "sendDone"
    BY <1>3, ZeroFacts, OneFacts, TwoFacts DEF Facts
  <1>5. Weight("idle") = 0 /\ Weight(b) = SendRefs(x)
    <2>1. /\ Weight("idle") = 0 /\ Weight("cancel1") = 1 /\ Weight("aborted") = 1
          /\ Weight("sendDone") = IF isSendIOPending THEN 1 ELSE 2
      BY ZeroFacts, OneFacts, TwoFacts DEF Facts
    <2>2. SendRefs(x) = IF sendIO[x] = "sent" /\ ~isSendIOPending THEN 2 ELSE 1
      BY <1>1 DEF SendRefs
    <2>3. CASE b = "sendDone"
      BY <1>3, <2>1, <2>2, <2>3, ModesAssumption
    <2>4. CASE b # "sendDone"
      BY <1>3, <2>1, <2>2, <2>4
    <2> QED
      BY <2>1, <2>3, <2>4
  <1>6. Moved(t, x, "idle", b)
    BY <1>1, <1>2, <1>3 DEF Moved, Goto
  <1>7. ~isDead(x) /\ unique[x] = session'[t].unique
    BY <1>1, <1>2 DEF Inv, ReferencedIsAlive
  <1>8. /\ \A s \in Slots \ {x} : sendIO'[s] = sendIO[s]
        /\ sendIO'[x] = "none"
    BY <1>1, <1>2
  <1>9. \A s \in Slots \ {x} : Other(s)' = Other(s)
    BY <1>1, <1>8 DEF Other, SignRefs, SignHolders, RecvRefs, SendRefs
  <1>10. Weight(b) + Other(x)' = Weight("idle") + Other(x)
    <2>1. SendRefs(x)' = 0
      BY <1>8 DEF SendRefs
    <2>2. SignRefs(x)' = SignRefs(x) /\ RecvRefs(x)' = RecvRefs(x)
      BY <1>1 DEF SignRefs, SignHolders, RecvRefs
    <2> DEFINE o == SignRefs(x)
               r == RecvRefs(x)
               n == SendRefs(x)
    <2>3. Other(x)' = o + r + 0 /\ Other(x) = o + r + n
      BY <2>1, <2>2 DEF Other
    <2>4. o \in Int /\ r \in Int /\ n \in Int /\ Weight(b) = n
      BY <1>5, OtherParts
    <2> HIDE DEF o, r, n
    <2>5. n + (o + r + 0) = 0 + (o + r + n)
      BY <2>4
    <2> QED
      BY <1>5, <2>3, <2>4, <2>5
  <1>11. \A s \in Slots : recvIO'[s] # "none" \/ sendIO'[s] # "none" =>
                            (recvIO[s] # "none" \/ sendIO[s] # "none"
                              \/ (s = x /\ ~isDead(x)))
    BY <1>1, <1>8
  <1>12. \A g \in Signs : signs'[g] \in {signs[g], NoSession}
    BY <1>1
  <1>13. /\ CountMatchesReferences' /\ DeadSlotHasOneOwner'
         /\ ReferencedIsAlive' /\ OnlineIsBound'
    BY <1>1, <1>4, <1>6, <1>7, <1>9, <1>10, <1>11, <1>12, PassStep
  <1>14. FlagHolders(x) = {} /\ isSending[x]
    BY <1>1 DEF Inv, OneSendAtATime
  <1>15. OneSendAtATime'
    <2>1. isSending'[x]
      BY <1>1, <1>14
    <2>2. \A s \in Slots \ {x} : isSending'[s] = isSending[s] /\ sendIO'[s] = sendIO[s]
      BY <1>1, <1>8
    <2>3. CASE b \in FlagSteps
      BY <1>6, <1>8, <1>14, <2>1, <2>2, <2>3, FlagEnters DEF Inv
    <2>4. CASE b \notin FlagSteps
      BY <1>6, <1>8, <1>14, <2>1, <2>2, <2>4, FlagLeaves DEF Inv
    <2> QED
      BY <2>3, <2>4
  <1>16. OneRecvAtATime'
    BY <1>1, <1>4, <1>6, RecvStepKeeps DEF Inv
  <1> QED
    BY <1>13, <1>15, <1>16 DEF Inv

(* No thread moves and every operation counts for what it did.              *)
LEMMA StillStep ==
  ASSUME Inv, TypeOK',
         UNCHANGED <<IOcount, unique, freeIdx, signs, isSending, pc, session>>,
         \A s \in Slots : RecvRefs(s)' = RecvRefs(s) /\ SendRefs(s)' = SendRefs(s)
  PROVE  Inv'
  <1>1. \A s \in Slots : /\ recvIO'[s] # "none" <=> recvIO[s] # "none"
                         /\ sendIO'[s] # "none" <=> sendIO[s] # "none"
    BY DEF RecvRefs, SendRefs
  <1>2. \A s \in Slots : References(s)' = References(s)
    BY DEF References, ThreadRefs, OneHolders, TwoHolders, Idx, SignRefs, SignHolders
  <1>3. CountMatchesReferences'
    BY <1>2 DEF Inv, CountMatchesReferences, ClearFlag
  <1>4. ReferencedIsAlive' /\ OnlineIsBound'
    BY <1>1 DEF Inv, ReferencedIsAlive, OnlineIsBound, isDead, Idx
  <1>5. DeadSlotHasOneOwner'
    BY DEF Inv, DeadSlotHasOneOwner, Owners, isDead, Idx
  <1>6. OneSendAtATime'
    BY <1>1 DEF Inv, OneSendAtATime, FlagHolders, Idx
  <1>7. OneRecvAtATime'
    BY <1>1 DEF Inv, OneRecvAtATime, Receivers, Idx
  <1> QED
    BY <1>3, <1>4, <1>5, <1>6, <1>7 DEF Inv

LEMMA KernelKeeps ==
  ASSUME Inv, TypeOK', KernelMatchesMode,
         \/ \E s \in Slots : KernelRecv(s) \/ KernelSend(s)
         \/ \E t \in Workers, u \in Uniques : ClientLeavePosted(t, u)
         \/ UNCHANGED vars
  PROVE  Inv'
  <1>1. recvIO \in [Slots -> RecvStates] /\ sendIO \in [Slots -> SendStates]
    BY DEF Inv, TypeOK
  <1>2. ASSUME NEW x \in Slots, KernelRecv(x)
        PROVE  Inv'
    <2>1. UNCHANGED <<IOcount, unique, freeIdx, signs, isSending, pc, session>>
      BY <1>2 DEF KernelRecv, slotVars, sendVars, arrayVars
    <2>2. \A s \in Slots : RecvRefs(s)' = RecvRefs(s) /\ SendRefs(s)' = SendRefs(s)
      BY <1>1, <1>2 DEF KernelRecv, RecvRefs, SendRefs
    <2> QED
      BY <2>1, <2>2, StillStep
  <1>3. ASSUME NEW x \in Slots, KernelSend(x)
        PROVE  Inv'
    <2>1. UNCHANGED <<IOcount, unique, freeIdx, signs, isSending, pc, session>>
      BY <1>3 DEF KernelSend, slotVars, sendVars, arrayVars
    <2>2. PendingSendsSucceed => isSendIOPending
      BY DEF KernelMatchesMode
    <2>3. \A s \in Slots : RecvRefs(s)' = RecvRefs(s) /\ SendRefs(s)' = SendRefs(s)
      BY <1>1, <1>3, <2>2 DEF KernelSend, RecvRefs, SendRefs
    <2> QED
      BY <2>1, <2>3, StillStep
  <1>4. ASSUME NEW t \in Workers, NEW u \in Uniques, ClientLeavePosted(t, u)
        PROVE  Inv'
    <2>1. UNCHANGED <<IOcount, unique, freeIdx, signs, isSending, pc, session>>
      BY <1>4 DEF ClientLeavePosted, slotVars, sendVars, arrayVars
    <2>2. \A s \in Slots : RecvRefs(s)' = RecvRefs(s) /\ SendRefs(s)' = SendRefs(s)
      BY <1>4 DEF ClientLeavePosted, ioVars, RecvRefs, SendRefs
    <2> QED
      BY <2>1, <2>2, StillStep
  <1>5. CASE UNCHANGED vars
    <2>1. UNCHANGED <<IOcount, unique, freeIdx, signs, isSending, pc, session>>
      BY <1>5 DEF vars, slotVars, sendVars, arrayVars
    <2>2. \A s \in Slots : RecvRefs(s)' = RecvRefs(s) /\ SendRefs(s)' = SendRefs(s)
      BY <1>5 DEF vars, ioVars, RecvRefs, SendRefs
    <2> QED
      BY <2>1, <2>2, StillStep
  <1> QED
    BY <1>2, <1>3, <1>4, <1>5

LEMMA FindSessionKeeps ==
  ASSUME Inv, TypeOK', NEW t \in Threads, NEW id \in SessionIDs, NEW n \in {1, 2},
         FindSession(t, id, n)
  PROVE  Inv'
  <1>1. PICK x \in Slots : id.index = x
    BY DEF SessionIDs
  <1>2. /\ pc[t] = "idle" /\ Add(x, n)
        /\ session' = [session EXCEPT ![t] = id]
        /\ UNCHANGED <<unique, isSending, signs, freeIdx>>
    BY <1>1 DEF FindSession, sendVars, arrayVars
  <1>3. \A s \in Slots : RecvRefs(s)' = RecvRefs(s) /\ SendRefs(s)' = SendRefs(s)
    BY DEF FindSession, ioVars, RecvRefs, SendRefs
  <1>4. /\ pc \in [Threads -> Steps] /\ session \in [Threads -> MaybeIDs]
    BY DEF Inv, TypeOK
  <1>5. ASSUME NEW b \in {"dead1", "dead2"}, Goto(t, b), Weight(b) = n
        PROVE  Inv'
    <2>1. Moved(t, x, "idle", b)
      BY <1>1, <1>2, <1>4, <1>5 DEF Moved, Goto
    <2>2. /\ b \notin AliveSteps /\ b \notin BoundSteps \union {"online"}
          /\ b \notin OwnerSteps /\ "idle" \notin OwnerSteps
          /\ b \notin FlagSteps /\ b \notin RecvSteps
      BY <1>5, ZeroFacts, OneFacts, TwoFacts DEF Facts
    <2>3. Weight(b) = Weight("idle") + n
      BY <1>5, ZeroFacts DEF Facts
    <2> QED
      BY <1>2, <1>3, <2>1, <2>2, <2>3, QuietStep
  <1>6. Weight("dead1") = 1 /\ Weight("dead2") = 2
    BY OneFacts, TwoFacts DEF Facts
  <1>7. Goto(t, IF n = 1 THEN "dead1" ELSE "dead2")
    BY DEF FindSession
  <1>8. CASE n = 1
    BY <1>5, <1>6, <1>7, <1>8
  <1>9. CASE n = 2
    BY <1>5, <1>6, <1>7, <1>9
  <1> QED
    BY <1>8, <1>9

(* The thread that finds the count zero takes the slot out of use: nobody   *)
(* refers to it then, and nobody can have taken it out before.              *)
LEMMA SetDeleteFlagKeeps ==
  ASSUME Inv, TypeOK', NEW t \in Threads, SetDeleteFlag(t)
  PROVE  Inv'
  <1>1. PICK x \in Slots : Idx(t) = x
    BY DEF SetDeleteFlag, Inv, TypeOK
  <1>2. /\ pc[t] = "cas"
        /\ UNCHANGED <<unique, isSending, signs, freeIdx, recvIO, sendIO>>
    BY DEF SetDeleteFlag, ioVars, sendVars, arrayVars
  <1>3. /\ pc \in [Threads -> Steps] /\ session \in [Threads -> MaybeIDs]
        /\ IOcount \in [Slots -> UShort]
    BY DEF Inv, TypeOK
  <1>4. /\ Weight("cas") = 0 /\ Weight("leave") = 0 /\ Weight("idle") = 0
        /\ "leave" \notin AliveSteps /\ "leave" \notin BoundSteps
        /\ "cas" \notin OwnerSteps /\ "leave" \in OwnerSteps
        /\ "leave" \notin FlagSteps /\ "leave" \notin RecvSteps
        /\ NoNewPart("cas", "idle")
    BY ZeroFacts DEF Facts, NoNewPart
  <1>5. CASE Return(t) /\ UNCHANGED IOcount
    <2>1. Goto(t, "idle") /\ \A u \in Threads \ {t} : session'[u] = session[u]
      BY <1>3, <1>5 DEF Return
    <2>2. Add(Idx(t), 0)
      BY <1>1, <1>5, SameCount DEF Inv
    <2>3. Weight("idle") = Weight("cas") + 0
      BY <1>4
    <2>4. \A s \in Slots : RecvRefs(s)' = RecvRefs(s) /\ SendRefs(s)' = SendRefs(s)
      BY <1>2 DEF RecvRefs, SendRefs
    <2> QED
      BY <1>2, <1>4, <2>1, <2>2, <2>3, <2>4, WalkStep DEF NoNewPart
  <1>6. CASE /\ IOcount[x] = 0 /\ IOcount' = [IOcount EXCEPT ![x] = DELETE_FLAG_BIT]
             /\ Goto(t, "leave") /\ UNCHANGED session
    <2>1. Moved(t, x, "cas", "leave")
      BY <1>1, <1>2, <1>3, <1>6 DEF Moved, Goto, Idx
    <2>2. /\ IOcount'[x] = DELETE_FLAG_BIT
          /\ \A s : s # x => IOcount'[s] = IOcount[s]
      BY <1>3, <1>6
    <2>3. ClearFlag(0) = 0 /\ ClearFlag(DELETE_FLAG_BIT) = 0 /\ ~(0 >= DELETE_FLAG_BIT)
      BY DEF ClearFlag, DELETE_FLAG_BIT
    <2>4. References(x) = 0
      BY <1>6, <2>3 DEF Inv, CountMatchesReferences
    <2>5. \A s \in Slots : References(s)' = References(s)
      <3>1. \A s : Other(s)' = Other(s) /\ Other(s) \in Nat
        BY <1>2, OtherType DEF Other, SignRefs, SignHolders, RecvRefs, SendRefs
      <3>2. \A s : s # x => ThreadRefs(s)' = ThreadRefs(s)
        BY <2>1, ThreadRefsStep
      <3>3. ThreadRefs(x)' = ThreadRefs(x)
        <4>1. ThreadRefs(x)' - Weight("leave") = ThreadRefs(x) - Weight("cas")
          BY <2>1, ThreadRefsStep
        <4>2. ThreadRefs(x) \in Nat /\ ThreadRefs(x)' \in Nat
          BY <2>1, ThreadRefsStep
        <4> QED
          BY <1>4, <4>1, <4>2
      <3> QED
        BY <3>1, <3>2, <3>3, OtherType, CountTypesNext
    <2>6. CountMatchesReferences'
      <3>1. \A s \in Slots : ClearFlag(IOcount'[s]) = References(s)'
        BY <2>2, <2>3, <2>4, <2>5 DEF Inv, CountMatchesReferences
      <3> QED
        BY <3>1 DEF CountMatchesReferences, ClearFlag
    <2>7. /\ \A u \in Threads : pc[u] \in AliveSteps => Idx(u) # x
          /\ recvIO[x] = "none" /\ sendIO[x] = "none"
          /\ \A g \in Signs : signs[g] # NoSession => signs[g].index # x
      BY <2>4, ZeroIsUnreferenced DEF Inv
    <2>8. ~isDead(x) /\ isDead(x)' /\ \A s \in Slots \ {x} : isDead(s)' <=> isDead(s)
      BY <1>6, <2>2, <2>3 DEF isDead, DELETE_FLAG_BIT
    <2>9. ReferencedIsAlive'
      <3>1. \A u \in Threads : pc'[u] \in AliveSteps => pc[u] \in AliveSteps /\ Idx(u) # x
        BY <1>4, <2>1, <2>7 DEF Moved
      <3>2. \A u \in Threads : pc'[u] \in BoundSteps => pc[u] \in BoundSteps
        BY <1>4, <2>1 DEF Moved
      <3>3. \A u \in Threads : pc'[u] \in AliveSteps => ~(IOcount'[Idx(u)] >= DELETE_FLAG_BIT)
        BY <2>2, <3>1 DEF Inv, ReferencedIsAlive, isDead
      <3>4. \A u \in Threads : pc'[u] \in BoundSteps => unique[Idx(u)] = session[u].unique
        BY <3>2 DEF Inv, ReferencedIsAlive
      <3>5. \A g \in Signs : signs[g] # NoSession =>
              /\ ~(IOcount'[signs[g].index] >= DELETE_FLAG_BIT)
              /\ unique[signs[g].index] = signs[g].unique
        BY <2>2, <2>7 DEF Inv, ReferencedIsAlive, isDead
      <3>6. \A s \in Slots : (recvIO[s] # "none" \/ sendIO[s] # "none") =>
              ~(IOcount'[s] >= DELETE_FLAG_BIT)
        BY <2>2, <2>7 DEF Inv, ReferencedIsAlive, isDead
      <3> QED
        BY <1>2, <1>6, <3>3, <3>4, <3>5, <3>6 DEF ReferencedIsAlive, Idx, isDead
    <2>10. OnlineIsBound'
      <3>1. \A u \in Threads : pc'[u] = "online" => pc[u] = "online"
        BY <2>1 DEF Moved
      <3> QED
        BY <1>2, <1>6, <3>1 DEF Inv, OnlineIsBound, Idx
    <2>11. DeadSlotHasOneOwner'
      <3>1. Owners(x) = {} /\ x \notin freeIdx
        BY <2>8 DEF Inv, DeadSlotHasOneOwner
      <3>2. x \notin freeIdx' /\ \A s \in Slots \ {x} : s \in freeIdx' <=> s \in freeIdx
        BY <1>2, <3>1
      <3> QED
        BY <1>4, <2>1, <2>8, <3>1, <3>2, OwnerEnters DEF Inv
    <2>12. OneSendAtATime'
      BY <1>2, <1>4, <2>1, SendStepKeeps DEF Inv
    <2>13. OneRecvAtATime'
      BY <1>2, <1>4, <2>1, RecvStepKeeps DEF Inv
    <2> QED
      BY <2>6, <2>9, <2>10, <2>11, <2>12, <2>13 DEF Inv
  <1> QED
    BY <1>1, <1>5, <1>6 DEF SetDeleteFlag

(* Destroy and the push of the index: the slot is dead, nothing goes on in  *)
(* it, and its one owner gives it to the stack.                             *)
LEMMA DeadStep ==
  ASSUME Inv,
         NEW t \in Threads, NEW x \in Slots, NEW a, NEW b, Moved(t, x, a, b),
         a # "idle", a \in OwnerSteps, Weight(b) = Weight(a), NoNewPart(a, b) \/ b = "idle",
         UNCHANGED <<IOcount, unique, signs, recvIO, sendIO>>,
         \A s \in Slots \ {x} : isSending'[s] = isSending[s]
  PROVE  /\ isDead(x) /\ x \notin freeIdx
         /\ \A s \in Slots : isDead(s)' <=> isDead(s)
         /\ CountMatchesReferences' /\ ReferencedIsAlive' /\ OnlineIsBound'
         /\ OneSendAtATime' /\ OneRecvAtATime'
  <1>1. Idx(t) = x /\ pc[t] = a
    BY DEF Moved
  <1>2. isDead(x) /\ x \notin freeIdx
    <2>1. t \in Owners(x)
      BY <1>1 DEF Owners
    <2> QED
      BY <2>1 DEF Inv, DeadSlotHasOneOwner
  <1>3. a \notin AliveSteps
    BY <1>1, <1>2 DEF Inv, ReferencedIsAlive
  <1>4. /\ b \notin AliveSteps /\ b \notin BoundSteps \union {"online"}
        /\ b \notin FlagSteps /\ b \notin RecvSteps
    BY <1>3, StepSets DEF NoNewPart
  <1>5. TypeOK /\ CountMatchesReferences /\ ReferencedIsAlive /\ OnlineIsBound
    BY DEF Inv
  <1>6. \A s : Other(s)' = Other(s) /\ Other(s) \in Nat
    BY OtherType DEF Other, SignRefs, SignHolders, RecvRefs, SendRefs
  <1>7. CountMatchesReferences' /\ \A s \in Slots : isDead(s)' <=> isDead(s)
    <2>1. Add(x, 0)
      BY <1>5, SameCount
    <2>2. Weight(b) + Other(x)' = Weight(a) + Other(x) + 0
      <3>1. Weight(a) \in Int /\ Other(x) \in Int
        BY <1>6 DEF Weight
      <3> QED
        BY <1>6, <3>1
    <2> QED
      BY <1>5, <1>6, <2>1, <2>2, CountStep
  <1>8. ReferencedIsAlive' /\ OnlineIsBound'
    <2>1. UNCHANGED unique /\ \A g \in Signs : signs'[g] \in {signs[g], NoSession}
      OBVIOUS
    <2> QED
      BY <1>4, <1>5, <1>7, <2>1, AliveStep
  <1>9. OneSendAtATime'
    <2>1. FlagHolders(x) = {} /\ sendIO'[x] = "none"
      BY <1>2, DeadIsQuiet
    <2> QED
      BY <1>4, <2>1, FlagLeaves DEF Inv
  <1>10. OneRecvAtATime'
    BY <1>4, RecvStepKeeps DEF Inv
  <1> QED
    BY <1>2, <1>7, <1>8, <1>9, <1>10

LEMMA DestroyKeeps ==
  ASSUME Inv, TypeOK', NEW t \in Threads, Destroy(t) \/ PushSessionIndex(t)
  PROVE  Inv'
  <1>1. PICK x \in Slots : Idx(t) = x
    BY DEF Destroy, PushSessionIndex, Inv, TypeOK
  <1>2. UNCHANGED <<IOcount, unique, signs, recvIO, sendIO>>
    BY DEF Destroy, PushSessionIndex, slotVars, ioVars
  <1>3. /\ pc \in [Threads -> Steps] /\ session \in [Threads -> MaybeIDs]
        /\ isSending \in [Slots -> BOOLEAN]
    BY DEF Inv, TypeOK
  <1>4. /\ Weight("destroy") = 0 /\ Weight("push") = 0 /\ Weight("idle") = 0
        /\ "destroy" \in OwnerSteps /\ "push" \in OwnerSteps /\ "idle" \notin OwnerSteps
        /\ NoNewPart("destroy", "push")
    BY ZeroFacts DEF Facts, NoNewPart
  <1>5. \A s \in Slots \ {x} : isSending'[s] = isSending[s]
    BY <1>1, <1>3 DEF Destroy, PushSessionIndex, sendVars
  <1>6. CASE Destroy(t)
    <2>1. Moved(t, x, "destroy", "push")
      BY <1>1, <1>3, <1>6 DEF Destroy, Moved, Goto, Idx
    <2>2. /\ isDead(x) /\ x \notin freeIdx
          /\ \A s \in Slots : isDead(s)' <=> isDead(s)
          /\ CountMatchesReferences' /\ ReferencedIsAlive' /\ OnlineIsBound'
          /\ OneSendAtATime' /\ OneRecvAtATime'
      BY <1>2, <1>4, <1>5, <2>1, DeadStep
    <2>3. UNCHANGED freeIdx
      BY <1>6 DEF Destroy, arrayVars
    <2>4. DeadSlotHasOneOwner'
      BY <1>4, <2>1, <2>2, <2>3, OwnerStep DEF Inv
    <2> QED
      BY <2>2, <2>4 DEF Inv
  <1>7. CASE PushSessionIndex(t)
    <2>1. Moved(t, x, "push", "idle")
      BY <1>1, <1>3, <1>7 DEF PushSessionIndex, Return, Moved, Goto, Idx
    <2>2. /\ isDead(x) /\ x \notin freeIdx
          /\ \A s \in Slots : isDead(s)' <=> isDead(s)
          /\ CountMatchesReferences' /\ ReferencedIsAlive' /\ OnlineIsBound'
          /\ OneSendAtATime' /\ OneRecvAtATime'
      BY <1>2, <1>4, <1>5, <2>1, DeadStep
    <2>3. freeIdx' = freeIdx \union {x}
      BY <1>1, <1>7 DEF PushSessionIndex
    <2>4. /\ isDead(x)' <=> x \in freeIdx'
          /\ \A s \in Slots \ {x} : s \in freeIdx' <=> s \in freeIdx
      BY <2>2, <2>3
    <2>5. DeadSlotHasOneOwner'
      BY <1>4, <2>1, <2>2, <2>4, OwnerLeaves DEF Inv
    <2> QED
      BY <2>2, <2>5 DEF Inv
  <1> QED
    BY <1>6, <1>7

-------------------------------------------------------------------------------
(* Every step keeps the invariant.                                          *)

LEMMA InvInit == Init => Inv
  <1> SUFFICES ASSUME Init PROVE Inv
    OBVIOUS
  <1>1. TypeOK
    BY TypeInit
  <1>2. \A t \in Threads : pc[t] = "idle" /\ session[t] = NoSession
    BY DEF Init
  <1>3. \A S, s : "idle" \notin S => At(S, s) = {}
    BY <1>2 DEF At
  <1>4. \A s : /\ OneHolders(s) = {} /\ TwoHolders(s) = {}
               /\ Owners(s) = {} /\ FlagHolders(s) = {} /\ Receivers(s) = {}
    BY <1>3, StepSets DEF At, OneHolders, TwoHolders, Owners, FlagHolders, Receivers
  <1>5. \A s \in Slots : SignHolders(s) = {}
    BY DEF SignHolders, Init, NoSession, Slots
  <1>6. Cardinality({}) = 0
    BY FS_EmptySet
  <1>7. \A s \in Slots : References(s) = 0
    <2>1. \A s \in Slots : ThreadRefs(s) = 0 /\ SignRefs(s) = 0
      BY <1>4, <1>5, <1>6 DEF ThreadRefs, SignRefs
    <2>2. \A s \in Slots : RecvRefs(s) = 0 /\ SendRefs(s) = 0
      BY DEF RecvRefs, SendRefs, Init
    <2> QED
      BY <2>1, <2>2 DEF References
  <1>8. \A s \in Slots : ClearFlag(IOcount[s]) = 0 /\ isDead(s)
    BY DEF Init, ClearFlag, isDead, DELETE_FLAG_BIT
  <1>9. CountMatchesReferences
    BY <1>7, <1>8 DEF CountMatchesReferences
  <1>10. ReferencedIsAlive /\ OnlineIsBound
    BY <1>2, StepSets DEF ReferencedIsAlive, OnlineIsBound, Init
  <1>11. DeadSlotHasOneOwner
    BY <1>4, <1>8 DEF DeadSlotHasOneOwner, Init
  <1>12. OneSendAtATime /\ OneRecvAtATime
    BY <1>4 DEF OneSendAtATime, OneRecvAtATime, Init
  <1> QED
    BY <1>1, <1>9, <1>10, <1>11, <1>12 DEF Inv

LEMMA InvStep ==
  ASSUME KernelMatchesMode, Inv, [Next]_vars
  PROVE  Inv'
  <1>1. TypeOK'
    BY TypeStep DEF Inv
  <1>2. \A t \in Workers : t \in Threads
    BY DEF Threads
  <1>3. ASSUME NEW t \in Threads, Continue(t)
        PROVE  Inv'
    <2>1. CASE AcceptorStep(t)
      BY <1>1, <2>1, CountingKeeps, InitializeFieldsKeeps, InitializeFlagKeeps, GoOnKeeps
         DEF AcceptorStep
    <2>2. CASE ReleaseStep(t)
      BY <1>1, <2>2, CountingKeeps, SetDeleteFlagKeeps, GoOnKeeps, DestroyKeeps
         DEF ReleaseStep
    <2>3. CASE CallStep(t)
      BY <1>1, <2>3, CallKeeps, CancelIOKeeps, AsyncSendKeeps DEF CallStep
    <2>4. CASE SendStep(t)
      BY <1>1, <2>4, SendFlagKeeps, GoOnKeeps, PostSendKeeps, CountingKeeps
         DEF SendStep
    <2>5. CASE RecvStep(t)
      BY <1>1, <2>5, CountingKeeps, PostRecvKeeps, GoOnKeeps DEF RecvStep
    <2> QED
      BY <1>3, <2>1, <2>2, <2>3, <2>4, <2>5 DEF Continue
  <1>4. ASSUME NEW t \in Workers, Dequeue(t)
        PROVE  Inv'
    <2>1. CASE \E s \in Slots : DequeueRecv(t, s) \/ DequeueSend(t, s)
      BY <1>1, <1>2, <2>1, DequeueRecvKeeps, DequeueSendKeeps
    <2>2. CASE \E g \in Signs : SendSign(t, g)
      BY <1>1, <1>2, <2>2, SendSignKeeps
    <2>3. CASE \E u \in Uniques : ClientLeavePosted(t, u)
      BY <1>1, <2>3, KernelKeeps
    <2> QED
      BY <1>4, <2>1, <2>2, <2>3 DEF Dequeue
  <1>5. ASSUME NEW t \in Workers, NEW id \in SessionIDs, NEW n \in {1, 2},
               FindSession(t, id, n)
        PROVE  Inv'
    BY <1>1, <1>2, <1>5, FindSessionKeeps
  <1>6. ASSUME NEW s \in Slots, Accept(s)
        PROVE  Inv'
    BY <1>1, <1>6, AcceptKeeps
  <1>7. ASSUME NEW s \in Slots, KernelRecv(s) \/ KernelSend(s)
        PROVE  Inv'
    BY <1>1, <1>7, KernelKeeps
  <1>8. CASE UNCHANGED vars
    BY <1>1, <1>8, KernelKeeps
  <1> QED
    BY <1>3, <1>4, <1>5, <1>6, <1>7, <1>8 DEF Next

LEMMA InvHolds ==
  ASSUME KernelMatchesMode
  PROVE  Spec => []Inv
  <1>1. Inv /\ [Next]_vars => Inv'
    BY InvStep
  <1> QED
    BY InvInit, <1>1, PTL DEF Spec

-------------------------------------------------------------------------------
(* For every number of threads, slots, clients, calls and signs, and every  *)
(* interleaving, provided the kernel behaves as the send mode expects.      *)

(* IOcount_ is exact: no path through RecvPost, SendPost, OnSendComplete,   *)
(* AsyncSendPacket or the calls of the logic loses or invents a reference.  *)
THEOREM CountIsExact ==
  ASSUME KernelMatchesMode
  PROVE  Spec => []CountMatchesReferences
  <1>1. Inv => CountMatchesReferences
    BY DEF Inv
  <1> QED
    BY InvHolds, <1>1, PTL

(* Whoever passed AcquireSession, and every outstanding operation and sign, *)
(* keeps its session from ReleaseSession.                                   *)
THEOREM NoUseAfterRelease ==
  ASSUME KernelMatchesMode
  PROVE  Spec => []ReferencedIsAlive
  <1>1. Inv => ReferencedIsAlive
    BY DEF Inv
  <1> QED
    BY InvHolds, <1>1, PTL

(* A slot that is not online is in the index stack once, or in the hands of *)
(* one thread: ReleaseSession never releases it twice.                      *)
THEOREM ReleasedOnce ==
  ASSUME KernelMatchesMode
  PROVE  Spec => []DeadSlotHasOneOwner
  <1>1. Inv => DeadSlotHasOneOwner
    BY DEF Inv
  <1> QED
    BY InvHolds, <1>1, PTL

(* isSending_ lets one thread or one WSASend have sentQ_ at a time.         *)
THEOREM SendsAreSerial ==
  ASSUME KernelMatchesMode
  PROVE  Spec => []OneSendAtATime
  <1>1. Inv => OneSendAtATime
    BY DEF Inv
  <1> QED
    BY InvHolds, <1>1, PTL

(* One thread or one WSARecv has the receive buffer at a time.              *)
THEOREM ReceivesAreSerial ==
  ASSUME KernelMatchesMode
  PROVE  Spec => []OneRecvAtATime
  <1>1. Inv => OneRecvAtATime
    BY DEF Inv
  <1> QED
    BY InvHolds, <1>1, PTL

-------------------------------------------------------------------------------
(***************************************************************************)
(* The messages the library keeps for impossible states ("IOCount Under    *)
(* Zero", "Socket Closed Twice", an aborted operation of a session that is *)
(* not canceled) are not reached.  This needs where a socket may be closed *)
(* and an operation aborted.                                               *)
(***************************************************************************)

(* Between Destroy and InitializeFields a slot has no socket.               *)
ClosedSteps   == {"push", "init", "fill"}
(* Only a canceled session sees CancelIoEx and aborted operations.          *)
CanceledSteps == {"cancelIO1", "cancelIO2", "aborted"}

SocketIsOpen ==
  \A s \in Slots : \/ sockOpen[s]
                   \/ s \in freeIdx
                   \/ \E t \in Threads : pc[t] \in ClosedSteps /\ Idx(t) = s

AbortedIsCanceled ==
  /\ \A s \in Slots :
       recvIO[s] = "aborted" \/ sendIO[s] = "aborted" => isIOCanceled[s]
  /\ \A t \in Threads : pc[t] \in CanceledSteps => isIOCanceled[Idx(t)]

Tidy == SocketIsOpen /\ AbortedIsCanceled /\ NoErrors

(* A step that has nothing to do with any of them.                          *)
Ordinary(t) ==
  /\ UNCHANGED <<isIOCanceled, sockOpen, errors, freeIdx>>
  /\ \A s \in Slots : /\ recvIO'[s] = "aborted" => recvIO[s] = "aborted"
                      /\ sendIO'[s] = "aborted" => sendIO[s] = "aborted"
  /\ \A u \in Threads \ {t} : pc'[u] = pc[u] /\ session'[u] = session[u]
  /\ pc[t] \notin ClosedSteps
  /\ pc'[t] \notin CanceledSteps

LEMMA OrdinaryKeeps ==
  ASSUME Tidy, NEW t \in Threads, Ordinary(t)
  PROVE  Tidy'
  <1>1. SocketIsOpen'
    <2>1. ASSUME NEW s \in Slots, NEW u \in Threads, pc[u] \in ClosedSteps, Idx(u) = s
          PROVE  pc'[u] \in ClosedSteps /\ Idx(u)' = s
      BY <2>1 DEF Ordinary, Idx
    <2> QED
      BY <2>1 DEF Tidy, SocketIsOpen, Ordinary
  <1>2. AbortedIsCanceled'
    <2>1. ASSUME NEW u \in Threads, pc'[u] \in CanceledSteps
          PROVE  isIOCanceled'[session'[u].index]
      BY <2>1 DEF Tidy, AbortedIsCanceled, Ordinary, Idx
    <2> QED
      BY <2>1 DEF Tidy, AbortedIsCanceled, Ordinary, Idx
  <1>3. NoErrors'
    BY DEF Tidy, NoErrors, Ordinary
  <1> QED
    BY <1>1, <1>2, <1>3 DEF Tidy

LEMMA OrdinaryCalls ==
  ASSUME TypeOK, NEW t \in Threads,
         \/ AcquireIsDead(t) \/ AcquireUnique(t) \/ Disconnect(t)
         \/ EnqueueSendQ(t) \/ AsyncSendPacket(t)
         \/ InitializeFlag(t) \/ OnWorkerClientJoin(t)
         \/ SetDeleteFlag(t) \/ ReleaseSession(t)
         \/ \E id \in SessionIDs, n \in {1, 2} : FindSession(t, id, n)
         \/ \E g \in Signs : SendSign(t, g)
         \/ \E u \in Uniques : ClientLeavePosted(t, u)
  PROVE  Ordinary(t)
  <1> USE DEF TypeOK, Ordinary, ClosedSteps, CanceledSteps, Goto, Return,
              ControlOnly, CountOnly, slotVars, ioVars, sendVars, arrayVars, logicVars
  <1>1. CASE AcquireIsDead(t)
    BY <1>1 DEF AcquireIsDead
  <1>2. CASE AcquireUnique(t)
    BY <1>2 DEF AcquireUnique
  <1>3. CASE Disconnect(t)
    BY <1>3 DEF Disconnect
  <1>4. CASE EnqueueSendQ(t)
    BY <1>4 DEF EnqueueSendQ
  <1>5. CASE AsyncSendPacket(t)
    BY <1>5 DEF AsyncSendPacket
  <1>6. CASE InitializeFlag(t)
    BY <1>6 DEF InitializeFlag
  <1>7. CASE OnWorkerClientJoin(t)
    BY <1>7 DEF OnWorkerClientJoin
  <1>8. CASE SetDeleteFlag(t)
    BY <1>8 DEF SetDeleteFlag
  <1>9. CASE ReleaseSession(t)
    BY <1>9 DEF ReleaseSession
  <1>10. ASSUME NEW id \in SessionIDs, NEW n \in {1, 2}, FindSession(t, id, n)
         PROVE  Ordinary(t)
    BY <1>10 DEF FindSession
  <1>11. ASSUME NEW g \in Signs, SendSign(t, g)
         PROVE  Ordinary(t)
    BY <1>11 DEF SendSign
  <1>12. ASSUME NEW u \in Uniques, ClientLeavePosted(t, u)
         PROVE  Ordinary(t)
    BY <1>12 DEF ClientLeavePosted
  <1> QED
    BY <1>1, <1>2, <1>3, <1>4, <1>5, <1>6, <1>7, <1>8, <1>9, <1>10, <1>11, <1>12

LEMMA OrdinaryIO ==
  ASSUME TypeOK, NEW t \in Threads,
         \/ SendPost(t) \/ SendPostDrain(t) \/ SendPostEmpty(t) \/ SendPostWSASend(t)
         \/ OnSendComplete(t) \/ OnSendCompleteTest(t) \/ SetSendFlagFalse(t)
         \/ RecvPost(t) \/ RecvPostWSARecv(t)
         \/ OnRecvComplete(t) \/ CompleteRecvCheck(t)
  PROVE  Ordinary(t)
  <1> USE DEF TypeOK, Ordinary, ClosedSteps, CanceledSteps, Goto, Return,
              ControlOnly, CountOnly, slotVars, ioVars, sendVars, arrayVars, logicVars
  <1>1. CASE SendPost(t)
    BY <1>1 DEF SendPost
  <1>2. CASE SendPostDrain(t)
    BY <1>2 DEF SendPostDrain
  <1>3. CASE SendPostEmpty(t)
    BY <1>3 DEF SendPostEmpty
  <1>4. CASE SendPostWSASend(t)
    BY <1>4 DEF SendPostWSASend
  <1>5. CASE OnSendComplete(t)
    BY <1>5 DEF OnSendComplete
  <1>6. CASE OnSendCompleteTest(t)
    BY <1>6 DEF OnSendCompleteTest
  <1>7. CASE SetSendFlagFalse(t)
    BY <1>7 DEF SetSendFlagFalse
  <1>8. CASE RecvPost(t)
    BY <1>8 DEF RecvPost
  <1>9. CASE RecvPostWSARecv(t)
    BY <1>9 DEF RecvPostWSARecv
  <1>10. CASE OnRecvComplete(t)
    BY <1>10 DEF OnRecvComplete
  <1>11. CASE CompleteRecvCheck(t)
    BY <1>11 DEF CompleteRecvCheck
  <1> QED
    BY <1>1, <1>2, <1>3, <1>4, <1>5, <1>6, <1>7, <1>8, <1>9, <1>10, <1>11

(* The slot: its socket is closed by its one owner and opened by the next.  *)
LEMMA TidyAccept ==
  ASSUME TypeOK, Tidy, NEW x \in Slots, Accept(x)
  PROVE  Tidy'
  <1>1. /\ UNCHANGED <<isIOCanceled, sockOpen, errors, recvIO, sendIO>>
        /\ freeIdx' = freeIdx \ {x}
        /\ \A u \in Threads \ {Acceptor} : pc'[u] = pc[u] /\ session'[u] = session[u]
        /\ pc[Acceptor] = "idle" /\ pc'[Acceptor] = "init" /\ session'[Acceptor].index = x
        /\ Acceptor \in Threads
    BY DEF Accept, TypeOK, Goto, slotVars, ioVars, Threads
  <1>2. SocketIsOpen'
    <2>1. ASSUME NEW s \in Slots
          PROVE  \/ sockOpen'[s]
                 \/ s \in freeIdx'
                 \/ \E t \in Threads : pc'[t] \in ClosedSteps /\ session'[t].index = s
      <3>1. CASE s = x
        BY <1>1, <3>1 DEF ClosedSteps
      <3>2. CASE s # x /\ \E t \in Threads : pc[t] \in ClosedSteps /\ Idx(t) = s
        <4>1. PICK t \in Threads : pc[t] \in ClosedSteps /\ Idx(t) = s
          BY <3>2
        <4>2. t # Acceptor
          BY <1>1, <4>1 DEF ClosedSteps
        <4> QED
          BY <1>1, <4>1, <4>2 DEF Idx
      <3> QED
        BY <1>1, <3>1, <3>2 DEF Tidy, SocketIsOpen
    <2> QED
      BY <2>1 DEF SocketIsOpen, Idx
  <1>3. AbortedIsCanceled'
    <2>1. ASSUME NEW u \in Threads, pc'[u] \in CanceledSteps
          PROVE  isIOCanceled'[session'[u].index]
      BY <1>1, <2>1 DEF Tidy, AbortedIsCanceled, CanceledSteps, Idx
    <2> QED
      BY <1>1, <2>1 DEF Tidy, AbortedIsCanceled, Idx
  <1> QED
    BY <1>1, <1>2, <1>3 DEF Tidy, NoErrors

LEMMA TidySlot ==
  ASSUME Inv, Tidy, NEW t \in Threads,
         \/ InitializeCount(t) \/ InitializeFields(t) \/ Destroy(t) \/ PushSessionIndex(t)
  PROVE  Tidy'
  <1>0. TypeOK
    BY DEF Inv
  <1>1. PICK x \in Slots : Idx(t) = x
    BY <1>0 DEF InitializeCount, InitializeFields, Destroy, PushSessionIndex, TypeOK
  <1>2. /\ pc[t] \in {"init", "fill", "destroy", "push"}
        /\ UNCHANGED <<recvIO, sendIO>>
        /\ \A u \in Threads \ {t} : pc'[u] = pc[u] /\ session'[u] = session[u]
        /\ \A s \in Slots \ {x} : /\ sockOpen'[s] = sockOpen[s]
                                  /\ isIOCanceled'[s] = isIOCanceled[s]
                                  /\ s \in freeIdx' <=> s \in freeIdx
        /\ pc'[t] \notin CanceledSteps
    BY <1>0, <1>1
       DEF InitializeCount, InitializeFields, Destroy, PushSessionIndex, TypeOK, Goto,
           Return, CountOnly, slotVars, ioVars, arrayVars, CanceledSteps
  <1>3. isDead(x) /\ x \notin freeIdx /\ \A u \in Owners(x) : u = t
    <2>1. t \in Owners(x)
      BY <1>1, <1>2 DEF Owners, OwnerSteps
    <2> QED
      BY <2>1 DEF Inv, DeadSlotHasOneOwner
  <1>4. \/ sockOpen'[x] \/ x \in freeIdx'
        \/ pc'[t] \in ClosedSteps /\ session'[t].index = x
    BY <1>0, <1>1 DEF InitializeCount, InitializeFields, Destroy, PushSessionIndex,
                      TypeOK, Goto, Return, CountOnly, slotVars, arrayVars, ClosedSteps, Idx
  <1>5. SocketIsOpen'
    <2>1. ASSUME NEW s \in Slots
          PROVE  \/ sockOpen'[s]
                 \/ s \in freeIdx'
                 \/ \E u \in Threads : pc'[u] \in ClosedSteps /\ session'[u].index = s
      <3>1. CASE s = x
        BY <1>4, <3>1
      <3>2. CASE s # x /\ \E u \in Threads : pc[u] \in ClosedSteps /\ Idx(u) = s
        <4>1. PICK u \in Threads : pc[u] \in ClosedSteps /\ Idx(u) = s
          BY <3>2
        <4>2. u # t
          BY <1>1, <3>2, <4>1
        <4> QED
          BY <1>2, <4>1, <4>2 DEF Idx
      <3> QED
        BY <1>2, <3>1, <3>2 DEF Tidy, SocketIsOpen
    <2> QED
      BY <2>1 DEF SocketIsOpen, Idx
  <1>6. AbortedIsCanceled'
    <2>1. ASSUME NEW s \in Slots, recvIO[s] = "aborted" \/ sendIO[s] = "aborted"
          PROVE  isIOCanceled'[s]
      <3>1. s # x
        BY <1>3, <2>1, DeadIsQuiet
      <3> QED
        BY <1>2, <2>1, <3>1 DEF Tidy, AbortedIsCanceled
    <2>2. ASSUME NEW u \in Threads, pc'[u] \in CanceledSteps
          PROVE  isIOCanceled'[session'[u].index]
      <3>1. pc[u] \in CanceledSteps /\ session'[u] = session[u]
        BY <1>2, <2>2
      <3>2. CanceledSteps \subseteq AliveSteps
        BY OneFacts, TwoFacts DEF Facts, CanceledSteps
      <3>3. Idx(u) # x /\ Idx(u) \in Slots
        <4>1. Idx(u) # x
          BY <1>3, <3>1, <3>2, DeadIsQuiet
        <4>2. pc[u] # "idle"
          BY <3>1 DEF CanceledSteps
        <4> QED
          BY <1>0, <4>1, <4>2 DEF TypeOK
      <3> QED
        BY <1>2, <3>1, <3>3 DEF Tidy, AbortedIsCanceled, Idx
    <2> QED
      BY <1>2, <2>1, <2>2 DEF AbortedIsCanceled, Idx
  <1>7. errors' = {}
    <2>1. CASE Destroy(t)
      <3>1. sockOpen[x]
        <4>1. \A u \in Threads : pc[u] \in ClosedSteps => Idx(u) # x
          BY <1>3, <2>1 DEF Owners, OwnerSteps, ClosedSteps, Destroy
        <4> QED
          BY <1>3, <4>1 DEF Tidy, SocketIsOpen
      <3> QED
        BY <1>1, <2>1, <3>1 DEF Destroy, Tidy, NoErrors
    <2>2. CASE ~Destroy(t)
      BY <2>2 DEF InitializeCount, InitializeFields, PushSessionIndex, CountOnly,
                  Tidy, NoErrors
    <2> QED
      BY <2>1, <2>2
  <1> QED
    BY <1>5, <1>6, <1>7 DEF Tidy, NoErrors

(* Canceling: the flag is set before CancelIoEx.                            *)
LEMMA TidyCancel ==
  ASSUME TypeOK, Tidy, NEW t \in Threads,
         \/ SetCanceled(t) \/ CancelIOStep(t) \/ SendPostPending(t) \/ RecvPostPending(t)
         \/ OperationAborted(t)
         \/ \E s \in Slots : DequeueRecv(t, s) \/ DequeueSend(t, s)
  PROVE  Tidy'
  <1>1. /\ UNCHANGED <<sockOpen, freeIdx>>
        /\ \A u \in Threads \ {t} : pc'[u] = pc[u] /\ session'[u] = session[u]
        /\ pc[t] \notin ClosedSteps
        /\ \A s \in Slots : isIOCanceled[s] => isIOCanceled'[s]
    BY DEF SetCanceled, CancelIOStep, SendPostPending, RecvPostPending, OperationAborted,
           DequeueRecv, DequeueSend, TypeOK, Goto, ControlOnly, slotVars, arrayVars,
           ClosedSteps
  <1>2. SocketIsOpen'
    <2>1. ASSUME NEW s \in Slots, NEW u \in Threads, pc[u] \in ClosedSteps, Idx(u) = s
          PROVE  pc'[u] \in ClosedSteps /\ Idx(u)' = s
      BY <1>1, <2>1 DEF Idx
    <2> QED
      BY <1>1, <2>1 DEF Tidy, SocketIsOpen
  <1>3. \A s \in Slots : recvIO'[s] = "aborted" \/ sendIO'[s] = "aborted" =>
          isIOCanceled[s]
    <2>1. CASE CancelIOStep(t)
      <3>1. pc[t] \in CanceledSteps /\ Idx(t) \in Slots
        BY <2>1 DEF CancelIOStep, CanceledSteps, TypeOK
      <3>2. isIOCanceled[Idx(t)]
        BY <3>1 DEF Tidy, AbortedIsCanceled
      <3>3. \A s \in Slots : s # Idx(t) => recvIO'[s] = recvIO[s] /\ sendIO'[s] = sendIO[s]
        BY <2>1 DEF CancelIOStep, CancelIO, TypeOK
      <3> QED
        BY <3>2, <3>3 DEF Tidy, AbortedIsCanceled
    <2>2. CASE ~CancelIOStep(t)
      <3>1. \A s \in Slots : /\ recvIO'[s] = "aborted" => recvIO[s] = "aborted"
                             /\ sendIO'[s] = "aborted" => sendIO[s] = "aborted"
        BY <2>2 DEF SetCanceled, SendPostPending, RecvPostPending, OperationAborted,
                    DequeueRecv, DequeueSend, TypeOK, ControlOnly, ioVars
      <3> QED
        BY <3>1 DEF Tidy, AbortedIsCanceled
    <2> QED
      BY <2>1, <2>2
  <1>4. pc'[t] \in CanceledSteps => isIOCanceled'[session'[t].index]
    <2> USE DEF TypeOK, Goto, ControlOnly, slotVars, CanceledSteps, Idx
    <2>1. CASE SetCanceled(t)
      <3>1. Idx(t) \in Slots
        BY <2>1 DEF SetCanceled
      <3> QED
        BY <2>1, <3>1 DEF SetCanceled
    <2>2. CASE CancelIOStep(t)
      BY <2>2 DEF CancelIOStep
    <2>3. CASE SendPostPending(t)
      BY <2>3 DEF SendPostPending
    <2>4. CASE RecvPostPending(t)
      BY <2>4 DEF RecvPostPending
    <2>5. CASE OperationAborted(t)
      BY <2>5 DEF OperationAborted
    <2>6. ASSUME NEW s \in Slots, DequeueRecv(t, s)
          PROVE  pc'[t] \in CanceledSteps => isIOCanceled'[session'[t].index]
      BY <2>6 DEF DequeueRecv, Tidy, AbortedIsCanceled
    <2>7. ASSUME NEW s \in Slots, DequeueSend(t, s)
          PROVE  pc'[t] \in CanceledSteps => isIOCanceled'[session'[t].index]
      BY <2>7 DEF DequeueSend, Tidy, AbortedIsCanceled
    <2> QED
      BY <2>1, <2>2, <2>3, <2>4, <2>5, <2>6, <2>7
  <1>5. AbortedIsCanceled'
    <2>1. ASSUME NEW u \in Threads, pc'[u] \in CanceledSteps
          PROVE  isIOCanceled'[session'[u].index]
      <3>1. CASE u = t
        BY <1>4, <2>1, <3>1
      <3>2. CASE u # t
        <4>1. pc[u] \in CanceledSteps /\ session'[u] = session[u]
          BY <1>1, <2>1, <3>2
        <4>2. isIOCanceled[Idx(u)] /\ Idx(u) \in Slots
          BY <4>1 DEF Tidy, AbortedIsCanceled, TypeOK, CanceledSteps
        <4> QED
          BY <1>1, <4>1, <4>2 DEF Idx
      <3> QED
        BY <3>1, <3>2
    <2>2. \A s \in Slots : recvIO'[s] = "aborted" \/ sendIO'[s] = "aborted" =>
            isIOCanceled'[s]
      BY <1>1, <1>3
    <2> QED
      BY <2>1, <2>2 DEF AbortedIsCanceled, Idx
  <1>6. NoErrors'
    <2>1. CASE OperationAborted(t)
      <3>1. isIOCanceled[Idx(t)]
        BY <2>1 DEF OperationAborted, Tidy, AbortedIsCanceled, CanceledSteps
      <3> QED
        BY <2>1, <3>1 DEF OperationAborted, Tidy, NoErrors
    <2>2. CASE ~OperationAborted(t)
      BY <2>2 DEF SetCanceled, CancelIOStep, SendPostPending, RecvPostPending,
                  DequeueRecv, DequeueSend, ControlOnly, Tidy, NoErrors
    <2> QED
      BY <2>1, <2>2
  <1> QED
    BY <1>2, <1>5, <1>6 DEF Tidy

(* A thread that gives back n references has them, so the count does not    *)
(* fall below zero into the delete flag.                                    *)
LEMMA SubtractFits ==
  ASSUME NEW c \in UShort, NEW n \in {1, 2}, ClearFlag(c) >= n
  PROVE  Wrap(c + (-n)) # DELETE_FLAG_BIT - n /\ Wrap(c - n) # DELETE_FLAG_BIT - n
  <1>1. c \in Int /\ 0 <= c /\ c < 65536
    BY DEF UShort
  <1>2. CASE c < DELETE_FLAG_BIT
    <2>1. ClearFlag(c) = c
      BY <1>1, <1>2, ClearFlagLow
    <2>2. c - n \in Int /\ 0 <= c - n /\ c - n < DELETE_FLAG_BIT - n
      BY <1>1, <1>2, <2>1 DEF DELETE_FLAG_BIT
    <2>3. Wrap(c - n) = c - n
      BY <2>2 DEF Wrap, DELETE_FLAG_BIT
    <2> QED
      BY <1>1, <2>2, <2>3 DEF DELETE_FLAG_BIT
  <1>3. CASE c >= DELETE_FLAG_BIT
    <2>1. ClearFlag(c) = c - DELETE_FLAG_BIT
      BY <1>1, <1>3, ClearFlagHigh
    <2>2. c - n \in Int /\ DELETE_FLAG_BIT <= c - n /\ c - n < 65536
      BY <1>1, <1>3, <2>1 DEF DELETE_FLAG_BIT
    <2>3. Wrap(c - n) = c - n
      BY <2>2 DEF Wrap, DELETE_FLAG_BIT
    <2> QED
      BY <1>1, <2>2, <2>3 DEF DELETE_FLAG_BIT
  <1> QED
    BY <1>1, <1>2, <1>3 DEF DELETE_FLAG_BIT

LEMMA TidyDrop ==
  ASSUME Inv, Tidy, NEW t \in Threads, NEW n \in {1, 2}, Drop(t, n)
  PROVE  Tidy'
  <1>0. TypeOK
    BY DEF Inv
  <1>1. PICK x \in Slots : Idx(t) = x
    BY <1>0 DEF Drop, TypeOK
  <1>2. PICK a \in {"drop1", "drop2"} : pc[t] = a /\ Weight(a) = n
    <2>1. Weight("drop1") = 1 /\ Weight("drop2") = 2
      BY OneFacts, TwoFacts DEF Facts
    <2>2. pc[t] = IF n = 1 THEN "drop1" ELSE "drop2"
      BY DEF Drop
    <2> QED
      BY <2>1, <2>2
  <1>3. PICK b \in {"cas", "idle"} : Moved(t, x, a, b)
    BY <1>0, <1>1, <1>2 DEF Drop, Return, Goto, Moved, TypeOK, Idx
  <1>4. References(x)' = References(x) + (-n)
    <2>1. Weight(b) = 0
      BY <1>3, ZeroFacts DEF Facts
    <2>2. Other(x)' = Other(x)
      BY DEF Drop, Other, SignRefs, SignHolders, RecvRefs, SendRefs, ioVars
    <2>3. Weight(b) + Other(x)' = Weight(a) + Other(x) + (-n)
      BY <1>2, <2>1, <2>2, OtherType
    <2> QED
      BY <1>3, <2>3, ReferencesStep
  <1>5. ClearFlag(IOcount[x]) >= n
    <2>1. References(x) \in Nat /\ References(x)' \in Nat
      BY ReferencesBound, CountTypesNext
    <2>2. ClearFlag(IOcount[x]) = References(x)
      BY DEF Inv, CountMatchesReferences
    <2> QED
      BY <1>4, <2>1, <2>2
  <1>6. Wrap(IOcount[x] - n) # DELETE_FLAG_BIT - n
    BY <1>0, <1>5, SubtractFits DEF TypeOK
  <1>7. UNCHANGED errors
    BY <1>1, <1>6 DEF Drop
  <1>8. Ordinary(t)
    <2>1. UNCHANGED <<isIOCanceled, sockOpen, freeIdx, recvIO, sendIO>>
      BY DEF Drop, ioVars, arrayVars
    <2>2. pc[t] \notin ClosedSteps /\ pc'[t] \notin CanceledSteps
      BY <1>2, <1>3 DEF Moved, ClosedSteps, CanceledSteps
    <2>3. \A u \in Threads \ {t} : pc'[u] = pc[u] /\ session'[u] = session[u]
      BY <1>3 DEF Moved
    <2> QED
      BY <1>7, <2>1, <2>2, <2>3 DEF Ordinary
  <1> QED
    BY <1>8, OrdinaryKeeps

(* The kernel ends operations by itself, but aborts none.                   *)
LEMMA TidyKernel ==
  ASSUME TypeOK, Tidy,
         \/ \E s \in Slots : KernelRecv(s) \/ KernelSend(s)
         \/ UNCHANGED vars
  PROVE  Tidy'
  <1>1. UNCHANGED <<isIOCanceled, sockOpen, errors, freeIdx, pc, session>>
    BY DEF KernelRecv, KernelSend, vars, slotVars, arrayVars
  <1>2. \A s \in Slots : /\ recvIO'[s] = "aborted" => recvIO[s] = "aborted"
                         /\ sendIO'[s] = "aborted" => sendIO[s] = "aborted"
    BY DEF KernelRecv, KernelSend, vars, ioVars, TypeOK
  <1>3. SocketIsOpen'
    BY <1>1 DEF Tidy, SocketIsOpen, Idx
  <1>4. AbortedIsCanceled'
    BY <1>1, <1>2 DEF Tidy, AbortedIsCanceled, Idx
  <1>5. NoErrors'
    BY <1>1 DEF Tidy, NoErrors
  <1> QED
    BY <1>3, <1>4, <1>5 DEF Tidy

LEMMA TidyInit == Init => Tidy
  BY DEF Init, Tidy, SocketIsOpen, AbortedIsCanceled, NoErrors, CanceledSteps

LEMMA TidyStep ==
  ASSUME Inv, Tidy, [Next]_vars
  PROVE  Tidy'
  <1>0. TypeOK /\ Workers \subseteq Threads
    BY DEF Inv, Threads
  <1>1. ASSUME NEW t \in Threads, Continue(t)
        PROVE  Tidy'
    <2>1. CASE AcceptorStep(t)
      BY <1>0, <2>1, TidySlot, OrdinaryCalls, OrdinaryKeeps DEF AcceptorStep
    <2>2. CASE ReleaseStep(t)
      BY <1>0, <2>2, TidySlot, TidyDrop, OrdinaryCalls, OrdinaryKeeps DEF ReleaseStep
    <2>3. CASE CallStep(t)
      BY <1>0, <2>3, TidyCancel, OrdinaryCalls, OrdinaryKeeps DEF CallStep
    <2>4. CASE SendStep(t)
      BY <1>0, <2>4, TidyCancel, OrdinaryIO, OrdinaryKeeps DEF SendStep
    <2>5. CASE RecvStep(t)
      BY <1>0, <2>5, TidyCancel, OrdinaryIO, OrdinaryKeeps DEF RecvStep
    <2> QED
      BY <1>1, <2>1, <2>2, <2>3, <2>4, <2>5 DEF Continue
  <1>2. ASSUME NEW t \in Workers, Dequeue(t)
        PROVE  Tidy'
    <2>1. t \in Threads
      BY <1>0
    <2>2. CASE \E s \in Slots : DequeueRecv(t, s) \/ DequeueSend(t, s)
      BY <1>0, <2>1, <2>2, TidyCancel
    <2>3. CASE \/ \E g \in Signs : SendSign(t, g)
               \/ \E u \in Uniques : ClientLeavePosted(t, u)
      BY <1>0, <2>1, <2>3, OrdinaryCalls, OrdinaryKeeps
    <2> QED
      BY <1>2, <2>2, <2>3 DEF Dequeue
  <1>3. ASSUME NEW t \in Workers, NEW id \in SessionIDs, NEW n \in {1, 2},
               FindSession(t, id, n)
        PROVE  Tidy'
    <2>1. t \in Threads
      BY <1>0
    <2> QED
      BY <1>0, <1>3, <2>1, OrdinaryCalls, OrdinaryKeeps
  <1>4. ASSUME NEW s \in Slots, Accept(s)
        PROVE  Tidy'
    BY <1>0, <1>4, TidyAccept
  <1>5. CASE \/ \E s \in Slots : KernelRecv(s) \/ KernelSend(s)
             \/ UNCHANGED vars
    BY <1>0, <1>5, TidyKernel
  <1> QED
    BY <1>1, <1>2, <1>3, <1>4, <1>5 DEF Next

(* The library never reports "IOCount Under Zero", "Socket Closed Twice" or *)
(* an aborted operation of a session that is not canceled, provided the     *)
(* kernel behaves as the send mode expects.                                 *)
THEOREM NoErrorIsReached ==
  ASSUME KernelMatchesMode
  PROVE  Spec => []NoErrors
  <1>1. Inv /\ Tidy /\ [Next]_vars => Tidy'
    BY TidyStep
  <1>2. Tidy => NoErrors
    BY DEF Tidy
  <1> QED
    BY InvHolds, TidyInit, <1>1, <1>2, PTL DEF Spec

-------------------------------------------------------------------------------
(***************************************************************************)
(* What the logic hears of a session: one JOIN, then its packets, then one *)
(* LEAVE, and, unless leaves are posted, the LEAVE before the slot is      *)
(* reused.                                                                 *)
(*                                                                         *)
(* The invariant follows a session ID through its life.  It is new until   *)
(* its JOIN: no slot but the one the accept thread fills carries it, and   *)
(* nothing was told about it.  The slot that carries it is then open until *)
(* ReleaseSession tells about it, and closing from there on until another  *)
(* ID is written.  That one slot carries one ID, and that a releaser, a    *)
(* receiver and the accept thread are never on one slot together, comes    *)
(* from the invariant above.                                               *)
(***************************************************************************)

JoinSteps    == {"init", "fill", "online", "join"}
ClosingSteps == {"destroy", "push", "init", "fill"}
PlacedSteps  == JoinSteps \union ClosingSteps

Told(u)    == leaves[u] + leavePosts[u]
Joining(u) == pc[Acceptor] \in JoinSteps /\ session[Acceptor].unique = u
Closing(s) == s \in freeIdx \/ \E t \in Threads : pc[t] \in ClosingSteps /\ Idx(t) = s

OnlyAcceptorJoins == \A t \in Threads : pc[t] \in JoinSteps => t = Acceptor

UniquesAreIssued ==
  /\ \A s \in Slots : unique[s] < stamp
  /\ pc[Acceptor] \in JoinSteps =>
       session[Acceptor].unique \in Uniques /\ session[Acceptor].unique < stamp

UniquesDiffer ==
  /\ \A r, s \in Slots : r # s /\ unique[r] # 0 => unique[r] # unique[s]
  /\ pc[Acceptor] \in {"init", "fill"} =>
       \A s \in Slots : unique[s] # session[Acceptor].unique

NewIsUntold ==
  \A u \in Uniques : u >= stamp \/ Joining(u) => Told(u) = 0 /\ lastJob[u] = "none"

SlotsAreTold ==
  \A s \in Slots : unique[s] # 0 =>
    /\ Closing(s) => Told(unique[s]) = 1
    /\ ~Closing(s) => /\ Told(unique[s]) = 0
                      /\ lastJob[unique[s]] \in {"JOIN", "RECV"} \/ Joining(unique[s])

ToldOnce ==
  \A u \in Uniques :
    /\ Told(u) <= 1
    /\ leavePosts[u] > 0 => lastJob[u] \in {"JOIN", "RECV"}
    /\ leaves[u] > 0 => lastJob[u] = "LEAVE"
    /\ ~isLogicMultithreaded => leavePosts[u] = 0

JobInv ==
  /\ OnlyAcceptorJoins
  /\ UniquesAreIssued
  /\ UniquesDiffer
  /\ NewIsUntold
  /\ SlotsAreTold
  /\ ToldOnce

JobVars == <<unique, stamp, lastJob, leaves, leavePosts>>

(* A thread that does not come near a change of hands.                      *)
Aside(t) ==
  /\ UNCHANGED <<JobVars, freeIdx>>
  /\ \A u \in Threads \ {t} : pc'[u] = pc[u] /\ session'[u] = session[u]
  /\ pc[t] \notin PlacedSteps
  /\ pc'[t] \notin PlacedSteps

(* Steps that leave every ID where it is.                                   *)
LEMMA JobFrame ==
  ASSUME JobInv, UNCHANGED JobVars,
         \A t \in Threads : pc'[t] \in JoinSteps => pc[t] \in JoinSteps,
         pc'[Acceptor] \in {"init", "fill"} => pc[Acceptor] \in {"init", "fill"},
         pc'[Acceptor] \in JoinSteps => session'[Acceptor] = session[Acceptor],
         \A u : Joining(u) => Joining(u)',
         \A s \in Slots : Closing(s)' <=> Closing(s)
  PROVE  JobInv'
  <1>1. OnlyAcceptorJoins'
    BY DEF JobInv, OnlyAcceptorJoins
  <1>2. UniquesAreIssued' /\ UniquesDiffer'
    <2>1. Acceptor \in Threads
      BY DEF Threads
    <2>2. UniquesAreIssued'
      BY <2>1 DEF JobInv, JobVars, UniquesAreIssued
    <2>3. {"init", "fill"} \subseteq JoinSteps
      BY DEF JoinSteps
    <2>4. UniquesDiffer'
      BY <2>3 DEF JobInv, JobVars, UniquesDiffer
    <2> QED
      BY <2>2, <2>4
  <1>3. \A u : Joining(u)' => Joining(u)
    <2>1. Acceptor \in Threads
      BY DEF Threads
    <2> QED
      BY <2>1 DEF Joining
  <1>4. \A u : Told(u)' = Told(u)
    BY DEF Told, JobVars
  <1>5. NewIsUntold'
    BY <1>3, <1>4 DEF JobInv, JobVars, NewIsUntold
  <1>6. SlotsAreTold'
    <2>1. ASSUME NEW s \in Slots, unique[s] # 0
          PROVE  /\ Closing(s)' => Told(unique[s])' = 1
                 /\ ~Closing(s)' => /\ Told(unique[s])' = 0
                                    /\ \/ lastJob'[unique[s]] \in {"JOIN", "RECV"}
                                       \/ Joining(unique[s])'
      <3>1. unique'[s] = unique[s] /\ lastJob' = lastJob
        BY DEF JobVars
      <3> DEFINE v == unique[s]
      <3>2. Joining(v) => Joining(unique[s])'
        BY <3>1 DEF Joining
      <3>3. Told(unique[s])' = Told(v)
        BY <3>1 DEF Told, JobVars
      <3>4. /\ Closing(s) => Told(v) = 1
            /\ ~Closing(s) => /\ Told(v) = 0
                              /\ lastJob[v] \in {"JOIN", "RECV"} \/ Joining(v)
        BY <2>1 DEF JobInv, SlotsAreTold
      <3> QED
        BY <3>1, <3>2, <3>3, <3>4
    <2> QED
      BY <2>1 DEF SlotsAreTold, JobVars, Told, Joining
  <1>7. ToldOnce'
    BY <1>4 DEF JobInv, JobVars, ToldOnce
  <1> QED
    BY <1>1, <1>2, <1>5, <1>6, <1>7 DEF JobInv

LEMMA AsideKeeps ==
  ASSUME JobInv, NEW t \in Threads, Aside(t)
  PROVE  JobInv'
  <1>1. \A u \in Threads : pc'[u] \in PlacedSteps \/ pc[u] \in PlacedSteps =>
          pc'[u] = pc[u] /\ session'[u] = session[u]
    BY DEF Aside
  <1>2. \A s \in Slots : Closing(s)' <=> Closing(s)
    BY <1>1 DEF Closing, Aside, PlacedSteps, Idx
  <1>3. Acceptor \in Threads
    BY DEF Threads
  <1>4. \A u : Joining(u) => Joining(u)'
    BY <1>1, <1>3 DEF Joining, PlacedSteps
  <1>5. /\ \A u \in Threads : pc'[u] \in JoinSteps => pc[u] \in JoinSteps
        /\ pc'[Acceptor] \in {"init", "fill"} => pc[Acceptor] \in {"init", "fill"}
        /\ pc'[Acceptor] \in JoinSteps => session'[Acceptor] = session[Acceptor]
    BY <1>1, <1>3 DEF PlacedSteps, JoinSteps
  <1> QED
    BY <1>2, <1>4, <1>5, JobFrame DEF Aside

LEMMA AsideCalls ==
  ASSUME TypeOK, NEW t \in Threads,
         \/ AcquireIsDead(t) \/ AcquireUnique(t) \/ Disconnect(t) \/ SetCanceled(t)
         \/ CancelIOStep(t) \/ EnqueueSendQ(t) \/ AsyncSendPacket(t)
         \/ Drop(t, 1) \/ Drop(t, 2) \/ SetDeleteFlag(t)
         \/ \E id \in SessionIDs, n \in {1, 2} : FindSession(t, id, n)
         \/ \E g \in Signs : SendSign(t, g)
         \/ \E s \in Slots : DequeueRecv(t, s) \/ DequeueSend(t, s)
  PROVE  Aside(t)
  <1> USE DEF TypeOK, Aside, JobVars, PlacedSteps, JoinSteps, ClosingSteps, Goto, Return,
              ControlOnly, slotVars, arrayVars, logicVars
  <1>1. CASE AcquireIsDead(t)
    BY <1>1 DEF AcquireIsDead
  <1>2. CASE AcquireUnique(t)
    BY <1>2 DEF AcquireUnique
  <1>3. CASE Disconnect(t)
    BY <1>3 DEF Disconnect
  <1>4. CASE SetCanceled(t)
    BY <1>4 DEF SetCanceled
  <1>5. CASE CancelIOStep(t)
    BY <1>5 DEF CancelIOStep
  <1>6. CASE EnqueueSendQ(t)
    BY <1>6 DEF EnqueueSendQ
  <1>7. CASE AsyncSendPacket(t)
    BY <1>7 DEF AsyncSendPacket
  <1>8. CASE Drop(t, 1)
    BY <1>8 DEF Drop
  <1>9. CASE Drop(t, 2)
    BY <1>9 DEF Drop
  <1>10. CASE SetDeleteFlag(t)
    BY <1>10 DEF SetDeleteFlag
  <1>11. ASSUME NEW id \in SessionIDs, NEW n \in {1, 2}, FindSession(t, id, n)
         PROVE  Aside(t)
    BY <1>11 DEF FindSession
  <1>12. ASSUME NEW g \in Signs, SendSign(t, g)
         PROVE  Aside(t)
    BY <1>12 DEF SendSign
  <1>13. ASSUME NEW s \in Slots, DequeueRecv(t, s) \/ DequeueSend(t, s)
         PROVE  Aside(t)
    BY <1>13 DEF DequeueRecv, DequeueSend
  <1> QED
    BY <1>1, <1>2, <1>3, <1>4, <1>5, <1>6, <1>7, <1>8, <1>9, <1>10, <1>11, <1>12, <1>13

LEMMA AsideIO ==
  ASSUME TypeOK, NEW t \in Threads,
         \/ SendStep(t)
         \/ RecvPost(t) \/ RecvPostWSARecv(t) \/ RecvPostPending(t)
         \/ OnRecvComplete(t) \/ OperationAborted(t)
  PROVE  Aside(t)
  <1> USE DEF TypeOK, Aside, JobVars, PlacedSteps, JoinSteps, ClosingSteps, Goto, Return,
              ControlOnly, CountOnly, slotVars, arrayVars, logicVars
  <1>1. CASE SendPost(t) \/ SendPostDrain(t) \/ SendPostEmpty(t)
    BY <1>1 DEF SendPost, SendPostDrain, SendPostEmpty
  <1>2. CASE SendPostWSASend(t) \/ SendPostPending(t)
    BY <1>2 DEF SendPostWSASend, SendPostPending
  <1>3. CASE OnSendComplete(t) \/ OnSendCompleteTest(t) \/ SetSendFlagFalse(t)
    BY <1>3 DEF OnSendComplete, OnSendCompleteTest, SetSendFlagFalse
  <1>4. CASE RecvPost(t) \/ RecvPostWSARecv(t) \/ RecvPostPending(t)
    BY <1>4 DEF RecvPost, RecvPostWSARecv, RecvPostPending
  <1>5. CASE OnRecvComplete(t) \/ OperationAborted(t)
    BY <1>5 DEF OnRecvComplete, OperationAborted
  <1> QED
    BY <1>1, <1>2, <1>3, <1>4, <1>5 DEF SendStep

LEMMA OwnerIsAlone ==
  ASSUME Inv, NEW t \in Threads, pc[t] \in OwnerSteps, NEW x \in Slots, Idx(t) = x
  PROVE  /\ isDead(x) /\ x \notin freeIdx
         /\ \A u \in Threads : pc[u] \in OwnerSteps /\ Idx(u) = x => u = t
  <1>1. t \in Owners(x)
    BY DEF Owners
  <1>2. isDead(x) /\ x \notin freeIdx /\ \A u \in Owners(x) : u = t
    BY <1>1 DEF Inv, DeadSlotHasOneOwner
  <1> QED
    BY <1>2 DEF Owners

LEMMA AliveIsOpen ==
  ASSUME Inv, NEW x \in Slots, ~isDead(x)
  PROVE  ~Closing(x)
  <1>1. x \notin freeIdx /\ Owners(x) = {}
    BY DEF Inv, DeadSlotHasOneOwner
  <1> QED
    BY <1>1 DEF Closing, Owners, ClosingSteps, OwnerSteps

LEMMA JoinsItsSlot ==
  ASSUME Inv, JobInv, NEW x \in Slots, unique[x] # 0, Joining(unique[x])
  PROVE  pc[Acceptor] \in {"online", "join"} /\ Idx(Acceptor) = x
  <1>0. Acceptor \in Threads
    BY DEF Threads
  <1>1. pc[Acceptor] \in {"online", "join"} /\ session[Acceptor].unique = unique[x]
    BY DEF JobInv, UniquesDiffer, Joining, JoinSteps
  <1>2. unique[Idx(Acceptor)] = session[Acceptor].unique
    <2>1. "join" \in BoundSteps
      BY OneFacts DEF Facts
    <2> QED
      BY <1>0, <1>1, <2>1 DEF Inv, ReferencedIsAlive, OnlineIsBound
  <1>3. Idx(Acceptor) \in Slots
    BY <1>0, <1>1 DEF Inv, TypeOK
  <1> QED
    BY <1>1, <1>2, <1>3 DEF JobInv, UniquesDiffer

LEMMA JobAccept ==
  ASSUME Inv, JobInv, NEW x \in Slots, Accept(x)
  PROVE  JobInv'
  <1>0. Acceptor \in Threads /\ TypeOK
    BY DEF Threads, Inv
  <1>1. /\ UNCHANGED <<unique, lastJob, leaves, leavePosts>>
        /\ stamp' = stamp + 1 /\ stamp \in Uniques
        /\ freeIdx' = freeIdx \ {x} /\ x \in freeIdx
        /\ \A u \in Threads \ {Acceptor} : pc'[u] = pc[u] /\ session'[u] = session[u]
        /\ pc[Acceptor] = "idle" /\ pc'[Acceptor] = "init"
        /\ session'[Acceptor] = [index |-> x, unique |-> stamp]
    BY <1>0, BoundsAssumption DEF Accept, TypeOK, Goto, slotVars, logicVars, Uniques
  <1>2. session'[Acceptor].index = x /\ session'[Acceptor].unique = stamp
    BY <1>1
  <1>3. stamp \in Int /\ \A s \in Slots : unique[s] \in Int
    BY <1>0 DEF TypeOK, Uniques
  <1>4. OnlyAcceptorJoins'
    BY <1>1 DEF JobInv, OnlyAcceptorJoins
  <1>5. UniquesAreIssued'
    BY <1>1, <1>2, <1>3 DEF JobInv, UniquesAreIssued
  <1>6. UniquesDiffer'
    BY <1>1, <1>2, <1>3 DEF JobInv, UniquesDiffer, UniquesAreIssued
  <1>7. NewIsUntold'
    <2>1. ASSUME NEW u \in Uniques, u >= stamp' \/ Joining(u)'
          PROVE  u >= stamp
      BY <1>1, <1>2, <1>3, <2>1 DEF Joining, Uniques
    <2> QED
      BY <1>1, <2>1 DEF JobInv, NewIsUntold, Told
  <1>8. \A s \in Slots : Closing(s)' <=> Closing(s)
    <2>1. "init" \in ClosingSteps /\ "idle" \notin ClosingSteps
      BY DEF ClosingSteps
    <2> QED
      BY <1>0, <1>1, <1>2, <2>1 DEF Closing, Idx
  <1>9. SlotsAreTold'
    <2>1. ~ \E u : Joining(u)
      BY <1>1 DEF Joining, JoinSteps
    <2>2. ASSUME NEW s \in Slots, unique[s] # 0
          PROVE  /\ Closing(s)' => Told(unique[s]) = 1
                 /\ ~Closing(s)' => /\ Told(unique[s]) = 0
                                    /\ lastJob[unique[s]] \in {"JOIN", "RECV"}
      BY <1>8, <2>1, <2>2 DEF JobInv, SlotsAreTold
    <2> QED
      BY <1>1, <2>2 DEF SlotsAreTold, Told
  <1>10. ToldOnce'
    BY <1>1 DEF JobInv, ToldOnce, Told
  <1> QED
    BY <1>4, <1>5, <1>6, <1>7, <1>9, <1>10 DEF JobInv

LEMMA JobSlot ==
  ASSUME Inv, JobInv, NEW t \in Threads,
         InitializeCount(t) \/ InitializeFlag(t) \/ Destroy(t)
  PROVE  JobInv'
  <1>0. TypeOK
    BY DEF Inv
  <1>1. /\ UNCHANGED <<JobVars, freeIdx, session>>
        /\ \A u \in Threads \ {t} : pc'[u] = pc[u]
    BY <1>0 DEF InitializeCount, InitializeFlag, Destroy, CountOnly, JobVars, TypeOK, Goto,
                arrayVars, logicVars
  <1>2. \/ pc[t] = "init" /\ pc'[t] = "fill"
        \/ pc[t] = "online" /\ pc'[t] = "join"
        \/ pc[t] = "destroy" /\ pc'[t] = "push"
    BY <1>0 DEF InitializeCount, InitializeFlag, Destroy, TypeOK, Goto
  <1>3. /\ pc[t] \in ClosingSteps <=> pc'[t] \in ClosingSteps
        /\ pc[t] \in JoinSteps <=> pc'[t] \in JoinSteps
        /\ pc[t] \in {"init", "fill"} <=> pc'[t] \in {"init", "fill"}
    BY <1>2 DEF ClosingSteps, JoinSteps
  <1>4. Acceptor \in Threads
    BY DEF Threads
  <1>5. \A s \in Slots : Closing(s)' <=> Closing(s)
    BY <1>1, <1>3 DEF Closing, Idx
  <1>6. \A u : Joining(u) => Joining(u)'
    BY <1>1, <1>3, <1>4 DEF Joining
  <1> QED
    BY <1>1, <1>3, <1>4, <1>5, <1>6, JobFrame

LEMMA JobKernel ==
  ASSUME JobInv,
         \/ \E s \in Slots : KernelRecv(s) \/ KernelSend(s)
         \/ UNCHANGED vars
  PROVE  JobInv'
  <1>1. UNCHANGED <<JobVars, freeIdx, session, pc>>
    BY DEF KernelRecv, KernelSend, vars, slotVars, arrayVars, logicVars, JobVars
  <1>2. \A s \in Slots : Closing(s)' <=> Closing(s)
    BY <1>1 DEF Closing, Idx
  <1>3. \A u : Joining(u) => Joining(u)'
    BY <1>1 DEF Joining
  <1> QED
    BY <1>1, <1>2, <1>3, JobFrame

LEMMA JobPush ==
  ASSUME Inv, JobInv, NEW t \in Threads, PushSessionIndex(t)
  PROVE  JobInv'
  <1>0. TypeOK /\ Acceptor \in Threads
    BY DEF Inv, Threads
  <1>1. /\ UNCHANGED JobVars
        /\ freeIdx' = freeIdx \union {Idx(t)}
        /\ pc[t] = "push" /\ pc'[t] = "idle"
        /\ \A u \in Threads \ {t} : pc'[u] = pc[u] /\ session'[u] = session[u]
    BY <1>0 DEF PushSessionIndex, Return, JobVars, TypeOK, Goto, slotVars, logicVars
  <1>2. "push" \in ClosingSteps /\ "push" \notin JoinSteps /\ "idle" \notin ClosingSteps
        /\ "idle" \notin JoinSteps
    BY DEF ClosingSteps, JoinSteps
  <1>3. \A s \in Slots : Closing(s)' <=> Closing(s)
    BY <1>1, <1>2 DEF Closing, Idx
  <1>4. \A u : Joining(u) => Joining(u)'
    BY <1>0, <1>1, <1>2 DEF Joining
  <1>5. {"init", "fill"} \subseteq JoinSteps
    BY DEF JoinSteps
  <1> QED
    BY <1>0, <1>1, <1>2, <1>3, <1>4, <1>5, JobFrame

(* The old session of the slot was told about, and the new one is new.      *)
LEMMA JobFields ==
  ASSUME Inv, JobInv, NEW t \in Threads, InitializeFields(t)
  PROVE  /\ JobInv'
         /\ ~isLogicMultithreaded =>
              \A s \in Slots : unique'[s] # unique[s] /\ unique[s] # 0 =>
                lastJob[unique[s]] = "LEAVE"
  <1>0. TypeOK /\ Acceptor \in Threads
    BY DEF Inv, Threads
  <1>1. /\ UNCHANGED <<stamp, lastJob, leaves, leavePosts, freeIdx, session>>
        /\ unique' = [unique EXCEPT ![Idx(t)] = session[t].unique]
        /\ pc[t] = "fill" /\ pc'[t] = "online"
        /\ \A u \in Threads \ {t} : pc'[u] = pc[u]
    BY <1>0 DEF InitializeFields, TypeOK, Goto, arrayVars, logicVars
  <1>2. t = Acceptor
    BY <1>1 DEF JobInv, OnlyAcceptorJoins, JoinSteps
  <1>3. PICK x \in Slots : Idx(t) = x
    BY <1>0, <1>1 DEF TypeOK
  <1>4. PICK v \in Uniques : session[t].unique = v
    BY <1>1, <1>2 DEF JobInv, UniquesAreIssued, JoinSteps
  <1>5. unique'[x] = v /\ \A s \in Slots \ {x} : unique'[s] = unique[s]
    BY <1>0, <1>1, <1>3, <1>4 DEF TypeOK
  <1>6. /\ \A s \in Slots : unique[s] # v
        /\ v < stamp /\ v # 0 /\ Joining(v)
    BY <1>1, <1>2, <1>4
       DEF JobInv, UniquesDiffer, UniquesAreIssued, JoinSteps, Joining, Uniques
  <1>7. OnlyAcceptorJoins'
    BY <1>1, <1>2 DEF JobInv, OnlyAcceptorJoins
  <1>8. UniquesAreIssued'
    BY <1>1, <1>2, <1>4, <1>5, <1>6 DEF JobInv, UniquesAreIssued
  <1>9. UniquesDiffer'
    BY <1>1, <1>2, <1>5, <1>6 DEF JobInv, UniquesDiffer
  <1>10. \A u : Joining(u)' <=> Joining(u)
    BY <1>1, <1>2 DEF Joining, JoinSteps
  <1>11. NewIsUntold'
    BY <1>1, <1>10 DEF JobInv, NewIsUntold, Told
  <1>12. \A s \in Slots \ {x} : Closing(s)' <=> Closing(s)
    BY <1>1, <1>3 DEF Closing, Idx
  <1>13. SlotsAreTold'
    <2>1. ASSUME NEW s \in Slots, unique'[s] # 0
          PROVE  /\ Closing(s)' => Told(unique[s])' = 1
                 /\ ~Closing(s)' => /\ Told(unique[s])' = 0
                                    /\ \/ lastJob'[unique'[s]] \in {"JOIN", "RECV"}
                                       \/ Joining(unique[s])'
      <3>1. CASE s = x
        <4>1. ~Closing(x)'
          <5>1. /\ x \notin freeIdx
                /\ \A u \in Threads : pc[u] \in OwnerSteps /\ Idx(u) = x => u = t
            BY <1>1, <1>3, OwnerIsAlone DEF OwnerSteps
          <5>2. ClosingSteps \subseteq OwnerSteps /\ "online" \notin ClosingSteps
            BY DEF ClosingSteps, OwnerSteps
          <5> QED
            BY <1>1, <5>1, <5>2 DEF Closing, Idx
        <4>2. Told(v) = 0
          BY <1>6 DEF JobInv, NewIsUntold
        <4>3. Told(unique[x])' = Told(v)
          BY <1>1, <1>5 DEF Told
        <4>4. Joining(unique[x])'
          <5>1. Joining(v)'
            BY <1>6, <1>10
          <5> QED
            BY <1>5, <5>1 DEF Joining
        <4> QED
          BY <3>1, <4>1, <4>2, <4>3, <4>4
      <3>2. CASE s # x
        <4> DEFINE w == unique[s]
        <4>1. unique'[s] = w /\ w # 0
          BY <1>5, <2>1, <3>2
        <4>2. /\ Closing(s) => Told(w) = 1
              /\ ~Closing(s) => /\ Told(w) = 0
                                /\ lastJob[w] \in {"JOIN", "RECV"} \/ Joining(w)
          BY <4>1 DEF JobInv, SlotsAreTold
        <4>3. Told(unique[s])' = Told(w)
          BY <1>1, <4>1 DEF Told
        <4>4. Joining(w) => Joining(unique[s])'
          <5>1. Joining(w) => Joining(w)'
            BY <1>1, <1>2, <1>5 DEF Joining, JoinSteps
          <5> QED
            BY <1>1, <1>2, <4>1 DEF Joining, JoinSteps
        <4> QED
          BY <1>1, <1>12, <3>2, <4>1, <4>2, <4>3, <4>4
      <3> QED
        BY <3>1, <3>2
    <2> QED
      BY <2>1 DEF SlotsAreTold
  <1>14. ToldOnce'
    BY <1>1 DEF JobInv, ToldOnce, Told
  <1>15. ASSUME ~isLogicMultithreaded, NEW s \in Slots,
                unique'[s] # unique[s], unique[s] # 0
         PROVE  lastJob[unique[s]] = "LEAVE"
    <2>1. s = x
      BY <1>5, <1>15
    <2>2. Closing(x)
      BY <1>1, <1>3 DEF Closing, ClosingSteps
    <2>3. Told(unique[x]) = 1 /\ unique[x] \in Uniques
      BY <1>0, <1>15, <2>1, <2>2 DEF JobInv, SlotsAreTold, TypeOK
    <2>4. leavePosts[unique[x]] = 0 /\ leaves[unique[x]] \in Nat
      BY <1>0, <1>15, <2>3 DEF JobInv, ToldOnce, TypeOK
    <2>5. leaves[unique[x]] > 0
      BY <2>3, <2>4 DEF Told
    <2> QED
      BY <2>1, <2>3, <2>5 DEF JobInv, ToldOnce
  <1> QED
    BY <1>7, <1>8, <1>9, <1>11, <1>13, <1>14, <1>15 DEF JobInv

(* The steps that give the logic a job.                                     *)
NextJob ==
  \A u \in Uniques : lastJob'[u] # lastJob[u] =>
    \/ lastJob[u] = "none" /\ lastJob'[u] = "JOIN"
    \/ lastJob[u] = "JOIN" /\ lastJob'[u] \in {"RECV", "LEAVE"}
    \/ lastJob[u] = "RECV" /\ lastJob'[u] = "LEAVE"

LEMMA ToldType ==
  ASSUME TypeOK, NEW u \in Uniques
  PROVE  /\ leaves[u] \in Nat /\ leavePosts[u] \in Nat /\ Told(u) \in Nat
         /\ Told(u) = 0 => leaves[u] = 0 /\ leavePosts[u] = 0
  BY DEF TypeOK, Told

LEMMA JobJoin ==
  ASSUME Inv, JobInv, NEW t \in Threads, OnWorkerClientJoin(t)
  PROVE  JobInv' /\ NextJob
  <1>0. TypeOK /\ Acceptor \in Threads
    BY DEF Inv, Threads
  <1>1. /\ UNCHANGED <<unique, stamp, leaves, leavePosts, freeIdx, session>>
        /\ lastJob' = [lastJob EXCEPT ![session[t].unique] = "JOIN"]
        /\ pc[t] = "join" /\ pc'[t] = "recvPost"
        /\ \A u \in Threads \ {t} : pc'[u] = pc[u]
    BY <1>0 DEF OnWorkerClientJoin, TypeOK, Goto, slotVars, arrayVars
  <1>2. t = Acceptor
    BY <1>1 DEF JobInv, OnlyAcceptorJoins, JoinSteps
  <1>3. PICK v \in Uniques : session[t].unique = v
    BY <1>1, <1>2 DEF JobInv, UniquesAreIssued, JoinSteps
  <1>4. /\ lastJob'[v] = "JOIN" /\ \A u \in Uniques \ {v} : lastJob'[u] = lastJob[u]
    BY <1>0, <1>1, <1>3 DEF TypeOK
  <1>5. v < stamp /\ Told(v) = 0 /\ lastJob[v] = "none" /\ \A u : Joining(u) => u = v
    BY <1>1, <1>2, <1>3 DEF JobInv, UniquesAreIssued, NewIsUntold, Joining, JoinSteps
  <1>6. OnlyAcceptorJoins'
    BY <1>1 DEF JobInv, OnlyAcceptorJoins, JoinSteps
  <1>7. UniquesAreIssued'
    BY <1>1, <1>2 DEF JobInv, UniquesAreIssued, JoinSteps
  <1>8. UniquesDiffer'
    BY <1>1, <1>2 DEF JobInv, UniquesDiffer
  <1>9. NewIsUntold'
    <2>1. \A u \in Uniques : u >= stamp => u # v
      BY <1>0, <1>5 DEF TypeOK, Uniques
    <2>2. \A u : ~Joining(u)'
      BY <1>1, <1>2 DEF Joining, JoinSteps
    <2> QED
      BY <1>1, <1>4, <2>1, <2>2 DEF JobInv, NewIsUntold, Told
  <1>10. \A s \in Slots : Closing(s)' <=> Closing(s)
    BY <1>1 DEF Closing, ClosingSteps, Idx
  <1>11. SlotsAreTold'
    <2>1. ASSUME NEW s \in Slots, unique[s] # 0
          PROVE  /\ Closing(s)' => Told(unique[s]) = 1
                 /\ ~Closing(s)' => /\ Told(unique[s]) = 0
                                    /\ lastJob'[unique[s]] \in {"JOIN", "RECV"}
      <3>1. CASE unique[s] = v
        BY <1>4, <1>5, <1>10, <2>1, <3>1 DEF JobInv, SlotsAreTold
      <3>2. CASE unique[s] # v
        <4>1. unique[s] \in Uniques
          BY <1>0, <2>1 DEF TypeOK
        <4> QED
          BY <1>4, <1>5, <1>10, <2>1, <3>2, <4>1 DEF JobInv, SlotsAreTold
      <3> QED
        BY <3>1, <3>2
    <2> QED
      BY <1>1, <2>1 DEF SlotsAreTold, Told
  <1>12. ToldOnce'
    <2>1. leaves[v] = 0 /\ leavePosts[v] = 0
      BY <1>0, <1>5, ToldType
    <2> QED
      BY <1>1, <1>4, <2>1 DEF JobInv, ToldOnce, Told
  <1>13. NextJob
    BY <1>4, <1>5 DEF NextJob
  <1> QED
    BY <1>6, <1>7, <1>8, <1>9, <1>11, <1>12, <1>13 DEF JobInv

LEMMA JobRecv ==
  ASSUME Inv, JobInv, NEW t \in Threads, CompleteRecvCheck(t)
  PROVE  JobInv' /\ NextJob
  <1>0. TypeOK /\ Acceptor \in Threads
    BY DEF Inv, Threads
  <1>1. PICK x \in Slots : Idx(t) = x
    BY <1>0 DEF CompleteRecvCheck, TypeOK
  <1>2. /\ UNCHANGED <<unique, stamp, leaves, leavePosts, freeIdx, session>>
        /\ lastJob' \in {[lastJob EXCEPT ![unique[x]] = "RECV"], lastJob}
        /\ pc[t] = "parse" /\ pc'[t] \in {"recvPost", "cancel1"}
        /\ \A u \in Threads \ {t} : pc'[u] = pc[u]
    BY <1>0, <1>1 DEF CompleteRecvCheck, TypeOK, Goto, slotVars, arrayVars
  <1>3. ~isDead(x) /\ t \in Receivers(x)
    <2>1. "parse" \in AliveSteps /\ "parse" \in RecvSteps
      BY OneFacts DEF Facts
    <2> QED
      BY <1>1, <1>2, <2>1 DEF Inv, ReferencedIsAlive, Receivers
  <1>4. ~Closing(x)
    BY <1>3, AliveIsOpen
  <1>5. unique[x] # 0 => ~Joining(unique[x])
    <2>1. ASSUME unique[x] # 0, Joining(unique[x])
          PROVE  FALSE
      <3>1. pc[Acceptor] \in {"online", "join"} /\ Idx(Acceptor) = x
        BY <2>1, JoinsItsSlot
      <3>2. CASE pc[Acceptor] = "online"
        <4>1. isDead(x)
          BY <1>0, <3>1, <3>2, OwnerIsAlone DEF OwnerSteps
        <4> QED
          BY <1>3, <4>1
      <3>3. CASE pc[Acceptor] = "join"
        <4>1. Acceptor \in Receivers(x)
          BY <1>0, <3>1, <3>3 DEF Receivers, RecvSteps
        <4>2. Acceptor = t
          BY <1>3, <4>1 DEF Inv, OneRecvAtATime
        <4> QED
          BY <1>2, <3>3, <4>2
      <3> QED
        BY <3>1, <3>2, <3>3
    <2> QED
      BY <2>1
  <1>6. \A s \in Slots : Closing(s)' <=> Closing(s)
    BY <1>2 DEF Closing, ClosingSteps, Idx
  <1>7. \A u : Joining(u)' <=> Joining(u)
    BY <1>0, <1>2 DEF Joining, JoinSteps
  <1>8. /\ \A u \in Threads : pc'[u] \in JoinSteps => pc[u] \in JoinSteps
        /\ pc'[Acceptor] \in {"init", "fill"} => pc[Acceptor] \in {"init", "fill"}
    BY <1>0, <1>2 DEF JoinSteps
  <1>9. CASE lastJob' = lastJob
    BY <1>2, <1>6, <1>7, <1>8, <1>9, JobFrame DEF JobVars, NextJob
  <1>10. CASE lastJob' # lastJob
    <2>1. unique[x] \in Uniques
      BY <1>0, <1>2, <1>10 DEF TypeOK
    <2>2. PICK v \in Uniques : unique[x] = v
      BY <2>1
    <2>3. v # 0
      BY DEF Uniques
    <2>4. lastJob'[v] = "RECV" /\ \A u \in Uniques \ {v} : lastJob'[u] = lastJob[u]
      BY <1>0, <1>2, <1>10, <2>2 DEF TypeOK
    <2>5. Told(v) = 0 /\ lastJob[v] \in {"JOIN", "RECV"} /\ ~Joining(v) /\ v < stamp
      BY <1>4, <1>5, <2>2, <2>3 DEF JobInv, SlotsAreTold, UniquesAreIssued
    <2>6. OnlyAcceptorJoins' /\ UniquesAreIssued' /\ UniquesDiffer'
      <3>1. pc'[Acceptor] \in JoinSteps => pc[Acceptor] \in JoinSteps
        BY <1>0, <1>8
      <3>2. OnlyAcceptorJoins'
        BY <1>8 DEF JobInv, OnlyAcceptorJoins
      <3>3. UniquesAreIssued'
        BY <1>2, <3>1 DEF JobInv, UniquesAreIssued
      <3>4. UniquesDiffer'
        BY <1>2, <1>8 DEF JobInv, UniquesDiffer
      <3> QED
        BY <3>2, <3>3, <3>4
    <2>7. NewIsUntold'
      <3>1. \A u \in Uniques : u >= stamp => u # v
        BY <1>0, <2>5 DEF TypeOK, Uniques
      <3> QED
        BY <1>2, <1>7, <2>4, <2>5, <3>1 DEF JobInv, NewIsUntold, Told
    <2>8. SlotsAreTold'
      <3>1. ASSUME NEW s \in Slots, unique[s] # 0
            PROVE  /\ Closing(s)' => Told(unique[s])' = 1
                   /\ ~Closing(s)' => /\ Told(unique[s])' = 0
                                      /\ \/ lastJob'[unique[s]] \in {"JOIN", "RECV"}
                                         \/ Joining(unique[s])'
        <4> DEFINE w == unique[s]
        <4>1. w \in Uniques /\ unique'[s] = w
          BY <1>0, <1>2, <3>1 DEF TypeOK
        <4>2. /\ Closing(s) => Told(w) = 1
              /\ ~Closing(s) => /\ Told(w) = 0
                                /\ lastJob[w] \in {"JOIN", "RECV"} \/ Joining(w)
          BY <3>1 DEF JobInv, SlotsAreTold
        <4>3. lastJob[w] \in {"JOIN", "RECV"} => lastJob'[w] \in {"JOIN", "RECV"}
          BY <2>4, <4>1
        <4>4. Joining(w) => Joining(unique[s])'
          BY <1>0, <1>2, <4>1 DEF Joining, JoinSteps
        <4>5. Told(unique[s])' = Told(w)
          BY <1>2, <4>1 DEF Told
        <4> QED
          BY <1>6, <4>2, <4>3, <4>4, <4>5
      <3> QED
        BY <1>2, <3>1 DEF SlotsAreTold
    <2>9. ToldOnce'
      <3>1. leaves[v] = 0 /\ leavePosts[v] = 0
        BY <1>0, <2>5, ToldType
      <3> QED
        BY <1>2, <2>4, <3>1 DEF JobInv, ToldOnce, Told
    <2>10. NextJob
      BY <2>4, <2>5 DEF NextJob
    <2> QED
      BY <2>6, <2>7, <2>8, <2>9, <2>10 DEF JobInv
  <1> QED
    BY <1>9, <1>10

(* The thread that releases slot x tells about the session it carries.      *)
LEMMA JobRelease ==
  ASSUME Inv, JobInv, NEW t \in Threads, ReleaseSession(t)
  PROVE  JobInv' /\ NextJob
  <1>0. TypeOK /\ Acceptor \in Threads
    BY DEF Inv, Threads
  <1>1. PICK x \in Slots : Idx(t) = x
    BY <1>0 DEF ReleaseSession, TypeOK
  <1>2. /\ UNCHANGED <<unique, stamp, freeIdx, session>>
        /\ pc[t] = "leave" /\ pc'[t] = "destroy"
        /\ \A u \in Threads \ {t} : pc'[u] = pc[u]
        /\ IF isLogicMultithreaded
             THEN /\ leavePosts' = [leavePosts EXCEPT ![unique[x]] = @ + 1]
                  /\ UNCHANGED <<lastJob, leaves>>
             ELSE /\ lastJob' = [lastJob EXCEPT ![unique[x]] = "LEAVE"]
                  /\ leaves' = [leaves EXCEPT ![unique[x]] = @ + 1]
                  /\ UNCHANGED leavePosts
    BY <1>0, <1>1 DEF ReleaseSession, OnClientLeave, TypeOK, Goto, slotVars, arrayVars
  <1>3. /\ x \notin freeIdx
        /\ \A u \in Threads : pc[u] \in OwnerSteps /\ Idx(u) = x => u = t
    BY <1>1, <1>2, OwnerIsAlone DEF OwnerSteps
  <1>4. /\ \A s \in Slots \ {x} : Closing(s)' <=> Closing(s)
        /\ Closing(x)' /\ ~Closing(x)
    <2>1. "leave" \notin ClosingSteps /\ "destroy" \in ClosingSteps
          /\ ClosingSteps \subseteq OwnerSteps
      BY DEF ClosingSteps, OwnerSteps
    <2>2. Idx(t)' = x /\ \A u \in Threads : Idx(u)' = Idx(u)
      BY <1>1, <1>2 DEF Idx
    <2> QED
      BY <1>1, <1>2, <1>3, <2>1, <2>2 DEF Closing
  <1>5. "leave" \notin JoinSteps /\ "destroy" \notin JoinSteps
    BY DEF JoinSteps
  <1>6. \A u : Joining(u)' <=> Joining(u)
    BY <1>0, <1>2, <1>5 DEF Joining
  <1>7. /\ \A u \in Threads : pc'[u] \in JoinSteps <=> pc[u] \in JoinSteps
        /\ pc'[Acceptor] \in {"init", "fill"} => pc[Acceptor] \in {"init", "fill"}
    BY <1>0, <1>2, <1>5
  <1>8. unique[x] # 0 => ~Joining(unique[x])
    <2>1. ASSUME unique[x] # 0, Joining(unique[x])
          PROVE  FALSE
      <3>1. pc[Acceptor] \in {"online", "join"} /\ Idx(Acceptor) = x
        BY <2>1, JoinsItsSlot
      <3>2. CASE pc[Acceptor] = "online"
        <4>1. Acceptor = t
          BY <1>0, <1>3, <3>1, <3>2 DEF OwnerSteps
        <4> QED
          BY <1>2, <3>2, <4>1
      <3>3. CASE pc[Acceptor] = "join"
        <4>1. "join" \in AliveSteps
          BY OneFacts DEF Facts
        <4>2. isDead(x)
          BY <1>1, <1>2, OwnerIsAlone DEF OwnerSteps
        <4> QED
          BY <1>0, <3>1, <3>3, <4>1, <4>2, DeadIsQuiet
      <3> QED
        BY <3>1, <3>2, <3>3
    <2> QED
      BY <2>1
  <1>9. OnlyAcceptorJoins' /\ UniquesAreIssued' /\ UniquesDiffer'
    <2>1. OnlyAcceptorJoins'
      BY <1>7 DEF JobInv, OnlyAcceptorJoins
    <2>2. UniquesAreIssued'
      BY <1>0, <1>2, <1>7 DEF JobInv, UniquesAreIssued
    <2>3. UniquesDiffer'
      BY <1>2, <1>7 DEF JobInv, UniquesDiffer
    <2> QED
      BY <2>1, <2>2, <2>3
  <1>10. /\ \A u \in Uniques : u # unique[x] =>
              leaves'[u] = leaves[u] /\ leavePosts'[u] = leavePosts[u] /\ lastJob'[u] = lastJob[u]
         /\ \A s \in Slots : unique[s] \in {0} \union Uniques /\ unique[s] < stamp
    <2>1. unique[x] \in {0} \union Uniques
      BY <1>0 DEF TypeOK
    <2> DEFINE w == unique[x]
    <2>2. \A u \in Uniques : u # w =>
            leaves'[u] = leaves[u] /\ leavePosts'[u] = leavePosts[u] /\ lastJob'[u] = lastJob[u]
      BY <1>0, <1>2 DEF TypeOK
    <2> QED
      BY <1>0, <2>2 DEF TypeOK, JobInv, UniquesAreIssued
  <1>11. ASSUME NEW v \in Uniques, v = unique[x]
         PROVE  /\ lastJob[v] \in {"JOIN", "RECV"}
                /\ \/ /\ isLogicMultithreaded
                      /\ leaves'[v] = 0 /\ leavePosts'[v] = 1 /\ lastJob'[v] = lastJob[v]
                   \/ /\ ~isLogicMultithreaded
                      /\ leaves'[v] = 1 /\ leavePosts'[v] = 0 /\ lastJob'[v] = "LEAVE"
    <2>1. v # 0
      BY DEF Uniques
    <2>2. Told(v) = 0 /\ lastJob[v] \in {"JOIN", "RECV"}
      BY <1>4, <1>8, <1>11, <2>1 DEF JobInv, SlotsAreTold
    <2>3. leaves[v] = 0 /\ leavePosts[v] = 0
      BY <1>0, <2>2, ToldType
    <2>4. CASE isLogicMultithreaded
      <3>1. leavePosts'[v] = leavePosts[v] + 1 /\ leaves' = leaves /\ lastJob' = lastJob
        BY <1>0, <1>2, <1>11, <2>4 DEF TypeOK
      <3> QED
        BY <2>2, <2>3, <2>4, <3>1
    <2>5. CASE ~isLogicMultithreaded
      <3>1. leaves'[v] = leaves[v] + 1 /\ leavePosts' = leavePosts /\ lastJob'[v] = "LEAVE"
        BY <1>0, <1>2, <1>11, <2>5 DEF TypeOK
      <3> QED
        BY <2>2, <2>3, <2>5, <3>1
    <2> QED
      BY <2>4, <2>5
  <1>12. NewIsUntold'
    <2>1. ASSUME NEW u \in Uniques, u >= stamp \/ Joining(u)
          PROVE  u # unique[x]
      <3>1. u # 0 /\ u \in Int /\ stamp \in Int
        BY <1>0 DEF TypeOK, Uniques
      <3> QED
        BY <1>8, <1>10, <2>1, <3>1
    <2> QED
      BY <1>2, <1>6, <1>10, <2>1 DEF JobInv, NewIsUntold, Told
  <1>13. SlotsAreTold'
    <2>1. ASSUME NEW s \in Slots, unique[s] # 0
          PROVE  /\ Closing(s)' => Told(unique[s])' = 1
                 /\ ~Closing(s)' => /\ Told(unique[s])' = 0
                                    /\ \/ lastJob'[unique[s]] \in {"JOIN", "RECV"}
                                       \/ Joining(unique[s])'
      <3> DEFINE w == unique[s]
      <3>1. w \in Uniques /\ unique'[s] = w
        BY <1>2, <1>10, <2>1
      <3>2. Told(unique[s])' = leaves'[w] + leavePosts'[w]
        BY <3>1 DEF Told
      <3>3. CASE s = x
        <4>1. Told(unique[s])' = 1
          BY <1>11, <3>1, <3>2, <3>3
        <4> QED
          BY <1>4, <3>3, <4>1
      <3>4. CASE s # x
        <4>1. w # unique[x]
          BY <2>1, <3>4 DEF JobInv, UniquesDiffer
        <4>2. Told(unique[s])' = Told(w) /\ lastJob'[w] = lastJob[w]
          BY <1>10, <3>1, <3>2, <4>1 DEF Told
        <4>3. /\ Closing(s) => Told(w) = 1
              /\ ~Closing(s) => /\ Told(w) = 0
                                /\ lastJob[w] \in {"JOIN", "RECV"} \/ Joining(w)
          BY <2>1 DEF JobInv, SlotsAreTold
        <4>4. Joining(w) => Joining(unique[s])'
          BY <1>0, <1>2, <1>5, <3>1 DEF Joining
        <4> QED
          BY <1>4, <3>4, <4>2, <4>3, <4>4
      <3> QED
        BY <3>3, <3>4
    <2> QED
      BY <1>2, <2>1 DEF SlotsAreTold
  <1>14. ToldOnce'
    <2>1. ASSUME NEW u \in Uniques
          PROVE  /\ leaves'[u] + leavePosts'[u] <= 1
                 /\ leavePosts'[u] > 0 => lastJob'[u] \in {"JOIN", "RECV"}
                 /\ leaves'[u] > 0 => lastJob'[u] = "LEAVE"
                 /\ ~isLogicMultithreaded => leavePosts'[u] = 0
      <3>1. CASE u = unique[x]
        BY <1>11, <3>1
      <3>2. CASE u # unique[x]
        BY <1>10, <3>2 DEF JobInv, ToldOnce, Told
      <3> QED
        BY <3>1, <3>2
    <2> QED
      BY <2>1 DEF ToldOnce, Told
  <1>15. NextJob
    BY <1>10, <1>11 DEF NextJob
  <1> QED
    BY <1>9, <1>12, <1>13, <1>14, <1>15 DEF JobInv

(* A posted LEAVE reaches the logic.                                        *)
LEMMA JobPosted ==
  ASSUME Inv, JobInv, NEW t \in Workers, NEW v \in Uniques, ClientLeavePosted(t, v)
  PROVE  JobInv' /\ NextJob
  <1>0. TypeOK
    BY DEF Inv
  <1>1. /\ UNCHANGED <<unique, stamp, freeIdx, session, pc>>
        /\ lastJob' = [lastJob EXCEPT ![v] = "LEAVE"]
        /\ leaves' = [leaves EXCEPT ![v] = @ + 1]
        /\ leavePosts' = [leavePosts EXCEPT ![v] = @ - 1]
        /\ leavePosts[v] > 0
    BY DEF ClientLeavePosted, OnClientLeave, slotVars, arrayVars
  <1>2. /\ leaves'[v] = leaves[v] + 1 /\ leavePosts'[v] = leavePosts[v] - 1
        /\ lastJob'[v] = "LEAVE"
        /\ \A u \in Uniques \ {v} :
             leaves'[u] = leaves[u] /\ leavePosts'[u] = leavePosts[u] /\ lastJob'[u] = lastJob[u]
    BY <1>0, <1>1 DEF TypeOK
  <1>3. /\ leaves[v] = 0 /\ leavePosts[v] = 1 /\ lastJob[v] \in {"JOIN", "RECV"}
        /\ isLogicMultithreaded
    <2>1. leaves[v] \in Nat /\ leavePosts[v] \in Nat /\ leaves[v] + leavePosts[v] <= 1
      BY <1>0, ToldType DEF JobInv, ToldOnce, Told
    <2>2. leaves[v] = 0 /\ leavePosts[v] = 1
      BY <1>1, <2>1
    <2> QED
      BY <1>1, <2>2 DEF JobInv, ToldOnce
  <1>4. \A u \in Uniques : Told(u)' = Told(u)
    <2>1. Told(v)' = Told(v)
      BY <1>2, <1>3 DEF Told
    <2>2. \A u \in Uniques \ {v} : Told(u)' = Told(u)
      BY <1>2 DEF Told
    <2> QED
      BY <2>1, <2>2
  <1>5. Told(v) = 1
    BY <1>3 DEF Told
  <1>6. (\A s \in Slots : Closing(s)' <=> Closing(s)) /\ \A u : Joining(u)' <=> Joining(u)
    BY <1>1 DEF Closing, Joining, Idx
  <1>7. OnlyAcceptorJoins' /\ UniquesAreIssued' /\ UniquesDiffer'
    BY <1>1 DEF JobInv, OnlyAcceptorJoins, UniquesAreIssued, UniquesDiffer
  <1>8. NewIsUntold'
    <2>1. \A u \in Uniques : u >= stamp \/ Joining(u) => u # v
      BY <1>5 DEF JobInv, NewIsUntold
    <2> QED
      BY <1>1, <1>2, <1>4, <1>6, <2>1 DEF JobInv, NewIsUntold
  <1>9. SlotsAreTold'
    <2>1. ASSUME NEW s \in Slots, unique[s] # 0
          PROVE  /\ Closing(s)' => Told(unique[s])' = 1
                 /\ ~Closing(s)' => /\ Told(unique[s])' = 0
                                    /\ \/ lastJob'[unique[s]] \in {"JOIN", "RECV"}
                                       \/ Joining(unique[s])'
      <3> DEFINE w == unique[s]
      <3>1. w \in Uniques /\ unique'[s] = w
        BY <1>0, <1>1, <2>1 DEF TypeOK
      <3>2. Told(unique[s])' = leaves'[w] + leavePosts'[w]
        BY <3>1 DEF Told
      <3>3. leaves'[w] + leavePosts'[w] = Told(w)
        BY <1>4, <3>1 DEF Told
      <3>4. /\ Closing(s) => Told(w) = 1
            /\ ~Closing(s) => /\ Told(w) = 0
                              /\ lastJob[w] \in {"JOIN", "RECV"} \/ Joining(w)
        BY <2>1 DEF JobInv, SlotsAreTold
      <3>5. Joining(w) => Joining(unique[s])'
        BY <1>1, <3>1 DEF Joining
      <3>6. ~Closing(s) => w # v
        BY <1>5, <3>4
      <3> QED
        BY <1>2, <1>6, <3>1, <3>2, <3>3, <3>4, <3>5, <3>6
    <2> QED
      BY <1>1, <2>1 DEF SlotsAreTold
  <1>10. ToldOnce'
    <2>1. ASSUME NEW u \in Uniques
          PROVE  /\ leaves'[u] + leavePosts'[u] <= 1
                 /\ leavePosts'[u] > 0 => lastJob'[u] \in {"JOIN", "RECV"}
                 /\ leaves'[u] > 0 => lastJob'[u] = "LEAVE"
                 /\ ~isLogicMultithreaded => leavePosts'[u] = 0
      <3>1. CASE u = v
        BY <1>2, <1>3, <3>1
      <3>2. CASE u # v
        BY <1>2, <3>2 DEF JobInv, ToldOnce, Told
      <3> QED
        BY <3>1, <3>2
    <2> QED
      BY <2>1 DEF ToldOnce, Told
  <1>11. NextJob
    BY <1>2, <1>3 DEF NextJob
  <1> QED
    BY <1>7, <1>8, <1>9, <1>10, <1>11 DEF JobInv

LEMMA JobInit == Init => JobInv
  <1> SUFFICES ASSUME Init PROVE JobInv
    OBVIOUS
  <1>1. Acceptor \in Threads /\ \A t \in Threads : pc[t] = "idle"
    BY DEF Init, Threads
  <1>2. "idle" \notin JoinSteps
    BY DEF JoinSteps
  <1>3. OnlyAcceptorJoins
    BY <1>1, <1>2 DEF OnlyAcceptorJoins
  <1>4. /\ UniquesAreIssued
        /\ UniquesDiffer
    BY <1>1, <1>2 DEF Init, UniquesAreIssued, UniquesDiffer
  <1>5. \A u \in Uniques : leaves[u] = 0 /\ leavePosts[u] = 0 /\ lastJob[u] = "none"
    BY DEF Init
  <1>6. NewIsUntold /\ ToldOnce
    BY <1>5 DEF NewIsUntold, ToldOnce, Told
  <1>7. SlotsAreTold
    BY DEF Init, SlotsAreTold
  <1> QED
    BY <1>3, <1>4, <1>6, <1>7 DEF JobInv

(* Steps that give the logic no job.                                        *)
LEMMA SameJobs ==
  ASSUME lastJob' = lastJob
  PROVE  NextJob
  BY DEF NextJob

LEMMA AsideJobs ==
  ASSUME JobInv, NEW t \in Threads, Aside(t)
  PROVE  JobInv' /\ NextJob
  BY AsideKeeps, SameJobs DEF Aside, JobVars

LEMMA JobStep ==
  ASSUME Inv, JobInv, [Next]_vars
  PROVE  JobInv' /\ NextJob
  <1>0. TypeOK /\ Workers \subseteq Threads
    BY DEF Inv, Threads
  <1>1. ASSUME NEW t \in Threads, Continue(t)
        PROVE  JobInv' /\ NextJob
    <2>1. CASE AcceptorStep(t)
      <3>1. CASE OnWorkerClientJoin(t)
        BY <3>1, JobJoin
      <3>2. CASE InitializeCount(t) \/ InitializeFields(t) \/ InitializeFlag(t)
        <4>1. lastJob' = lastJob
          BY <3>2 DEF InitializeCount, InitializeFields, InitializeFlag, CountOnly, logicVars
        <4> QED
          BY <3>2, <4>1, JobSlot, JobFields, SameJobs
      <3> QED
        BY <2>1, <3>1, <3>2 DEF AcceptorStep
    <2>2. CASE ReleaseStep(t)
      <3>1. CASE ReleaseSession(t)
        BY <3>1, JobRelease
      <3>2. CASE Destroy(t) \/ PushSessionIndex(t)
        <4>1. lastJob' = lastJob
          BY <3>2 DEF Destroy, PushSessionIndex, logicVars
        <4> QED
          BY <3>2, <4>1, JobSlot, JobPush, SameJobs
      <3>3. CASE Drop(t, 1) \/ Drop(t, 2) \/ SetDeleteFlag(t)
        BY <1>0, <3>3, AsideCalls, AsideJobs
      <3> QED
        BY <2>2, <3>1, <3>2, <3>3 DEF ReleaseStep
    <2>3. CASE CallStep(t)
      BY <1>0, <2>3, AsideCalls, AsideJobs DEF CallStep
    <2>4. CASE SendStep(t)
      BY <1>0, <2>4, AsideIO, AsideJobs
    <2>5. CASE RecvStep(t)
      BY <1>0, <2>5, JobRecv, AsideIO, AsideJobs DEF RecvStep
    <2> QED
      BY <1>1, <2>1, <2>2, <2>3, <2>4, <2>5 DEF Continue
  <1>2. ASSUME NEW t \in Workers, Dequeue(t)
        PROVE  JobInv' /\ NextJob
    <2>1. t \in Threads
      BY <1>0
    <2>2. CASE \E s \in Slots : DequeueRecv(t, s) \/ DequeueSend(t, s)
      BY <1>0, <2>1, <2>2, AsideCalls, AsideJobs
    <2>3. CASE \E g \in Signs : SendSign(t, g)
      BY <1>0, <2>1, <2>3, AsideCalls, AsideJobs
    <2>4. CASE \E u \in Uniques : ClientLeavePosted(t, u)
      BY <2>4, JobPosted
    <2> QED
      BY <1>2, <2>2, <2>3, <2>4 DEF Dequeue
  <1>3. ASSUME NEW t \in Workers, NEW id \in SessionIDs, NEW n \in {1, 2},
               FindSession(t, id, n)
        PROVE  JobInv' /\ NextJob
    <2>1. t \in Threads
      BY <1>0
    <2> QED
      BY <1>0, <1>3, <2>1, AsideCalls, AsideJobs
  <1>4. ASSUME NEW s \in Slots, Accept(s)
        PROVE  JobInv' /\ NextJob
    <2>1. lastJob' = lastJob
      BY <1>4 DEF Accept, logicVars
    <2> QED
      BY <1>4, <2>1, JobAccept, SameJobs
  <1>5. CASE \/ \E s \in Slots : KernelRecv(s) \/ KernelSend(s)
             \/ UNCHANGED vars
    <2>1. lastJob' = lastJob
      BY <1>5 DEF KernelRecv, KernelSend, vars, logicVars
    <2> QED
      BY <1>5, <2>1, JobKernel, SameJobs
  <1> QED
    BY <1>1, <1>2, <1>3, <1>4, <1>5 DEF Next

LEMMA JobInvHolds ==
  ASSUME KernelMatchesMode
  PROVE  Spec => []JobInv
  <1>1. Inv /\ JobInv /\ [Next]_vars => JobInv'
    BY JobStep
  <1> QED
    BY InvHolds, JobInit, <1>1, PTL DEF Spec

(* Only InitializeFields writes ID_ into a slot.                            *)
LEMMA OnlyFieldsRenames ==
  ASSUME [Next]_vars
  PROVE  unique' = unique \/ \E t \in Threads : InitializeFields(t)
  <1> USE DEF slotVars, ControlOnly, CountOnly
  <1>1. ASSUME NEW t \in Threads, Continue(t), ~InitializeFields(t)
        PROVE  unique' = unique
    <2>1. CASE AcceptorStep(t)
      BY <1>1, <2>1 DEF AcceptorStep, InitializeCount, InitializeFlag, OnWorkerClientJoin
    <2>2. CASE ReleaseStep(t)
      BY <2>2 DEF ReleaseStep, Drop, SetDeleteFlag, ReleaseSession, Destroy, PushSessionIndex
    <2>3. CASE CallStep(t)
      BY <2>3 DEF CallStep, AcquireIsDead, AcquireUnique, Disconnect, SetCanceled,
                  CancelIOStep, EnqueueSendQ, AsyncSendPacket
    <2>4. CASE SendStep(t)
      BY <2>4 DEF SendStep, SendPost, SendPostDrain, SendPostEmpty, SendPostWSASend,
                  SendPostPending, OnSendComplete, OnSendCompleteTest, SetSendFlagFalse
    <2>5. CASE RecvStep(t)
      BY <2>5 DEF RecvStep, RecvPost, RecvPostWSARecv, RecvPostPending, OnRecvComplete,
                  CompleteRecvCheck, OperationAborted
    <2> QED
      BY <1>1, <2>1, <2>2, <2>3, <2>4, <2>5 DEF Continue
  <1>2. ASSUME NEW t \in Workers, Dequeue(t)
        PROVE  unique' = unique
    BY <1>2 DEF Dequeue, DequeueRecv, DequeueSend, SendSign, ClientLeavePosted
  <1>3. ASSUME NEW t \in Workers, NEW id \in SessionIDs, NEW n \in {1, 2},
               FindSession(t, id, n)
        PROVE  unique' = unique
    BY <1>3 DEF FindSession
  <1>4. ASSUME NEW s \in Slots, Accept(s) \/ KernelRecv(s) \/ KernelSend(s)
        PROVE  unique' = unique
    BY <1>4 DEF Accept, KernelRecv, KernelSend
  <1>5. CASE UNCHANGED vars
    BY <1>5 DEF vars
  <1> QED
    BY <1>1, <1>2, <1>3, <1>4, <1>5 DEF Next

-------------------------------------------------------------------------------
(* For every number of threads, slots, clients, calls and signs, provided   *)
(* the kernel behaves as the send mode expects.                             *)

(* The end of a session is told at most once, and a slot on the index stack *)
(* that carried a session has told, or posted, its LEAVE.                   *)
THEOREM LeaveIsToldOnce ==
  ASSUME KernelMatchesMode
  PROVE  Spec => []LeaveOncePerSession
  <1>1. ASSUME Inv, JobInv
        PROVE  LeaveOncePerSession
    <2>1. \A s \in freeIdx : s \in Slots /\ Closing(s)
      BY <1>1 DEF Inv, TypeOK, Closing
    <2> QED
      BY <1>1, <2>1 DEF JobInv, ToldOnce, SlotsAreTold, Told, LeaveOncePerSession
  <1> QED
    BY InvHolds, JobInvHolds, <1>1, PTL

(* The jobs of a session arrive as JOIN, RECVs, LEAVE, although the accept  *)
(* thread and several workers enqueue them.                                 *)
THEOREM JobsArriveInOrder ==
  ASSUME KernelMatchesMode
  PROVE  Spec => JobOrder
  <1>1. Inv /\ JobInv /\ [Next]_vars => [NextJob]_vars
    BY JobStep
  <1> QED
    BY InvHolds, JobInvHolds, <1>1, PTL DEF Spec, JobOrder, NextJob

(* When leaves are not posted, InitializeFields overwrites the ID of a slot *)
(* only after the logic was told that its last session ended.               *)
THEOREM ReuseFollowsLeave ==
  ASSUME KernelMatchesMode, ~isLogicMultithreaded
  PROVE  Spec => LeaveBeforeReuse
  <1> DEFINE Reuse == \A s \in Slots : unique'[s] # unique[s] /\ unique[s] # 0 =>
                        lastJob[unique[s]] = "LEAVE"
  <1>1. ASSUME Inv, JobInv, [Next]_vars
        PROVE  [Reuse]_vars
    BY <1>1, OnlyFieldsRenames, JobFields
  <1> QED
    BY InvHolds, JobInvHolds, <1>1, PTL DEF Spec, LeaveBeforeReuse
===============================================================================
