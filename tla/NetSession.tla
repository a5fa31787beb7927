------------------------------ MODULE NetSession ------------------------------
(***************************************************************************)
(* The life of a NetSession slot of NetRoot (NetRoot/NetServer): a slot is *)
(* allocated by the accept thread, referenced by overlapped I/O, by worker *)
(* and logic threads and by posted send signs, disconnected, released by   *)
(* whoever sees its IOcount_ reach zero, and reused for another client.    *)
(*                                                                         *)
(* IOcount_ is 16 bits wide: the high bit marks a slot that is not online  *)
(* and the low bits count references.  Every thread runs the real calls    *)
(* one Interlocked operation, one read of shared state or one system call  *)
(* per step, so that all the interleavings of FindSession, Disconnect,     *)
(* SendPost, RecvPost and ReleaseSession on one slot are explored.         *)
(* Sessions here sit in no pipe (curPipe_ = nullptr).                      *)
(***************************************************************************)
EXTENDS Integers, FiniteSets

CONSTANTS
  Workers,                 (* threads that dequeue completions or call the API *)
  Acceptor,                (* the accept thread                                *)
  MaxSessions,             (* number of slots: eNET_SESSION_MAX_COUNT - 1      *)
  MaxAccepts,              (* bound: clients accepted in a behaviour           *)
  MaxCalls,                (* bound: API calls made in a behaviour             *)
  SendQMax,                (* eNET_PACKET_SEND_Q_MAX_SIZE                      *)
  Signs,                   (* identities of posted eNET_SENDSIGN_KEY packets   *)
  isSendIOPending,         (* isSendIOPending_, a parameter of Start           *)
  isLogicMultithreaded,    (* isLogicMultithreaded_, a parameter of Start      *)
  SendsCompleteAtOnce,     (* the kernel may complete a WSASend synchronously  *)
  PendingSendsSucceed      (* the kernel may finish a pending WSASend normally *)

DELETE_FLAG_BIT == 32768
UShort          == {n \in Nat : n < 65536}
Wrap(n)         == n % 65536           \* unsigned short arithmetic
ClearFlag(n)    == n % DELETE_FLAG_BIT \* n & DELETE_FLAG_MASK

Threads == Workers \union {Acceptor}
Slots   == 1 .. MaxSessions            \* eINDEX_START is 1
Uniques == 1 .. MaxAccepts             \* stamp_ starts at 1

ASSUME ThreadsAssumption ==
  /\ IsFiniteSet(Workers)
  /\ Acceptor \notin Workers
  /\ IsFiniteSet(Signs)
  /\ 2 * Cardinality(Threads) + 2 * Cardinality(Signs) + 3 < DELETE_FLAG_BIT

ASSUME BoundsAssumption ==
  /\ MaxSessions \in Nat
  /\ MaxAccepts \in Nat
  /\ MaxCalls \in Nat
  /\ SendQMax \in Nat

ASSUME ModesAssumption ==
  /\ isSendIOPending \in BOOLEAN
  /\ isLogicMultithreaded \in BOOLEAN
  /\ SendsCompleteAtOnce \in BOOLEAN
  /\ PendingSendsSucceed \in BOOLEAN

VARIABLES
  IOcount,       (* per slot: the 16-bit IOcount_                              *)
  unique,        (* per slot: ID_.element_.unique_                             *)
  isIOCanceled,  (* per slot                                                   *)
  sockOpen,      (* per slot: sock_ # INVALID_SOCKET                           *)
  isSending,     (* per slot: the send flag                                    *)
  sendQ,         (* per slot: number of packets in sendQ_                      *)
  recvIO,        (* per slot: where the recv overlapped is                     *)
  sendIO,        (* per slot: where the send overlapped is                     *)
  signs,         (* per posted send sign: the session ID it carries            *)
  freeIdx,       (* sessionIndexStack_ (the order of its pops is left open)    *)
  stamp,         (* stamp_                                                     *)
  known,         (* session IDs handed to the logic by a JOIN                  *)
  lastJob,       (* per unique: the last job the logic was given for it        *)
  leaves,        (* per unique: LEAVE jobs given to the logic                  *)
  leavePosts,    (* per unique: eNET_CLIENT_LEAVE_KEY packets in the port      *)
  pc,            (* per thread: its next step                                  *)
  session,       (* per thread: the session ID it works on                     *)
  calls,         (* API calls made so far (bounded by MaxCalls)                *)
  errors         (* messages of ErrorQuit and ErrorDisplay that were reached   *)

slotVars   == <<IOcount, unique, isIOCanceled, sockOpen>>
ioVars     == <<recvIO, sendIO>>
sendVars   == <<isSending, sendQ>>
arrayVars  == <<freeIdx, stamp>>
logicVars  == <<known, lastJob, leaves, leavePosts>>
vars == <<slotVars, ioVars, sendVars, signs, arrayVars, logicVars, pc, session,
          calls, errors>>

NoSession  == [index |-> 0, unique |-> 0]
SessionIDs == [index : Slots, unique : Uniques]

RecvStates == {"none", "pending", "data", "closed", "aborted"}
SendStates == {"none", "pending", "sent", "closed", "aborted"}
Jobs       == {"none", "JOIN", "RECV", "LEAVE"}

(* Steps of a thread by the references it owns on the slot of session[t].   *)
ZeroRefs == {"idle", "cas", "leave", "destroy", "push", "init"}
OneRef   == {"dead1", "id1", "disconnect", "cancel1", "cancelIO1", "drop1",
             "aborted", "recvd", "parse", "recvPost", "recvPending",
             "sendPending", "fill", "online", "join"}
            \union (IF isSendIOPending THEN {"sendDone"} ELSE {})
TwoRefs  == {"dead2", "id2", "enqueue", "cancel2", "cancelIO2", "drop2", "sign",
             "sendPost", "drain", "unflag", "wsaSend", "sendTest", "sendFree",
             "wsaRecv"}
            \union (IF isSendIOPending THEN {} ELSE {"sendDone"})
Steps    == ZeroRefs \union OneRef \union TwoRefs

-------------------------------------------------------------------------------
Idx(t)        == session[t].index
isDead(s)     == IOcount[s] >= DELETE_FLAG_BIT
Goto(t, step) == pc' = [pc EXCEPT ![t] = step]
Add(s, n)     == IOcount' = [IOcount EXCEPT ![s] = Wrap(@ + n)]
Return(t)     == /\ Goto(t, "idle")
                 /\ session' = [session EXCEPT ![t] = NoSession]

(* Frames: a step that only moves its thread on, and one that also changes  *)
(* IOcount_.                                                                *)
ControlOnly ==
  UNCHANGED <<slotVars, ioVars, sendVars, signs, arrayVars, logicVars, session,
              calls, errors>>
CountOnly ==
  UNCHANGED <<unique, isIOCanceled, sockOpen, ioVars, sendVars, signs,
              arrayVars, logicVars, session, calls, errors>>

(* CancelIoEx aborts what is pending on the socket of slot s.               *)
CancelIO(s) ==
  /\ recvIO' = [recvIO EXCEPT ![s] = IF @ = "pending" THEN "aborted" ELSE @]
  /\ sendIO' = [sendIO EXCEPT ![s] = IF @ = "pending" THEN "aborted" ELSE @]

Init ==
  /\ IOcount = [s \in Slots |-> DELETE_FLAG_BIT]
  /\ unique = [s \in Slots |-> 0]
  /\ isIOCanceled = [s \in Slots |-> FALSE]
  /\ sockOpen = [s \in Slots |-> FALSE]
  /\ isSending = [s \in Slots |-> FALSE]
  /\ sendQ = [s \in Slots |-> 0]
  /\ recvIO = [s \in Slots |-> "none"]
  /\ sendIO = [s \in Slots |-> "none"]
  /\ signs = [g \in Signs |-> NoSession]
  /\ freeIdx = Slots
  /\ stamp = 1
  /\ known = {}
  /\ lastJob = [u \in Uniques |-> "none"]
  /\ leaves = [u \in Uniques |-> 0]
  /\ leavePosts = [u \in Uniques |-> 0]
  /\ pc = [t \in Threads |-> "idle"]
  /\ session = [t \in Threads |-> NoSession]
  /\ calls = 0
  /\ errors = {}

-------------------------------------------------------------------------------
(* The accept thread: MyAcceptProc, AllocSession, NetSession::Initialize.   *)

Accept(s) ==
  /\ pc[Acceptor] = "idle"
  /\ stamp <= MaxAccepts
  /\ s \in freeIdx
  /\ freeIdx' = freeIdx \ {s}
  /\ stamp' = stamp + 1
  /\ session' = [session EXCEPT ![Acceptor] = [index |-> s, unique |-> stamp]]
  /\ Goto(Acceptor, "init")
  /\ UNCHANGED <<slotVars, ioVars, sendVars, signs, logicVars, calls, errors>>

InitializeCount(t) ==
  /\ pc[t] = "init"
  /\ Add(Idx(t), 1)
  /\ Goto(t, "fill")
  /\ CountOnly

InitializeFields(t) ==
  /\ pc[t] = "fill"
  /\ unique' = [unique EXCEPT ![Idx(t)] = session[t].unique]
  /\ sockOpen' = [sockOpen EXCEPT ![Idx(t)] = TRUE]
  /\ isIOCanceled' = [isIOCanceled EXCEPT ![Idx(t)] = FALSE]
  /\ Goto(t, "online")
  /\ UNCHANGED <<IOcount, ioVars, sendVars, signs, arrayVars, logicVars,
                 session, calls, errors>>

InitializeFlag(t) ==
  /\ pc[t] = "online"
  /\ IOcount' = [IOcount EXCEPT ![Idx(t)] = ClearFlag(@)]
  /\ Goto(t, "join")
  /\ CountOnly

OnWorkerClientJoin(t) ==
  /\ pc[t] = "join"
  /\ lastJob' = [lastJob EXCEPT ![session[t].unique] = "JOIN"]
  /\ known' = known \union {session[t]}
  /\ Goto(t, "recvPost")
  /\ UNCHANGED <<slotVars, ioVars, sendVars, signs, arrayVars, leaves,
                 leavePosts, session, calls, errors>>

-------------------------------------------------------------------------------
(* FindSession (1 reference) and FindSessionForSendPacket (2 references).   *)

FindSession(t, id, n) ==
  /\ t \in Workers
  /\ pc[t] = "idle"
  /\ calls < MaxCalls
  /\ calls' = calls + 1
  /\ id \in known
  /\ session' = [session EXCEPT ![t] = id]
  /\ Add(id.index, n)
  /\ Goto(t, IF n = 1 THEN "dead1" ELSE "dead2")
  /\ UNCHANGED <<unique, isIOCanceled, sockOpen, ioVars, sendVars, signs,
                 arrayVars, logicVars, errors>>

(* Variant: AcquireSession without its isDead test.                         *)
AcquireIsDead_Unchecked(t) ==
  /\ \/ pc[t] = "dead1" /\ Goto(t, "id1")
     \/ pc[t] = "dead2" /\ Goto(t, "id2")
  /\ ControlOnly

AcquireIsDead(t) ==
  /\ \/ /\ pc[t] = "dead1"
        /\ Goto(t, IF isDead(Idx(t)) THEN "drop1" ELSE "id1")
     \/ /\ pc[t] = "dead2"
        /\ Goto(t, IF isDead(Idx(t)) THEN "drop2" ELSE "id2")
  /\ ControlOnly

AcquireUnique(t) ==
  /\ LET same == unique[Idx(t)] = session[t].unique
     IN  \/ /\ pc[t] = "id1"
            /\ Goto(t, IF same THEN "disconnect" ELSE "drop1")
         \/ /\ pc[t] = "id2"
            /\ Goto(t, IF same THEN "enqueue" ELSE "drop2")
  /\ ControlOnly

(* NetRoot::Disconnect backs off from a session that is already canceled.   *)
Disconnect(t) ==
  /\ pc[t] = "disconnect"
  /\ Goto(t, IF isIOCanceled[Idx(t)] THEN "drop1" ELSE "cancel1")
  /\ ControlOnly

(* Variant: a Disconnect that forgets isIOCanceled_.                        *)
SetCanceled_NoFlag(t) ==
  /\ \/ pc[t] = "cancel1" /\ Goto(t, "cancelIO1")
     \/ pc[t] = "cancel2" /\ Goto(t, "cancelIO2")
  /\ ControlOnly

(* NetSession::Disconnect: the flag first, then CancelIoEx, and the caller  *)
(* then gives back its references.                                          *)
SetCanceled(t) ==
  /\ \/ pc[t] = "cancel1" /\ Goto(t, "cancelIO1")
     \/ pc[t] = "cancel2" /\ Goto(t, "cancelIO2")
  /\ isIOCanceled' = [isIOCanceled EXCEPT ![Idx(t)] = TRUE]
  /\ UNCHANGED <<IOcount, unique, sockOpen, ioVars, sendVars, signs, arrayVars,
                 logicVars, session, calls, errors>>

CancelIOStep(t) ==
  /\ \/ pc[t] = "cancelIO1" /\ Goto(t, "drop1")
     \/ pc[t] = "cancelIO2" /\ Goto(t, "drop2")
  /\ CancelIO(Idx(t))
  /\ UNCHANGED <<slotVars, sendVars, signs, arrayVars, logicVars, session,
                 calls, errors>>

(* DecrementIOCount (n = 1) and SubIOCount (n = 2): the thread that sees    *)
(* zero goes on to ReleaseSession.                                          *)
Drop(t, n) ==
  LET count == Wrap(IOcount[Idx(t)] - n)
  IN  /\ pc[t] = IF n = 1 THEN "drop1" ELSE "drop2"
      /\ Add(Idx(t), -n)
      /\ IF count = 0
           THEN Goto(t, "cas") /\ UNCHANGED session
           ELSE Return(t)
      /\ errors' = IF count = DELETE_FLAG_BIT - n
                     THEN errors \union {"UnderZero"} ELSE errors
      /\ UNCHANGED <<unique, isIOCanceled, sockOpen, ioVars, sendVars, signs,
                     arrayVars, logicVars, calls>>

-------------------------------------------------------------------------------
(* ReleaseSession and DeleteSession.                                        *)

(* Variant: the delete flag is stored, not compared and exchanged.          *)
SetDeleteFlag_Blind(t) ==
  /\ pc[t] = "cas"
  /\ IOcount' = [IOcount EXCEPT ![Idx(t)] = DELETE_FLAG_BIT]
  /\ Goto(t, "leave")
  /\ CountOnly

(* Variant: the index is pushed before the logic hears of the leave.        *)
SetDeleteFlag_PushesIndex(t) ==
  /\ pc[t] = "cas"
  /\ IF IOcount[Idx(t)] = 0
       THEN /\ IOcount' = [IOcount EXCEPT ![Idx(t)] = DELETE_FLAG_BIT]
            /\ freeIdx' = freeIdx \union {Idx(t)}
            /\ Goto(t, "leave")
            /\ UNCHANGED session
       ELSE Return(t) /\ UNCHANGED <<IOcount, freeIdx>>
  /\ UNCHANGED <<unique, isIOCanceled, sockOpen, ioVars, sendVars, signs,
                 stamp, logicVars, calls, errors>>

SetDeleteFlag(t) ==
  /\ pc[t] = "cas"
  /\ IF IOcount[Idx(t)] = 0
       THEN /\ IOcount' = [IOcount EXCEPT ![Idx(t)] = DELETE_FLAG_BIT]
            /\ Goto(t, "leave")
            /\ UNCHANGED session
       ELSE Return(t) /\ UNCHANGED IOcount
  /\ UNCHANGED <<unique, isIOCanceled, sockOpen, ioVars, sendVars, signs,
                 arrayVars, logicVars, calls, errors>>

OnClientLeave(u) ==
  /\ lastJob' = [lastJob EXCEPT ![u] = "LEAVE"]
  /\ leaves' = [leaves EXCEPT ![u] = @ + 1]

ReleaseSession(t) ==
  /\ pc[t] = "leave"
  /\ LET u == unique[Idx(t)]
     IN  IF isLogicMultithreaded
           THEN /\ leavePosts' = [leavePosts EXCEPT ![u] = @ + 1]
                /\ UNCHANGED <<lastJob, leaves>>
           ELSE OnClientLeave(u) /\ UNCHANGED leavePosts
  /\ Goto(t, "destroy")
  /\ UNCHANGED <<slotVars, ioVars, sendVars, signs, arrayVars, known, session,
                 calls, errors>>

Destroy(t) ==
  /\ pc[t] = "destroy"
  /\ isSending' = [isSending EXCEPT ![Idx(t)] = FALSE]
  /\ sendQ' = [sendQ EXCEPT ![Idx(t)] = 0]
  /\ sockOpen' = [sockOpen EXCEPT ![Idx(t)] = FALSE]
  /\ errors' = IF sockOpen[Idx(t)]
                 THEN errors ELSE errors \union {"ClosedTwice"}
  /\ Goto(t, "push")
  /\ UNCHANGED <<IOcount, unique, isIOCanceled, ioVars, signs, arrayVars,
                 logicVars, session, calls>>

PushSessionIndex(t) ==
  /\ pc[t] = "push"
  /\ freeIdx' = freeIdx \union {Idx(t)}
  /\ Return(t)
  /\ UNCHANGED <<slotVars, ioVars, sendVars, signs, stamp, logicVars, calls,
                 errors>>

(* eNET_CLIENT_LEAVE_KEY, posted when the logic is multithreaded.           *)
ClientLeavePosted(t, u) ==
  /\ t \in Workers
  /\ pc[t] = "idle"
  /\ leavePosts[u] > 0
  /\ leavePosts' = [leavePosts EXCEPT ![u] = @ - 1]
  /\ OnClientLeave(u)
  /\ UNCHANGED <<slotVars, ioVars, sendVars, signs, arrayVars, known, pc,
                 session, calls, errors>>

-------------------------------------------------------------------------------
(* Sending.  SendPacket goes on to SendPost itself; AsyncSendPacket posts a *)
(* send sign that carries its two references to a worker.                   *)

(* Variant: no test of the queue's capacity.                                *)
EnqueueSendQ_NeverFull(t) ==
  /\ pc[t] = "enqueue"
  /\ IF isIOCanceled[Idx(t)]
       THEN Goto(t, "cancel2") /\ UNCHANGED sendQ
       ELSE /\ sendQ' = [sendQ EXCEPT ![Idx(t)] = @ + 1]
            /\ Goto(t, "sendPost") \/ Goto(t, "sign")
  /\ UNCHANGED <<slotVars, ioVars, isSending, signs, arrayVars, logicVars,
                 session, calls, errors>>

EnqueueSendQ(t) ==
  /\ pc[t] = "enqueue"
  /\ IF isIOCanceled[Idx(t)] \/ sendQ[Idx(t)] >= SendQMax
       THEN Goto(t, "cancel2") /\ UNCHANGED sendQ
       ELSE /\ sendQ' = [sendQ EXCEPT ![Idx(t)] = @ + 1]
            /\ Goto(t, "sendPost") \/ Goto(t, "sign")
  /\ UNCHANGED <<slotVars, ioVars, isSending, signs, arrayVars, logicVars,
                 session, calls, errors>>

AsyncSendPacket(t) ==
  /\ pc[t] = "sign"
  /\ IF isSending[Idx(t)]
       THEN Goto(t, "drop2") /\ UNCHANGED <<signs, session>>
       ELSE \E g \in Signs :
              /\ signs[g] = NoSession
              /\ signs' = [signs EXCEPT ![g] = session[t]]
              /\ Return(t)
  /\ UNCHANGED <<slotVars, ioVars, sendVars, arrayVars, logicVars, calls,
                 errors>>

(* eNET_SENDSIGN_KEY: FindSessionWithoutInterlock, then SendPost.           *)
SendSign(t, g) ==
  /\ t \in Workers
  /\ pc[t] = "idle"
  /\ signs[g] # NoSession
  /\ signs' = [signs EXCEPT ![g] = NoSession]
  /\ session' = [session EXCEPT ![t] = signs[g]]
  /\ Goto(t, "sendPost")
  /\ UNCHANGED <<slotVars, ioVars, sendVars, arrayVars, logicVars, calls,
                 errors>>

(* Variant: the send flag is set without looking at its old value.          *)
SendPost_IgnoresFlag(t) ==
  /\ pc[t] = "sendPost"
  /\ isSending' = [isSending EXCEPT ![Idx(t)] = TRUE]
  /\ Goto(t, "drain")
  /\ UNCHANGED <<slotVars, ioVars, sendQ, signs, arrayVars, logicVars, session,
                 calls, errors>>

SendPost(t) ==
  /\ pc[t] = "sendPost"
  /\ isSending' = [isSending EXCEPT ![Idx(t)] = TRUE]
  /\ Goto(t, IF isSending[Idx(t)] THEN "drop2" ELSE "drain")
  /\ UNCHANGED <<slotVars, ioVars, sendQ, signs, arrayVars, logicVars, session,
                 calls, errors>>

(* FreeSentPacket and the loop that empties sendQ_ into sentQ_: the loop    *)
(* ends when it finds the queue empty, so it is one step at that moment.    *)
SendPostDrain(t) ==
  /\ pc[t] = "drain"
  /\ sendQ' = [sendQ EXCEPT ![Idx(t)] = 0]
  /\ Goto(t, IF sendQ[Idx(t)] = 0 THEN "unflag" ELSE "wsaSend")
  /\ UNCHANGED <<slotVars, ioVars, isSending, signs, arrayVars, logicVars,
                 session, calls, errors>>

SendPostEmpty(t) ==
  /\ pc[t] = "unflag"
  /\ isSending' = [isSending EXCEPT ![Idx(t)] = FALSE]
  /\ Goto(t, "drop2")
  /\ UNCHANGED <<slotVars, ioVars, sendQ, signs, arrayVars, logicVars, session,
                 calls, errors>>

(* WSASend: done at once (both references stay with the completion),        *)
(* pending (one reference stays), or refused.                               *)
SendPostWSASend(t) ==
  /\ pc[t] = "wsaSend"
  /\ \/ /\ SendsCompleteAtOnce
        /\ sendIO' = [sendIO EXCEPT ![Idx(t)] = "sent"]
        /\ Return(t)
     \/ /\ sendIO' = [sendIO EXCEPT ![Idx(t)] = "pending"]
        /\ Goto(t, "sendPending")
        /\ UNCHANGED session
     \/ /\ Goto(t, "cancel2")
        /\ UNCHANGED <<sendIO, session>>
  /\ UNCHANGED <<slotVars, recvIO, sendVars, signs, arrayVars, logicVars, calls,
                 errors>>

SendPostPending(t) ==
  /\ pc[t] = "sendPending"
  /\ Goto(t, IF isIOCanceled[Idx(t)] THEN "cancelIO1"
             ELSE IF isSendIOPending THEN "drop1" ELSE "cancel1")
  /\ ControlOnly

(* OnSendComplete.                                                          *)
OnSendComplete(t) ==
  /\ pc[t] = "sendDone"
  /\ IF isSendIOPending THEN Add(Idx(t), 1) ELSE UNCHANGED IOcount
  /\ Goto(t, "sendTest")
  /\ CountOnly

OnSendCompleteTest(t) ==
  /\ pc[t] = "sendTest"
  /\ Goto(t, IF isIOCanceled[Idx(t)] THEN "drop2" ELSE "sendFree")
  /\ ControlOnly

SetSendFlagFalse(t) ==
  /\ pc[t] = "sendFree"
  /\ isSending' = [isSending EXCEPT ![Idx(t)] = FALSE]
  /\ Goto(t, "sendPost")
  /\ UNCHANGED <<slotVars, ioVars, sendQ, signs, arrayVars, logicVars, session,
                 calls, errors>>

-------------------------------------------------------------------------------
(* Receiving: RecvPost and OnRecvComplete.                                  *)

RecvPost(t) ==
  /\ pc[t] = "recvPost"
  /\ Add(Idx(t), 1)
  /\ Goto(t, "wsaRecv")
  /\ CountOnly

(* Variant: a failed WSARecv gives back one reference only.                 *)
RecvPostWSARecv_FailureDropsOne(t) ==
  /\ pc[t] = "wsaRecv"
  /\ \/ /\ \E result \in {"data", "closed"} :
             recvIO' = [recvIO EXCEPT ![Idx(t)] = result]
        /\ Goto(t, "drop1")
     \/ /\ recvIO' = [recvIO EXCEPT ![Idx(t)] = "pending"]
        /\ Goto(t, "recvPending")
     \/ /\ Goto(t, "cancel1")
        /\ UNCHANGED recvIO
  /\ UNCHANGED <<slotVars, sendIO, sendVars, signs, arrayVars, logicVars,
                 session, calls, errors>>

(* Variant: the reference of the posted recv is given back with the         *)
(* caller's.                                                                *)
RecvPostWSARecv_DropsBoth(t) ==
  /\ pc[t] = "wsaRecv"
  /\ \/ /\ \E result \in {"data", "closed", "pending"} :
             recvIO' = [recvIO EXCEPT ![Idx(t)] = result]
        /\ Goto(t, "drop2")
     \/ /\ Goto(t, "cancel2")
        /\ UNCHANGED recvIO
  /\ UNCHANGED <<slotVars, sendIO, sendVars, signs, arrayVars, logicVars,
                 session, calls, errors>>

(* Variant: data that is there at once is parsed on the spot, although the  *)
(* completion is queued as well.                                            *)
RecvPostWSARecv_ParsesAtOnce(t) ==
  /\ pc[t] = "wsaRecv"
  /\ \/ /\ recvIO' = [recvIO EXCEPT ![Idx(t)] = "data"]
        /\ Goto(t, "recvd")
     \/ /\ recvIO' = [recvIO EXCEPT ![Idx(t)] = "pending"]
        /\ Goto(t, "recvPending")
     \/ /\ Goto(t, "cancel2")
        /\ UNCHANGED recvIO
  /\ UNCHANGED <<slotVars, sendIO, sendVars, signs, arrayVars, logicVars,
                 session, calls, errors>>

RecvPostWSARecv(t) ==
  /\ pc[t] = "wsaRecv"
  /\ \/ /\ \E result \in {"data", "closed"} :
             recvIO' = [recvIO EXCEPT ![Idx(t)] = result]
        /\ Goto(t, "drop1")
     \/ /\ recvIO' = [recvIO EXCEPT ![Idx(t)] = "pending"]
        /\ Goto(t, "recvPending")
     \/ /\ Goto(t, "cancel2")
        /\ UNCHANGED recvIO
  /\ UNCHANGED <<slotVars, sendIO, sendVars, signs, arrayVars, logicVars,
                 session, calls, errors>>

(* Variant: isIOCanceled_ is not read again after WSARecv went pending.     *)
RecvPostPending_NoRecheck(t) ==
  /\ pc[t] = "recvPending"
  /\ Goto(t, "drop1")
  /\ ControlOnly

RecvPostPending(t) ==
  /\ pc[t] = "recvPending"
  /\ Goto(t, IF isIOCanceled[Idx(t)] THEN "cancelIO1" ELSE "drop1")
  /\ ControlOnly

OnRecvComplete(t) ==
  /\ pc[t] = "recvd"
  /\ Goto(t, IF isIOCanceled[Idx(t)] THEN "drop1" ELSE "parse")
  /\ ControlOnly

(* CompleteRecvCheck_PacketQ: whole packets go to the logic as a RECV job,  *)
(* a partial packet does not, a malformed one disconnects.                  *)
CompleteRecvCheck(t) ==
  /\ pc[t] = "parse"
  /\ \/ /\ lastJob' = [lastJob EXCEPT ![unique[Idx(t)]] = "RECV"]
        /\ Goto(t, "recvPost")
     \/ Goto(t, "recvPost") /\ UNCHANGED lastJob
     \/ Goto(t, "cancel1") /\ UNCHANGED lastJob
  /\ UNCHANGED <<slotVars, ioVars, sendVars, signs, arrayVars, known, leaves,
                 leavePosts, session, calls, errors>>

-------------------------------------------------------------------------------
(* MyWorkerProc: a completion is dequeued.  An aborted I/O on a session     *)
(* that nobody canceled is an ErrorQuit.                                    *)

DequeueRecv(t, s) ==
  /\ t \in Workers
  /\ pc[t] = "idle"
  /\ recvIO[s] \in {"data", "closed", "aborted"}
  /\ recvIO' = [recvIO EXCEPT ![s] = "none"]
  /\ session' = [session EXCEPT ![t] = [index |-> s, unique |-> unique[s]]]
  /\ Goto(t, CASE recvIO[s] = "data"    -> "recvd"
               [] recvIO[s] = "closed"  -> "cancel1"
               [] recvIO[s] = "aborted" -> "aborted")
  /\ UNCHANGED <<slotVars, sendIO, sendVars, signs, arrayVars, logicVars, calls,
                 errors>>

DequeueSend(t, s) ==
  /\ t \in Workers
  /\ pc[t] = "idle"
  /\ sendIO[s] \in {"sent", "closed", "aborted"}
  /\ sendIO' = [sendIO EXCEPT ![s] = "none"]
  /\ session' = [session EXCEPT ![t] = [index |-> s, unique |-> unique[s]]]
  /\ Goto(t, CASE sendIO[s] = "sent"    -> "sendDone"
               [] sendIO[s] = "closed"  -> "cancel1"
               [] sendIO[s] = "aborted" -> "aborted")
  /\ UNCHANGED <<slotVars, recvIO, sendVars, signs, arrayVars, logicVars, calls,
                 errors>>

OperationAborted(t) ==
  /\ pc[t] = "aborted"
  /\ Goto(t, "drop1")
  /\ errors' = IF isIOCanceled[Idx(t)]
                 THEN errors ELSE errors \union {"NotCanceled"}
  /\ UNCHANGED <<slotVars, ioVars, sendVars, signs, arrayVars, logicVars,
                 session, calls>>

(* The kernel finishes a pending operation without having been asked to     *)
(* cancel it: data, a FIN or a reset for a recv, a reset for a send, and,   *)
(* if PendingSendsSucceed, the bytes are sent after all.                    *)
KernelRecv(s) ==
  /\ recvIO[s] = "pending"
  /\ \E result \in {"data", "closed"} : recvIO' = [recvIO EXCEPT ![s] = result]
  /\ UNCHANGED <<slotVars, sendIO, sendVars, signs, arrayVars, logicVars, pc,
                 session, calls, errors>>

KernelSend(s) ==
  /\ sendIO[s] = "pending"
  /\ \/ sendIO' = [sendIO EXCEPT ![s] = "closed"]
     \/ PendingSendsSucceed /\ sendIO' = [sendIO EXCEPT ![s] = "sent"]
  /\ UNCHANGED <<slotVars, recvIO, sendVars, signs, arrayVars, logicVars, pc,
                 session, calls, errors>>
-------------------------------------------------------------------------------
AcceptorStep(t) ==
  \/ InitializeCount(t) \/ InitializeFields(t) \/ InitializeFlag(t)
  \/ OnWorkerClientJoin(t)

ReleaseStep(t) ==
  \/ Drop(t, 1) \/ Drop(t, 2) \/ SetDeleteFlag(t) \/ ReleaseSession(t)
  \/ Destroy(t) \/ PushSessionIndex(t)

CallStep(t) ==
  \/ AcquireIsDead(t) \/ AcquireUnique(t) \/ Disconnect(t) \/ SetCanceled(t)
  \/ CancelIOStep(t) \/ EnqueueSendQ(t) \/ AsyncSendPacket(t)

SendStep(t) ==
  \/ SendPost(t) \/ SendPostDrain(t) \/ SendPostEmpty(t) \/ SendPostWSASend(t)
  \/ SendPostPending(t) \/ OnSendComplete(t) \/ OnSendCompleteTest(t)
  \/ SetSendFlagFalse(t)

RecvStep(t) ==
  \/ RecvPost(t) \/ RecvPostWSARecv(t) \/ RecvPostPending(t)
  \/ OnRecvComplete(t) \/ CompleteRecvCheck(t) \/ OperationAborted(t)

(* What a thread does next inside the procedure it is running.              *)
Continue(t) ==
  AcceptorStep(t) \/ ReleaseStep(t) \/ CallStep(t) \/ SendStep(t) \/ RecvStep(t)

(* What a pool thread does when it returns to GetQueuedCompletionStatus.    *)
Dequeue(t) ==
  \/ \E s \in Slots : DequeueRecv(t, s) \/ DequeueSend(t, s)
  \/ \E g \in Signs : SendSign(t, g)
  \/ \E u \in Uniques : ClientLeavePosted(t, u)

Next ==
  \/ \E s \in Slots : Accept(s) \/ KernelRecv(s) \/ KernelSend(s)
  \/ \E t \in Threads : Continue(t)
  \/ \E t \in Workers : Dequeue(t)
  \/ \E t \in Workers, id \in SessionIDs, n \in {1, 2} : FindSession(t, id, n)

Spec == Init /\ [][Next]_vars

(* Every thread keeps running its procedure, and the pool empties the       *)
(* completion port.  Nothing else is promised: the client may stay silent   *)
(* and the logic may never call.                                            *)
Fairness ==
  /\ \A t \in Threads : WF_vars(Continue(t))
  /\ WF_vars(\E t \in Workers : Dequeue(t))

FairSpec == Spec /\ Fairness

-------------------------------------------------------------------------------
(* The parts of the state the properties speak of.                          *)

(* Threads that acquired or own the present incarnation of their slot.      *)
AliveSteps == (OneRef \union TwoRefs)
                \ {"dead1", "dead2", "drop1", "drop2", "fill", "online"}
BoundSteps == AliveSteps \ {"id1", "id2"}
OwnerSteps == {"leave", "destroy", "push", "init", "fill", "online"}
FlagSteps  == {"drain", "unflag", "wsaSend", "sendDone", "sendTest", "sendFree"}

RecvSteps  == {"join", "recvPost", "wsaRecv", "recvd", "parse"}

OneHolders(s)  == {t \in Threads : pc[t] \in OneRef /\ Idx(t) = s}
TwoHolders(s)  == {t \in Threads : pc[t] \in TwoRefs /\ Idx(t) = s}
SignHolders(s) == {g \in Signs : signs[g].index = s}
ThreadRefs(s)  == Cardinality(OneHolders(s)) + 2 * Cardinality(TwoHolders(s))
SignRefs(s)    == 2 * Cardinality(SignHolders(s))
RecvRefs(s)    == IF recvIO[s] = "none" THEN 0 ELSE 1
SendRefs(s)    == IF sendIO[s] = "none" THEN 0
                  ELSE IF sendIO[s] = "sent" /\ ~isSendIOPending THEN 2 ELSE 1
References(s)  == ThreadRefs(s) + SignRefs(s) + RecvRefs(s) + SendRefs(s)

(* The kernel behaves as the send mode the server was started in expects:   *)
(* NetRoot::SendPost and OnSendComplete count right for no other kernel.    *)
KernelMatchesMode ==
  IF isSendIOPending THEN ~SendsCompleteAtOnce ELSE ~PendingSendsSucceed

MaybeIDs == [index : {0} \union Slots, unique : {0} \union Uniques]

TypeOK ==
  /\ IOcount \in [Slots -> UShort]
  /\ unique \in [Slots -> {0} \union Uniques]
  /\ isIOCanceled \in [Slots -> BOOLEAN]
  /\ sockOpen \in [Slots -> BOOLEAN]
  /\ isSending \in [Slots -> BOOLEAN]
  /\ sendQ \in [Slots -> 0 .. SendQMax]
  /\ recvIO \in [Slots -> RecvStates]
  /\ sendIO \in [Slots -> SendStates]
  /\ signs \in [Signs -> MaybeIDs]
  /\ \A g \in Signs : signs[g] # NoSession => signs[g].index \in Slots
  /\ freeIdx \subseteq Slots
  /\ stamp \in 1 .. (MaxAccepts + 1)
  /\ known \subseteq MaybeIDs
  /\ lastJob \in [Uniques -> Jobs]
  /\ leaves \in [Uniques -> Nat]
  /\ leavePosts \in [Uniques -> Nat]
  /\ pc \in [Threads -> Steps]
  /\ session \in [Threads -> MaybeIDs]
  /\ \A t \in Threads : pc[t] # "idle" => Idx(t) \in Slots
  /\ calls \in 0 .. MaxCalls
  /\ errors \subseteq {"UnderZero", "ClosedTwice", "NotCanceled"}

(***************************************************************************)
(* The low bits of IOcount_ are exactly the references held by threads, by *)
(* posted send signs and by overlapped I/O, whatever the interleaving: no  *)
(* path through RecvPost, SendPost or OnSendComplete gives back one        *)
(* reference too many or too few.                                          *)
(***************************************************************************)
CountMatchesReferences ==
  \A s \in Slots : ClearFlag(IOcount[s]) = References(s)

(***************************************************************************)
(* A session somebody may still touch is not released: while a thread is   *)
(* past AcquireSession, an overlapped operation is outstanding or a send   *)
(* sign is posted, the slot is online and still carries the same ID.       *)
(***************************************************************************)
ReferencedIsAlive ==
  /\ \A t \in Threads : pc[t] \in AliveSteps => ~isDead(Idx(t))
  /\ \A t \in Threads : pc[t] \in BoundSteps => unique[Idx(t)] = session[t].unique
  /\ \A g \in Signs : signs[g] # NoSession =>
       /\ ~isDead(signs[g].index)
       /\ unique[signs[g].index] = signs[g].unique
  /\ \A s \in Slots : (recvIO[s] # "none" \/ sendIO[s] # "none") => ~isDead(s)

(***************************************************************************)
(* A slot that is not online belongs to exactly one party: the index stack *)
(* or the one thread that is releasing or initializing it.  So an index is *)
(* never pushed twice and Destroy never runs on a slot in use.             *)
(***************************************************************************)
Owners(s) == {t \in Threads : pc[t] \in OwnerSteps /\ Idx(t) = s}

DeadSlotHasOneOwner ==
  \A s \in Slots :
    /\ isDead(s) <=> (s \in freeIdx \/ Owners(s) # {})
    /\ s \in freeIdx => Owners(s) = {}
    /\ \A t, u \in Owners(s) : t = u

(***************************************************************************)
(* The send flag lets one sender in: at most one thread is between taking  *)
(* the flag and handing the buffers to WSASend or giving the flag back,    *)
(* and none is while a send is outstanding, so sentQ_ and the packets the  *)
(* kernel reads are not freed under it.                                    *)
(***************************************************************************)
FlagHolders(s) == {t \in Threads : pc[t] \in FlagSteps /\ Idx(t) = s}

OneSendAtATime ==
  \A s \in Slots :
    /\ \A t, u \in FlagHolders(s) : t = u
    /\ sendIO[s] # "none" => FlagHolders(s) = {}
    /\ (FlagHolders(s) # {} \/ sendIO[s] # "none") => isSending[s]

(***************************************************************************)
(* One receive at a time: a session has either a recv outstanding or one   *)
(* thread that parses what was received and posts the next recv, so the    *)
(* receive buffer has one user and the packets stay in order.              *)
(***************************************************************************)
Receivers(s) == {t \in Threads : pc[t] \in RecvSteps /\ Idx(t) = s}

OneRecvAtATime ==
  \A s \in Slots :
    /\ \A t, u \in Receivers(s) : t = u
    /\ recvIO[s] # "none" => Receivers(s) = {}

(***************************************************************************)
(* The logic hears of every session's end once, and only a session whose   *)
(* LEAVE was issued gives its index to a new client (ReleaseSession).      *)
(***************************************************************************)
LeaveOncePerSession ==
  /\ \A u \in Uniques : leaves[u] + leavePosts[u] <= 1
  /\ \A s \in freeIdx : unique[s] # 0 => leaves[unique[s]] + leavePosts[unique[s]] = 1

(* The checks of DecrementIOCount and SubIOCount ("IOCount Under Zero"), of  *)
(* Destroy ("Socket Closed Twice") and of MyWorkerProc (an aborted I/O of a *)
(* session that is "Not Canceled") never fire.                              *)
NoUnderZero == "UnderZero" \notin errors
NoErrors    == errors = {}

(***************************************************************************)
(* What the update thread relies on: for every session the jobs arrive as  *)
(* one JOIN, then RECVs, then the LEAVE, and nothing after it, although    *)
(* they are enqueued by the accept thread and by several workers.          *)
(***************************************************************************)
JobOrder ==
  [][\A u \in Uniques : lastJob'[u] # lastJob[u] =>
       \/ lastJob[u] = "none" /\ lastJob'[u] = "JOIN"
       \/ lastJob[u] = "JOIN" /\ lastJob'[u] \in {"RECV", "LEAVE"}
       \/ lastJob[u] = "RECV" /\ lastJob'[u] = "LEAVE"]_vars

(***************************************************************************)
(* A slot changes hands only after the logic was told about the end of its *)
(* last session (when the logic is not multithreaded).                     *)
(***************************************************************************)
LeaveBeforeReuse ==
  [][\A s \in Slots : unique'[s] # unique[s] /\ unique[s] # 0 =>
       lastJob[unique[s]] = "LEAVE"]_vars

(***************************************************************************)
(* A canceled session is released in the end and its LEAVE is told or      *)
(* posted: no interleaving of Disconnect with RecvPost or SendPost leaves  *)
(* an overlapped operation pending that nobody cancels.                    *)
(***************************************************************************)
CanceledIsReleased ==
  \A s \in Slots, u \in Uniques :
    (unique[s] = u /\ isIOCanceled[s] /\ ~isDead(s))
      ~> (leaves[u] + leavePosts[u] = 1)
===============================================================================
