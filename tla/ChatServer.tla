------------------------------ MODULE ChatServer -------------------------------
(***************************************************************************)
(* ChatServer (ChatServer/Single): the update thread owns connectedMap_,   *)
(* onlineMap_ and the sector map, and changes them only while it handles a *)
(* job of jobQ_PacketQ_.  The network threads put the jobs there (JOIN,    *)
(* RECV and LEAVE of a session, in this order: NetSession!JobOrder), and   *)
(* the auth thread answers the logins that need a look into Redis.         *)
(*                                                                         *)
(* Session IDs are never reused.  The packets of a RECV job are chosen     *)
(* when the update thread comes to them, which nobody can tell apart from  *)
(* choosing them when they arrive.                                         *)
(***************************************************************************)
EXTENDS Integers, FiniteSets, Sequences

CONSTANTS
  Sessions,          (* NetSessionIDs of all the clients that ever connect   *)
  Accounts,          (* account numbers that clients send, 0 or more         *)
  AuthAccounts,      (* those of at least 1000000, checked with Redis        *)
  SECTOR_X_MAX, SECTOR_Y_MAX,
  JOBQ_MAX_SIZE,     (* capacity of jobQ_PacketQ_                            *)
  ID_SET_MAX,        (* capacity of a NetSessionIDSet: 1023                  *)
  MaxRecvs,          (* bound: RECV jobs of one session                      *)
  FreedSetIsReused,  (* a freed NetPacketSet may be overwritten at once      *)
  None

Positions == (0 .. SECTOR_X_MAX - 1) \X (0 .. SECTOR_Y_MAX - 1)
Default   == <<30000, 30000>>            \* X_DEFAULT, Y_DEFAULT

ASSUME ChatAssumption ==
  /\ Accounts \subseteq Nat /\ AuthAccounts \subseteq Accounts
  /\ None \notin Sessions
  /\ SECTOR_X_MAX \in Nat /\ SECTOR_Y_MAX \in Nat
  /\ SECTOR_X_MAX < Default[1] /\ SECTOR_Y_MAX < Default[2]
  /\ JOBQ_MAX_SIZE \in Nat /\ ID_SET_MAX \in Nat /\ MaxRecvs \in Nat
  /\ FreedSetIsReused \in BOOLEAN

VARIABLES
  link,         (* per session: none, online, canceled (Disconnect), left    *)
  recvs,        (* per session: RECV jobs so far (bounded by MaxRecvs)       *)
  jobQ,         (* jobQ_PacketQ_                                             *)
  unsignaled,   (* jobs enqueued whose SetEvent(updateEvent_) is to come     *)
  updateEvent,  (* updateEvent_, an auto-reset event                         *)
  updatePC,     (* the update thread: waiting, or draining jobQ              *)
  current,      (* the session whose RECV job it is handling, or None        *)
  connected,    (* the keys of connectedMap_                                 *)
  account,      (* per session: accountNum_ of its Player, 0 if not set      *)
  cur,          (* per session: curSector_ of its Player; oldSector_ lives   *)
                (* only from UpdateSector to the end of Update               *)
  online,       (* onlineMap_: per account the session, or None              *)
  sectors,      (* sectorMap_: per position the session IDs in it            *)
  authQ,        (* jobQ_Redis_                                               *)
  authEvent,    (* authEvent_                                                *)
  authPC,       (* the auth thread: waiting, or draining authQ               *)
  accepted,     (* logins that passed both duplicate checks (history)        *)
  answered,     (* logins that ResLogin answered (history)                   *)
  errors        (* calls of ErrorQuit, null dereferences, and whether a job  *)
                (* was dropped (the program does not notice)                 *)

netVars    == <<link, recvs>>
jobVars    == <<jobQ, unsignaled, updateEvent>>
threadVars == <<updatePC, current>>
playerVars == <<connected, account, cur>>
mapVars    == <<online, sectors>>
authVars   == <<authQ, authEvent, authPC>>
history    == <<accepted, answered>>
vars == <<netVars, jobVars, threadVars, playerVars, mapVars, authVars, history,
          errors>>

Jobs   == [type : {"JOIN", "RECV", "LEAVE"}, session : Sessions]
Logins == Sessions \X Accounts
Errors == {"NotErased", "ReleaseFail", "NullPlayer", "QueueFull", "JobDropped"}

Init ==
  /\ link = [s \in Sessions |-> "none"]
  /\ recvs = [s \in Sessions |-> 0]
  /\ jobQ = <<>> /\ unsignaled = 0 /\ updateEvent = FALSE
  /\ updatePC = "wait" /\ current = None
  /\ connected = {}
  /\ account = [s \in Sessions |-> 0]
  /\ cur = [s \in Sessions |-> Default]
  /\ online = [a \in Accounts |-> None]
  /\ sectors = [p \in Positions |-> {}]
  /\ authQ = <<>> /\ authEvent = FALSE /\ authPC = "wait"
  /\ accepted = {} /\ answered = {}
  /\ errors = {}

-------------------------------------------------------------------------------
(* The network side.  The result of jobQ_PacketQ_.Enqueue is ignored, and   *)
(* SetEvent follows it in a step of its own.                                *)

Enqueue(type, s) ==
  /\ jobQ' = IF Len(jobQ) >= JOBQ_MAX_SIZE THEN jobQ
             ELSE Append(jobQ, [type |-> type, session |-> s])
  /\ errors' = IF Len(jobQ) >= JOBQ_MAX_SIZE THEN errors \union {"JobDropped"}
               ELSE errors
  /\ unsignaled' = unsignaled + 1
  /\ UNCHANGED <<updateEvent, threadVars, playerVars, mapVars, authVars, history>>

OnWorkerClientJoin(s) ==
  /\ link[s] = "none"
  /\ link' = [link EXCEPT ![s] = "online"]
  /\ Enqueue("JOIN", s)
  /\ UNCHANGED recvs

(* Variant: a worker delivers after the LEAVE of the session.               *)
OnRecv_AfterLeave(s) ==
  /\ link[s] # "none"
  /\ recvs[s] < MaxRecvs
  /\ recvs' = [recvs EXCEPT ![s] = @ + 1]
  /\ Enqueue("RECV", s)
  /\ UNCHANGED link

(* A worker that was parsing when the session was canceled still delivers.  *)
OnRecv(s) ==
  /\ link[s] \in {"online", "canceled"}
  /\ recvs[s] < MaxRecvs
  /\ recvs' = [recvs EXCEPT ![s] = @ + 1]
  /\ Enqueue("RECV", s)
  /\ UNCHANGED link

OnWorkerClientLeave(s) ==
  /\ link[s] \in {"online", "canceled"}
  /\ link' = [link EXCEPT ![s] = "left"]
  /\ Enqueue("LEAVE", s)
  /\ UNCHANGED recvs

SetUpdateEvent ==
  /\ unsignaled > 0
  /\ unsignaled' = unsignaled - 1
  /\ updateEvent' = TRUE
  /\ UNCHANGED <<netVars, jobQ, threadVars, playerVars, mapVars, authVars,
                 history, errors>>

-------------------------------------------------------------------------------
(* UpdateThread and MyLogic_PacketProc.                                     *)

WaitForUpdateEvent ==
  /\ updatePC = "wait"
  /\ updateEvent
  /\ updateEvent' = FALSE
  /\ updatePC' = "drain"
  /\ UNCHANGED <<netVars, jobQ, unsignaled, current, playerVars, mapVars,
                 authVars, history, errors>>

JobQIsEmpty ==
  /\ updatePC = "drain" /\ current = None
  /\ jobQ = <<>>
  /\ updatePC' = "wait"
  /\ UNCHANGED <<netVars, jobVars, current, playerVars, mapVars, authVars,
                 history, errors>>

Dequeue(type) ==
  /\ updatePC = "drain" /\ current = None
  /\ jobQ # <<>> /\ Head(jobQ).type = type
  /\ jobQ' = Tail(jobQ)

(* Player::Alloc and connectedMap_.Insert.                                  *)
OnContentsUserJoin ==
  LET s == Head(jobQ).session
  IN  /\ Dequeue("JOIN")
      /\ connected' = connected \union {s}
      /\ IF s \in connected THEN UNCHANGED <<account, cur>>
         ELSE /\ account' = [account EXCEPT ![s] = 0]
              /\ cur' = [cur EXCEPT ![s] = Default]
      /\ UNCHANGED <<netVars, unsignaled, updateEvent, threadVars, mapVars,
                     authVars, history, errors>>

DequeueRecv ==
  /\ Dequeue("RECV")
  /\ current' = Head(jobQ).session
  /\ UNCHANGED <<netVars, unsignaled, updateEvent, updatePC, playerVars, mapVars,
                 authVars, history, errors>>

(* RemoveFromCurSector looks at the x coordinate only.                      *)
RemoveFromCurSector(s) ==
  IF cur[s][1] = Default[1]
    THEN UNCHANGED <<sectors, errors>>
    ELSE /\ sectors' = [sectors EXCEPT ![cur[s]] = @ \ {s}]
         /\ errors' = IF s \in sectors[cur[s]]
                        THEN errors ELSE errors \union {"NotErased"}

(* Variant: the account stays in the online map.                            *)
OnContentsUserLeave_StaysOnline ==
  LET s == Head(jobQ).session
  IN  /\ Dequeue("LEAVE")
      /\ RemoveFromCurSector(s)
      /\ connected' = connected \ {s}
      /\ account' = [account EXCEPT ![s] = 0]
      /\ cur' = [cur EXCEPT ![s] = Default]
      /\ UNCHANGED <<netVars, unsignaled, updateEvent, threadVars, online,
                     authVars, history>>

(* ReleasePlayer; Player::Free resets what the Player held.                 *)
OnContentsUserLeave ==
  LET s == Head(jobQ).session
  IN  /\ Dequeue("LEAVE")
      /\ IF s \notin connected
           THEN /\ errors' = errors \union {"ReleaseFail"}
                /\ UNCHANGED <<playerVars, mapVars>>
           ELSE /\ RemoveFromCurSector(s)
                /\ connected' = connected \ {s}
                /\ online' = [a \in Accounts |->
                                IF a = account[s] THEN None ELSE online[a]]
                /\ account' = [account EXCEPT ![s] = 0]
                /\ cur' = [cur EXCEPT ![s] = Default]
      /\ UNCHANGED <<netVars, unsignaled, updateEvent, threadVars, authVars,
                     history>>

-------------------------------------------------------------------------------
(* The packets of a RECV job: NetStub::PacketProc stops at the first one    *)
(* that is refused, frees the set, and NetRoot::PacketProc disconnects the  *)
(* session whose ID it then reads from the freed set.                       *)

InRecvJob == updatePC = "drain" /\ current # None

(* Variant: one job for each event.                                         *)
EndOfPacketSet_OnePerEvent ==
  /\ InRecvJob
  /\ current' = None
  /\ updatePC' = "wait"
  /\ UNCHANGED <<netVars, jobVars, playerVars, mapVars, authVars, history, errors>>

EndOfPacketSet ==
  /\ InRecvJob
  /\ current' = None
  /\ UNCHANGED <<netVars, jobVars, updatePC, playerVars, mapVars, authVars,
                 history, errors>>

(* NetRoot::Disconnect of every session of the set.                         *)
Disconnect(set) ==
  link' = [s \in Sessions |->
             IF s \in set /\ link[s] = "online" THEN "canceled" ELSE link[s]]

RefusedAnd(others) ==
  /\ current' = None
  /\ \E s \in IF FreedSetIsReused THEN Sessions ELSE {current} :
       Disconnect(others \union {s})

Refused == RefusedAnd({})

(* Every request needs the Player: without one, logging the failure         *)
(* dereferences a null pointer.                                             *)
PlayerMissing ==
  /\ InRecvJob
  /\ current \notin connected
  /\ errors' = errors \union {"NullPlayer"}
  /\ UNCHANGED <<netVars, jobVars, threadVars, playerVars, mapVars, authVars,
                 history>>

ResLogin(s, a) == answered' = answered \union {<<s, a>>}

(* Variant: a login refused as a duplicate is answered all the same.        *)
ReqLogin_AnswersDuplicate(a) ==
  /\ InRecvJob /\ current \in connected
  /\ account[current] = 0
  /\ account' = [account EXCEPT ![current] = a]
  /\ ResLogin(current, a)
  /\ IF online[a] # None
       THEN RefusedAnd({online[a]}) /\ UNCHANGED <<online, accepted>>
       ELSE /\ online' = [online EXCEPT ![a] = current]
            /\ accepted' = accepted \union {<<current, a>>}
            /\ UNCHANGED <<link, current>>
  /\ UNCHANGED <<recvs, jobVars, updatePC, connected, cur, sectors, authVars,
                 errors>>

(* Variant: the auth thread is not woken.                                   *)
RequireAuth_NoEvent(s, a) ==
  /\ authQ' = Append(authQ, <<s, a>>)
  /\ UNCHANGED authEvent

RequireAuth(s, a) ==
  /\ authQ' = Append(authQ, <<s, a>>)
  /\ authEvent' = TRUE

(* UpdateInfo takes an account number other than 0 as "already entered".    *)
ReqLogin(a) ==
  /\ InRecvJob /\ current \in connected
  /\ \/ /\ account[current] # 0
        /\ Refused
        /\ UNCHANGED <<account, online, authQ, authEvent, history>>
     \/ /\ account[current] = 0
        /\ account' = [account EXCEPT ![current] = a]
        /\ IF online[a] # None
             THEN /\ RefusedAnd({online[a]})
                  /\ UNCHANGED <<online, authQ, authEvent, history>>
             ELSE /\ online' = [online EXCEPT ![a] = current]
                  /\ accepted' = accepted \union {<<current, a>>}
                  /\ IF a \in AuthAccounts
                       THEN RequireAuth(current, a) /\ UNCHANGED answered
                       ELSE /\ ResLogin(current, a)
                            /\ UNCHANGED <<authQ, authEvent>>
                  /\ UNCHANGED <<link, current>>
  /\ UNCHANGED <<recvs, jobVars, updatePC, connected, cur, sectors, authPC,
                 errors>>

(* Variant: the sector that the Player was in keeps him.                    *)
Update_StaysInOld(s, pos) == sectors' = [sectors EXCEPT ![pos] = @ \union {s}]

(* SectorMap::Update, with cur as the sector to leave.                      *)
Update(s, pos) ==
  sectors' =
    IF cur[s][1] = Default[1] THEN [sectors EXCEPT ![pos] = @ \union {s}]
    ELSE IF pos = cur[s] THEN sectors
    ELSE [sectors EXCEPT ![cur[s]] = @ \ {s}, ![pos] = @ \union {s}]

(* Variant: the coordinates are compared with the wrong operator.           *)
ReqSectorMove_OffByOne(a, pos) ==
  /\ InRecvJob /\ current \in connected
  /\ IF account[current] # a \/ pos[1] > SECTOR_X_MAX \/ pos[2] >= SECTOR_Y_MAX
       THEN Refused /\ UNCHANGED <<cur, sectors>>
       ELSE /\ cur' = [cur EXCEPT ![current] = pos]
            /\ Update(current, pos)
            /\ UNCHANGED <<link, current>>
  /\ UNCHANGED <<recvs, jobVars, updatePC, connected, account, online, authVars,
                 history, errors>>

(* Player::UpdateSector and SectorMap::Update.                              *)
ReqSectorMove(a, pos) ==
  /\ InRecvJob /\ current \in connected
  /\ IF account[current] # a \/ pos[1] >= SECTOR_X_MAX \/ pos[2] >= SECTOR_Y_MAX
       THEN Refused /\ UNCHANGED <<cur, sectors>>
       ELSE /\ cur' = [cur EXCEPT ![current] = pos]
            /\ Update(current, pos)
            /\ UNCHANGED <<link, current>>
  /\ UNCHANGED <<recvs, jobVars, updatePC, connected, account, online, authVars,
                 history, errors>>

(* Variant: the loops over the neighbours stop one short.                   *)
GetSectorAround_OneShort(pos) ==
  {p \in Positions : p[1] - pos[1] \in -1 .. 0 /\ p[2] - pos[2] \in -1 .. 0}

(* The up to nine sectors around a position, and who is in them: the set    *)
(* GetNetSessionIDSet_Sector makes, a Queue of limited size.                *)
GetSectorAround(pos) ==
  {p \in Positions : p[1] - pos[1] \in -1 .. 1 /\ p[2] - pos[2] \in -1 .. 1}

Audience(s) == UNION {sectors[p] : p \in GetSectorAround(cur[s])}

ReqMessage(a) ==
  /\ InRecvJob /\ current \in connected
  /\ IF account[current] # a
       THEN Refused /\ UNCHANGED errors
       ELSE /\ errors' = IF Cardinality(Audience(current)) > ID_SET_MAX
                            THEN errors \union {"QueueFull"} ELSE errors
            /\ UNCHANGED <<link, current>>
  /\ UNCHANGED <<recvs, jobVars, updatePC, playerVars, mapVars, authVars, history>>

(* A malformed packet.  A heartbeat changes nothing.                        *)
RefusedPacket ==
  /\ InRecvJob /\ current \in connected
  /\ Refused
  /\ UNCHANGED <<recvs, jobVars, updatePC, playerVars, mapVars, authVars, history,
                 errors>>

(* The account numbers in requests: the Player's, and 0 for another one.    *)
(* (While he has none himself, RefusedPacket stands for the others.)        *)
AccountsSent == {0} \union {account[s] : s \in {current} \intersect connected}

(* The sectors in requests: those of the map, and one behind each border.   *)
SectorsSent == Positions \union {<<SECTOR_X_MAX, 0>>, <<0, SECTOR_Y_MAX>>}

ProcessPacket ==
  \/ PlayerMissing \/ RefusedPacket
  \/ \E a \in Accounts : ReqLogin(a)
  \/ \E a \in AccountsSent : ReqMessage(a)
  \/ \E a \in AccountsSent, pos \in SectorsSent : ReqSectorMove(a, pos)

-------------------------------------------------------------------------------
(* AuthThread.                                                              *)

WaitForAuthEvent ==
  /\ authPC = "wait"
  /\ authEvent
  /\ authEvent' = FALSE
  /\ authPC' = "drain"
  /\ UNCHANGED <<netVars, jobVars, threadVars, playerVars, mapVars, authQ,
                 history, errors>>

AuthAnswer ==
  /\ authPC = "drain"
  /\ authQ # <<>>
  /\ authQ' = Tail(authQ)
  /\ ResLogin(Head(authQ)[1], Head(authQ)[2])
  /\ UNCHANGED <<netVars, jobVars, threadVars, playerVars, mapVars, authEvent,
                 authPC, accepted, errors>>

AuthQIsEmpty ==
  /\ authPC = "drain"
  /\ authQ = <<>>
  /\ authPC' = "wait"
  /\ UNCHANGED <<netVars, jobVars, threadVars, playerVars, mapVars, authQ,
                 authEvent, history, errors>>
-------------------------------------------------------------------------------
UpdateStep ==
  \/ WaitForUpdateEvent \/ JobQIsEmpty \/ OnContentsUserJoin \/ DequeueRecv
  \/ OnContentsUserLeave \/ EndOfPacketSet

AuthStep == WaitForAuthEvent \/ AuthAnswer \/ AuthQIsEmpty

(* An error is the end of the program; what the model does after it is of   *)
(* no interest.                                                             *)
Next ==
  \/ \E s \in Sessions :
       OnWorkerClientJoin(s) \/ OnRecv(s) \/ OnWorkerClientLeave(s)
  \/ SetUpdateEvent \/ UpdateStep \/ ProcessPacket \/ AuthStep

Spec == Init /\ [][Next]_vars

(* The threads run, a packet set ends, SetEvent follows Enqueue, and a      *)
(* canceled session is released (NetSession!CanceledIsReleased).            *)
Fairness ==
  /\ WF_vars(UpdateStep)
  /\ WF_vars(AuthStep)
  /\ WF_vars(SetUpdateEvent)
  /\ \A s \in Sessions : WF_vars(link[s] = "canceled" /\ OnWorkerClientLeave(s))

FairSpec == Spec /\ Fairness

-------------------------------------------------------------------------------
TypeOK ==
  /\ link \in [Sessions -> {"none", "online", "canceled", "left"}]
  /\ recvs \in [Sessions -> 0 .. MaxRecvs]
  /\ jobQ \in Seq(Jobs) /\ unsignaled \in Nat /\ updateEvent \in BOOLEAN
  /\ updatePC \in {"wait", "drain"} /\ current \in Sessions \union {None}
  /\ connected \subseteq Sessions
  /\ account \in [Sessions -> Accounts \union {0}]
  /\ cur \in [Sessions -> Positions \union {Default}]
  /\ online \in [Accounts -> Sessions \union {None}]
  /\ sectors \in [Positions -> SUBSET Sessions]
  /\ authQ \in Seq(Logins) /\ authEvent \in BOOLEAN /\ authPC \in {"wait", "drain"}
  /\ accepted \subseteq Logins /\ answered \subseteq Logins
  /\ errors \subseteq Errors

(***************************************************************************)
(* A session ID is in the sector its Player stands in and in no other, and *)
(* leaves the sector map with its Player: no message goes to a session     *)
(* that is gone, and SectorMap never misses what it has to erase.          *)
(***************************************************************************)
SectorsMatchPlayers ==
  \A p \in Positions, s \in Sessions :
    s \in sectors[p] <=> s \in connected /\ cur[s] = p

(***************************************************************************)
(* A message reaches its sender and exactly the players who would reach    *)
(* him: hearing is mutual, and nobody hears who entered no sector.         *)
(***************************************************************************)
HearingIsMutual ==
  \A s, t \in connected :
    /\ t \in Audience(s) <=> s \in Audience(t)
    /\ s \in Audience(s) <=> cur[s] # Default

(***************************************************************************)
(* The online map names no session that is gone and no account that the    *)
(* session did not log in with: an account is not locked out by a leftover.*)
(***************************************************************************)
OnlineIsConnected ==
  \A a \in Accounts :
    online[a] # None => online[a] \in connected /\ account[online[a]] = a

(* No login that was refused as a duplicate is answered, by either thread.  *)
AnsweredIsAccepted == answered \subseteq accepted

(***************************************************************************)
(* The update thread never fails to erase a player from his sector and     *)
(* always has a set for all who hear a message.  It meets a RECV or LEAVE  *)
(* of a session without a Player only after a job was dropped.             *)
(***************************************************************************)
NoErrors ==
  \/ errors = {}
  \/ "JobDropped" \in errors /\ errors \subseteq {"JobDropped", "NullPlayer", "ReleaseFail"}

(***************************************************************************)
(* The duplicate check of the online map: of two sessions that logged in   *)
(* with the same account, one has been disconnected.                       *)
(***************************************************************************)
OneSessionPerAccount ==
  \A m, n \in accepted :
    m[2] = n[2] /\ link[m[1]] = "online" /\ link[n[1]] = "online" => m = n

(* A session whose LEAVE is in the queue is forgotten by all the maps in    *)
(* the end: no wakeup of the update thread is lost.                         *)
LeftIsForgotten ==
  \A s \in Sessions :
    (\E n \in 1 .. Len(jobQ) : jobQ[n] = [type |-> "LEAVE", session |-> s]) ~> s \notin connected /\ \A a \in Accounts : online[a] # s

(* Every login that was accepted and needs Redis is answered by the auth    *)
(* thread: its wakeups are not lost either.                                 *)
AcceptedIsAnswered ==
  \A l \in Sessions \X AuthAccounts : l \in accepted ~> l \in answered
===============================================================================
