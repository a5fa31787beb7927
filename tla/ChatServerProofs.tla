-------------------------- MODULE ChatServerProofs ----------------------------
(***************************************************************************)
(* Proofs about ChatServer for every number of sessions, accounts, sectors *)
(* and packets, and every capacity of the job queue and the ID sets.       *)
(***************************************************************************)
EXTENDS ChatServer, TLAPS

(* The sector in which nobody stands is not on the map.                     *)
LEMMA DefaultIsNowhere ==
  /\ Default \notin Positions
  /\ \A p \in Positions : p[1] # Default[1]
  BY ChatAssumption DEF Positions, Default

LEMMA EnqueueType ==
  ASSUME TypeOK, NEW s \in Sessions, NEW type \in {"JOIN", "RECV", "LEAVE"},
         Enqueue(type, s)
  PROVE  jobQ' \in Seq(Jobs) /\ unsignaled' \in Nat
  <1>1. [type |-> type, session |-> s] \in Jobs
    BY DEF Jobs
  <1> QED
    BY <1>1 DEF Enqueue, TypeOK

LEMMA DequeueType ==
  ASSUME TypeOK, NEW type, Dequeue(type)
  PROVE  /\ jobQ' \in Seq(Jobs)
         /\ Head(jobQ).session \in Sessions
         /\ Head(jobQ) \in Jobs
         /\ updatePC = "drain" /\ current = None
  <1>1. Head(jobQ) \in Jobs /\ Tail(jobQ) \in Seq(Jobs)
    BY DEF Dequeue, TypeOK
  <1> QED
    BY <1>1 DEF Dequeue, Jobs

LEMMA DisconnectType ==
  ASSUME TypeOK, NEW set, Disconnect(set)
  PROVE  link' \in [Sessions -> {"none", "online", "canceled", "left"}]
  BY DEF TypeOK, Disconnect

LEMMA RefusedType ==
  ASSUME TypeOK, NEW set, RefusedAnd(set)
  PROVE  /\ link' \in [Sessions -> {"none", "online", "canceled", "left"}]
         /\ current' \in Sessions \union {None}
  BY DisconnectType DEF RefusedAnd

LEMMA TypeNetwork ==
  ASSUME TypeOK, NEW s \in Sessions,
         OnWorkerClientJoin(s) \/ OnRecv(s) \/ OnWorkerClientLeave(s)
  PROVE  TypeOK'
  <1>1. jobQ' \in Seq(Jobs) /\ unsignaled' \in Nat
    BY EnqueueType DEF OnWorkerClientJoin, OnRecv, OnWorkerClientLeave
  <1>2. link' \in [Sessions -> {"none", "online", "canceled", "left"}]
    BY DEF OnWorkerClientJoin, OnRecv, OnWorkerClientLeave, TypeOK
  <1>3. recvs' \in [Sessions -> 0 .. MaxRecvs]
    <2>1. CASE OnRecv(s)
      <3>1. recvs[s] + 1 \in 0 .. MaxRecvs
        BY <2>1, ChatAssumption DEF OnRecv, TypeOK
      <3> QED
        BY <2>1, <3>1 DEF OnRecv, TypeOK
    <2> QED
      BY <2>1 DEF OnWorkerClientJoin, OnWorkerClientLeave, TypeOK
  <1>4. UNCHANGED <<updateEvent, threadVars, playerVars, mapVars, authVars, history>>
    BY DEF OnWorkerClientJoin, OnRecv, OnWorkerClientLeave, Enqueue
  <1>5. errors' \subseteq Errors
    <2>1. errors' \subseteq errors \union {"JobDropped"}
      BY DEF OnWorkerClientJoin, OnRecv, OnWorkerClientLeave, Enqueue
    <2> QED
      BY <2>1 DEF TypeOK, Errors
  <1> QED
    BY <1>1, <1>2, <1>3, <1>4, <1>5
    DEF TypeOK, threadVars, playerVars, mapVars, authVars, history

LEMMA TypeUpdate ==
  ASSUME TypeOK, SetUpdateEvent \/ UpdateStep \/ AuthStep
  PROVE  TypeOK'
  <1> USE DEF netVars, jobVars, threadVars, playerVars, mapVars, authVars, history
  <1>1. CASE SetUpdateEvent
    BY <1>1 DEF SetUpdateEvent, TypeOK
  <1>2. CASE WaitForUpdateEvent
    <2>1. updateEvent' \in BOOLEAN /\ updatePC' \in {"wait", "drain"}
      BY <1>2 DEF WaitForUpdateEvent
    <2>2. UNCHANGED <<netVars, jobQ, unsignaled, current, playerVars, mapVars,
                      authVars, history, errors>>
      BY <1>2 DEF WaitForUpdateEvent
    <2> QED
      BY <2>1, <2>2 DEF TypeOK
  <1>3. CASE JobQIsEmpty
    BY <1>3 DEF JobQIsEmpty, TypeOK
  <1>4. CASE OnContentsUserJoin
    <2>1. /\ jobQ' \in Seq(Jobs)
          /\ Head(jobQ).session \in Sessions
      BY <1>4, DequeueType DEF OnContentsUserJoin
    <2>2. connected' \subseteq Sessions
      BY <1>4, <2>1 DEF OnContentsUserJoin, TypeOK
    <2>3. /\ account' \in [Sessions -> Accounts \union {0}]
          /\ cur' \in [Sessions -> Positions \union {Default}]
      BY <1>4, <2>1 DEF OnContentsUserJoin, TypeOK
    <2> QED
      BY <1>4, <2>1, <2>2, <2>3 DEF OnContentsUserJoin, TypeOK
  <1>5. CASE DequeueRecv
    <2>1. /\ jobQ' \in Seq(Jobs)
          /\ Head(jobQ).session \in Sessions
      BY <1>5, DequeueType DEF DequeueRecv
    <2> QED
      BY <1>5, <2>1 DEF DequeueRecv, TypeOK
  <1>6. CASE OnContentsUserLeave
    <2> DEFINE s == Head(jobQ).session
    <2>1. /\ jobQ' \in Seq(Jobs)
          /\ s \in Sessions
      BY <1>6, DequeueType DEF OnContentsUserLeave
    <2>2. connected' \subseteq Sessions
      BY <1>6, <2>1 DEF OnContentsUserLeave, TypeOK
    <2>3. /\ account' \in [Sessions -> Accounts \union {0}]
          /\ cur' \in [Sessions -> Positions \union {Default}]
      BY <1>6, <2>1 DEF OnContentsUserLeave, TypeOK
    <2>4. online' \in [Accounts -> Sessions \union {None}]
      BY <1>6, <2>1 DEF OnContentsUserLeave, TypeOK
    <2>5. \/ UNCHANGED sectors
          \/ sectors' = [sectors EXCEPT ![cur[s]] = @ \ {s}]
      BY <1>6 DEF OnContentsUserLeave, RemoveFromCurSector, mapVars
    <2>6. sectors' \in [Positions -> SUBSET Sessions]
      BY <2>5 DEF TypeOK
    <2>7. errors' \subseteq Errors
      BY <1>6 DEF OnContentsUserLeave, RemoveFromCurSector, TypeOK, Errors
    <2>8. UNCHANGED <<netVars, unsignaled, updateEvent, threadVars, authVars,
                      history>>
      BY <1>6 DEF OnContentsUserLeave
    <2> QED
      BY <2>1, <2>2, <2>3, <2>4, <2>6, <2>7, <2>8 DEF TypeOK
  <1>7. CASE EndOfPacketSet
    BY <1>7 DEF EndOfPacketSet, TypeOK
  <1>8. CASE WaitForAuthEvent
    <2>1. authEvent' \in BOOLEAN /\ authPC' \in {"wait", "drain"}
      BY <1>8 DEF WaitForAuthEvent
    <2>2. UNCHANGED <<netVars, jobVars, threadVars, playerVars, mapVars, authQ,
                      history, errors>>
      BY <1>8 DEF WaitForAuthEvent
    <2> QED
      BY <2>1, <2>2 DEF TypeOK
  <1>9. CASE AuthQIsEmpty
    BY <1>9 DEF AuthQIsEmpty, TypeOK
  <1>10. CASE AuthAnswer
    <2>1. Head(authQ) \in Logins /\ authQ' \in Seq(Logins)
      BY <1>10 DEF AuthAnswer, TypeOK
    <2>2. UNCHANGED <<netVars, jobVars, threadVars, playerVars, mapVars,
                      authEvent, authPC, accepted, errors>>
      BY <1>10 DEF AuthAnswer
    <2>3. answered' \subseteq Logins
      <3>1. <<Head(authQ)[1], Head(authQ)[2]>> \in Logins
        BY <2>1 DEF Logins
      <3> QED
        BY <1>10, <3>1 DEF AuthAnswer, ResLogin, TypeOK
    <2> QED
      BY <2>1, <2>2, <2>3 DEF TypeOK
  <1> QED
    BY <1>1, <1>2, <1>3, <1>4, <1>5, <1>6, <1>7, <1>8, <1>9, <1>10
    DEF UpdateStep, AuthStep

(* The requests.  All of them leave the network's and the threads' events   *)
(* alone, and a refused one only disconnects.                               *)
LEMMA TypeRequests ==
  ASSUME TypeOK, ProcessPacket
  PROVE  TypeOK'
  <1> USE DEF netVars, jobVars, threadVars, playerVars, mapVars, authVars, history
  <1>1. CASE PlayerMissing
    <2>1. errors' \subseteq Errors
      BY <1>1 DEF PlayerMissing, TypeOK, Errors
    <2> QED
      BY <1>1, <2>1 DEF PlayerMissing, TypeOK
  <1>2. CASE RefusedPacket
    <2>1. /\ link' \in [Sessions -> {"none", "online", "canceled", "left"}]
          /\ current' \in Sessions \union {None}
      BY <1>2, RefusedType DEF RefusedPacket, Refused
    <2> QED
      BY <1>2, <2>1 DEF RefusedPacket, TypeOK
  <1>3. ASSUME NEW a \in Accounts, ReqLogin(a)
        PROVE  TypeOK'
    <2>1. /\ link' \in [Sessions -> {"none", "online", "canceled", "left"}]
          /\ current' \in Sessions \union {None}
      BY <1>3, RefusedType DEF ReqLogin, RequireAuth, Refused, TypeOK
    <2>2. current \in Sessions /\ <<current, a>> \in Logins
      BY <1>3 DEF ReqLogin, RequireAuth, InRecvJob, TypeOK, Logins
    <2>3. account' \in [Sessions -> Accounts \union {0}]
      BY <1>3 DEF ReqLogin, RequireAuth, TypeOK
    <2>4. online' \in [Accounts -> Sessions \union {None}]
      BY <1>3, <2>2 DEF ReqLogin, RequireAuth, TypeOK
    <2>5. authQ' \in Seq(Logins)
      <3>1. authQ' = authQ \/ authQ' = Append(authQ, <<current, a>>)
        BY <1>3 DEF ReqLogin, RequireAuth
      <3>2. authQ \in Seq(Logins)
        BY DEF TypeOK
      <3> QED
        BY <2>2, <3>1, <3>2
    <2>6. authEvent' \in BOOLEAN
      BY <1>3 DEF ReqLogin, RequireAuth, TypeOK
    <2>7. accepted' \subseteq Logins /\ answered' \subseteq Logins
      <3>1. /\ accepted' \subseteq accepted \union {<<current, a>>}
            /\ answered' \subseteq answered \union {<<current, a>>}
        BY <1>3 DEF ReqLogin, RequireAuth, ResLogin
      <3> QED
        BY <2>2, <3>1 DEF TypeOK
    <2>8. UNCHANGED <<recvs, jobVars, updatePC, connected, cur, sectors,
                      authPC, errors>>
      BY <1>3 DEF ReqLogin, RequireAuth
    <2> QED
      BY <2>1, <2>3, <2>4, <2>5, <2>6, <2>7, <2>8 DEF TypeOK
  <1>4. ASSUME NEW a \in AccountsSent, ReqMessage(a)
        PROVE  TypeOK'
    <2>1. /\ link' \in [Sessions -> {"none", "online", "canceled", "left"}]
          /\ current' \in Sessions \union {None}
      BY <1>4, RefusedType DEF ReqMessage, Refused, TypeOK
    <2>2. errors' \subseteq Errors
      BY <1>4 DEF ReqMessage, TypeOK, Errors
    <2> QED
      BY <1>4, <2>1, <2>2 DEF ReqMessage, TypeOK
  <1>5. ASSUME NEW a \in AccountsSent,
               NEW pos \in SectorsSent,
               ReqSectorMove(a, pos)
        PROVE  TypeOK'
    <2>1. /\ link' \in [Sessions -> {"none", "online", "canceled", "left"}]
          /\ current' \in Sessions \union {None}
      BY <1>5, RefusedType DEF ReqSectorMove, Refused, TypeOK
    <2>2. current \in Sessions
      BY <1>5 DEF ReqSectorMove, InRecvJob, TypeOK
    <2>3. CASE UNCHANGED <<cur, sectors>>
      BY <1>5, <2>1, <2>3 DEF ReqSectorMove, TypeOK
    <2>4. CASE ~ UNCHANGED <<cur, sectors>>
      <3>1. pos \in Positions
        BY <1>5, <2>4, ChatAssumption DEF ReqSectorMove, SectorsSent
      <3>2. /\ cur' \in [Sessions -> Positions \union {Default}]
        BY <1>5, <2>2, <2>4, <3>1 DEF ReqSectorMove, TypeOK
      <3>3. Update(current, pos)
        BY <1>5, <2>4 DEF ReqSectorMove
      <3>4. sectors' \in [Positions -> SUBSET Sessions]
        BY <2>2, <3>3 DEF Update, TypeOK
      <3> QED
        BY <1>5, <2>1, <3>2, <3>4 DEF ReqSectorMove, TypeOK
    <2> QED
      BY <2>3, <2>4
  <1> QED
    BY <1>1, <1>2, <1>3, <1>4, <1>5 DEF ProcessPacket

(***************************************************************************)
(* Every variable keeps its type: session IDs, account numbers and sectors *)
(* in the maps are of existing sessions, accounts and positions.           *)
(***************************************************************************)
THEOREM TypeCorrect == Spec => []TypeOK
  <1>1. Init => TypeOK
    <2> SUFFICES ASSUME Init PROVE TypeOK
      OBVIOUS
    <2>1. /\ link \in [Sessions -> {"none", "online", "canceled", "left"}]
          /\ recvs \in [Sessions -> 0 .. MaxRecvs]
      BY ChatAssumption DEF Init
    <2>2. /\ jobQ \in Seq(Jobs) /\ unsignaled \in Nat
          /\ authQ \in Seq(Logins)
      BY DEF Init
    <2>6. /\ updateEvent \in BOOLEAN /\ authEvent \in BOOLEAN
          /\ updatePC \in {"wait", "drain"} /\ authPC \in {"wait", "drain"}
      BY DEF Init
    <2>3. /\ account \in [Sessions -> Accounts \union {0}]
          /\ cur \in [Sessions -> Positions \union {Default}]
      BY DEF Init
    <2>4. /\ online \in [Accounts -> Sessions \union {None}]
          /\ sectors \in [Positions -> SUBSET Sessions]
      BY DEF Init
    <2>5. /\ current \in Sessions \union {None}
          /\ connected \subseteq Sessions
          /\ accepted \subseteq Logins /\ answered \subseteq Logins
          /\ errors \subseteq Errors
      BY DEF Init
    <2> QED
      BY <2>1, <2>2, <2>3, <2>4, <2>5, <2>6 DEF TypeOK
  <1>2. TypeOK /\ [Next]_vars => TypeOK'
    <2>1. ASSUME TypeOK, Next PROVE TypeOK'
      BY <2>1, TypeNetwork, TypeUpdate, TypeRequests DEF Next
    <2>2. ASSUME TypeOK, UNCHANGED vars PROVE TypeOK'
      BY <2>2
      DEF vars, netVars, jobVars, threadVars, playerVars, mapVars, authVars,
          history, TypeOK
    <2> QED
      BY <2>1, <2>2
  <1> QED
    BY <1>1, <1>2, PTL DEF Spec

-------------------------------------------------------------------------------
(* Only joining, leaving and moving touch what SectorsMatchPlayers relates. *)
LEMMA SectorFrame ==
  ASSUME Next \/ UNCHANGED vars,
         ~ OnContentsUserJoin, ~ OnContentsUserLeave,
         ~ \E a \in AccountsSent, pos \in SectorsSent : ReqSectorMove(a, pos)
  PROVE  UNCHANGED <<connected, cur, sectors>>
  <1> USE DEF playerVars, mapVars
  <1>1. CASE \E s \in Sessions :
               OnWorkerClientJoin(s) \/ OnRecv(s) \/ OnWorkerClientLeave(s)
    BY <1>1 DEF OnWorkerClientJoin, OnRecv, OnWorkerClientLeave, Enqueue
  <1>2. CASE SetUpdateEvent \/ UpdateStep \/ AuthStep
    BY <1>2
    DEF SetUpdateEvent, UpdateStep, AuthStep, WaitForUpdateEvent, JobQIsEmpty,
        DequeueRecv, EndOfPacketSet, WaitForAuthEvent, AuthAnswer, AuthQIsEmpty
  <1>3. CASE ProcessPacket
    BY <1>3 DEF ProcessPacket, PlayerMissing, RefusedPacket, ReqLogin, RequireAuth, ReqMessage
  <1>4. CASE UNCHANGED vars
    BY <1>4 DEF vars
  <1> QED
    BY <1>1, <1>2, <1>3, <1>4 DEF Next

LEMMA SectorsJoin ==
  ASSUME TypeOK, SectorsMatchPlayers, OnContentsUserJoin
  PROVE  SectorsMatchPlayers'
  <1> DEFINE s == Head(jobQ).session
  <1>1. s \in Sessions
    BY DequeueType DEF OnContentsUserJoin
  <1>2. sectors' = sectors
    BY DEF OnContentsUserJoin, mapVars
  <1>3. CASE s \in connected
    <2>1. connected' = connected /\ cur' = cur
      BY <1>3 DEF OnContentsUserJoin
    <2> QED
      BY <1>2, <2>1 DEF SectorsMatchPlayers
  <1>4. CASE s \notin connected
    <2>1. connected' = connected \union {s} /\ cur' = [cur EXCEPT ![s] = Default]
      BY <1>4 DEF OnContentsUserJoin
    <2>2. cur \in [Sessions -> Positions \union {Default}]
      BY DEF TypeOK
    <2> QED
      BY <1>1, <1>2, <1>4, <2>1, <2>2, DefaultIsNowhere DEF SectorsMatchPlayers
  <1> QED
    BY <1>3, <1>4

LEMMA SectorsLeave ==
  ASSUME TypeOK, SectorsMatchPlayers, OnContentsUserLeave
  PROVE  SectorsMatchPlayers' /\ errors' \subseteq errors \union {"ReleaseFail"}
  <1> DEFINE s == Head(jobQ).session
  <1>1. s \in Sessions /\ cur \in [Sessions -> Positions \union {Default}]
    BY DequeueType DEF OnContentsUserLeave, TypeOK
  <1>2. CASE s \notin connected
    <2>1. /\ UNCHANGED <<connected, cur, sectors>>
          /\ errors' = errors \union {"ReleaseFail"}
      BY <1>2 DEF OnContentsUserLeave, playerVars, mapVars
    <2> QED
      BY <2>1 DEF SectorsMatchPlayers
  <1>3. CASE s \in connected
    <2>1. /\ connected' = connected \ {s}
          /\ cur' = [cur EXCEPT ![s] = Default]
          /\ RemoveFromCurSector(s)
      BY <1>3 DEF OnContentsUserLeave
    <2>2. CASE cur[s] = Default
      <3>1. sectors' = sectors /\ errors' = errors
        BY <2>1, <2>2 DEF RemoveFromCurSector
      <3> QED
        BY <1>1, <2>1, <2>2, <3>1, DefaultIsNowhere DEF SectorsMatchPlayers
    <2>3. CASE cur[s] # Default
      <3>1. cur[s] \in Positions /\ cur[s][1] # Default[1]
        BY <1>1, <2>3, DefaultIsNowhere
      <3>2. sectors \in [Positions -> SUBSET Sessions]
        BY DEF TypeOK
      <3>3. s \in sectors[cur[s]]
        BY <1>1, <1>3, <3>1 DEF SectorsMatchPlayers
      <3>4. sectors' = [sectors EXCEPT ![cur[s]] = @ \ {s}] /\ errors' = errors
        BY <2>1, <3>1, <3>3 DEF RemoveFromCurSector
      <3> QED
        BY <1>1, <2>1, <3>1, <3>2, <3>4, DefaultIsNowhere DEF SectorsMatchPlayers
    <2> QED
      BY <2>2, <2>3
  <1> QED
    BY <1>2, <1>3

LEMMA SectorsMove ==
  ASSUME TypeOK, SectorsMatchPlayers,
         NEW a \in AccountsSent,
         NEW pos \in SectorsSent,
         ReqSectorMove(a, pos)
  PROVE  SectorsMatchPlayers'
  <1>1. connected' = connected
    BY DEF ReqSectorMove
  <1>2. CASE UNCHANGED <<cur, sectors>>
    BY <1>1, <1>2 DEF SectorsMatchPlayers
  <1>3. CASE ~ UNCHANGED <<cur, sectors>>
    <2>1. /\ pos \in Positions
          /\ cur' = [cur EXCEPT ![current] = pos]
          /\ Update(current, pos)
          /\ current \in connected
      BY <1>3, ChatAssumption DEF ReqSectorMove, SectorsSent
    <2>2. /\ current \in Sessions
          /\ cur \in [Sessions -> Positions \union {Default}]
          /\ sectors \in [Positions -> SUBSET Sessions]
      BY <2>1 DEF TypeOK
    <2>3. CASE cur[current] = Default
      <3>1. sectors' = [sectors EXCEPT ![pos] = @ \union {current}]
        BY <2>1, <2>3 DEF Update
      <3> QED
        BY <1>1, <2>1, <2>2, <2>3, <3>1, DefaultIsNowhere DEF SectorsMatchPlayers
    <2>4. CASE cur[current] # Default
      <3>1. cur[current] \in Positions /\ cur[current][1] # Default[1]
        BY <2>2, <2>4, DefaultIsNowhere
      <3>2. CASE pos = cur[current]
        <4>1. sectors' = sectors
          BY <2>1, <3>1, <3>2 DEF Update
        <4> QED
          BY <1>1, <2>1, <2>2, <3>2, <4>1 DEF SectorsMatchPlayers
      <3>3. CASE pos # cur[current]
        <4>1. sectors' = [sectors EXCEPT ![cur[current]] = @ \ {current},
                                         ![pos] = @ \union {current}]
          BY <2>1, <3>1, <3>3 DEF Update
        <4> QED
          BY <1>1, <2>1, <2>2, <3>1, <3>3, <4>1 DEF SectorsMatchPlayers
      <3> QED
        BY <3>2, <3>3
    <2> QED
      BY <2>3, <2>4
  <1> QED
    BY <1>2, <1>3

(***************************************************************************)
(* In every state the sector map holds exactly the connected players, each *)
(* in the sector it stands in.                                             *)
(***************************************************************************)
THEOREM SectorsCorrect == Spec => []SectorsMatchPlayers
  <1>1. Init => SectorsMatchPlayers
    BY DEF Init, SectorsMatchPlayers
  <1>2. TypeOK /\ SectorsMatchPlayers /\ [Next]_vars => SectorsMatchPlayers'
    <2> SUFFICES ASSUME TypeOK, SectorsMatchPlayers, [Next]_vars
                 PROVE  SectorsMatchPlayers'
      OBVIOUS
    <2>1. CASE OnContentsUserJoin
      BY <2>1, SectorsJoin
    <2>2. CASE OnContentsUserLeave
      BY <2>2, SectorsLeave
    <2>3. CASE \E a \in AccountsSent, pos \in SectorsSent : ReqSectorMove(a, pos)
      BY <2>3, SectorsMove
    <2>4. CASE UNCHANGED <<connected, cur, sectors>>
      BY <2>4 DEF SectorsMatchPlayers
    <2> QED
      BY <2>1, <2>2, <2>3, <2>4, SectorFrame
  <1> QED
    BY <1>1, <1>2, TypeCorrect, PTL DEF Spec

-------------------------------------------------------------------------------
(* Being one of the up to nine sectors around each other is symmetric.      *)
LEMMA AroundIsMutual ==
  ASSUME NEW p \in Positions, NEW q \in Positions
  PROVE  /\ p \in GetSectorAround(p)
         /\ p \in GetSectorAround(q) <=> q \in GetSectorAround(p)
  BY ChatAssumption DEF Positions, GetSectorAround

(* No position is next to the place of a player who entered no sector.      *)
LEMMA NothingAroundDefault == GetSectorAround(Default) = {}
  BY ChatAssumption DEF Positions, GetSectorAround, Default

LEMMA AudienceIs ==
  ASSUME TypeOK, SectorsMatchPlayers, NEW s \in connected, NEW t \in connected
  PROVE  t \in Audience(s) <=> cur[t] \in GetSectorAround(cur[s])
  <1>1. \A p \in GetSectorAround(cur[s]) : p \in Positions
    BY DEF GetSectorAround
  <1>2. t \in Sessions
    BY DEF TypeOK
  <1>3. t \in Audience(s) <=> \E p \in GetSectorAround(cur[s]) : t \in sectors[p]
    BY DEF Audience
  <1> QED
    BY <1>1, <1>2, <1>3 DEF SectorsMatchPlayers

(***************************************************************************)
(* Whoever hears a player is heard by him, whatever sectors they are in.   *)
(***************************************************************************)
THEOREM HearingCorrect == Spec => []HearingIsMutual
  <1>1. TypeOK /\ SectorsMatchPlayers => HearingIsMutual
    <2> SUFFICES ASSUME TypeOK, SectorsMatchPlayers,
                        NEW s \in connected, NEW t \in connected
                 PROVE  /\ t \in Audience(s) <=> s \in Audience(t)
                        /\ s \in Audience(s) <=> cur[s] # Default
      BY DEF HearingIsMutual
    <2>1. /\ cur[s] \in Positions \union {Default}
          /\ cur[t] \in Positions \union {Default}
      BY DEF TypeOK
    <2>2. GetSectorAround(cur[s]) \subseteq Positions
          /\ GetSectorAround(cur[t]) \subseteq Positions
      BY DEF GetSectorAround
    <2>3. cur[t] \in GetSectorAround(cur[s]) <=> cur[s] \in GetSectorAround(cur[t])
      BY <2>1, <2>2, AroundIsMutual, NothingAroundDefault, DefaultIsNowhere
    <2>4. cur[s] \in GetSectorAround(cur[s]) <=> cur[s] # Default
      BY <2>1, AroundIsMutual, NothingAroundDefault
    <2> QED
      BY <2>3, <2>4, AudienceIs
  <1> QED
    BY <1>1, TypeCorrect, SectorsCorrect, PTL

-------------------------------------------------------------------------------
(* Only joining, leaving and logging in touch what OnlineIsConnected relates.*)
LEMMA OnlineFrame ==
  ASSUME Next \/ UNCHANGED vars,
         ~ OnContentsUserJoin, ~ OnContentsUserLeave,
         ~ \E a \in Accounts : ReqLogin(a)
  PROVE  UNCHANGED <<connected, account, online>>
  <1> USE DEF playerVars, mapVars
  <1>1. CASE \E s \in Sessions :
               OnWorkerClientJoin(s) \/ OnRecv(s) \/ OnWorkerClientLeave(s)
    BY <1>1 DEF OnWorkerClientJoin, OnRecv, OnWorkerClientLeave, Enqueue
  <1>2. CASE SetUpdateEvent \/ UpdateStep \/ AuthStep
    BY <1>2
    DEF SetUpdateEvent, UpdateStep, AuthStep, WaitForUpdateEvent, JobQIsEmpty,
        DequeueRecv, EndOfPacketSet, WaitForAuthEvent, AuthAnswer, AuthQIsEmpty
  <1>3. CASE ProcessPacket
    BY <1>3
    DEF ProcessPacket, PlayerMissing, RefusedPacket, ReqSectorMove, ReqMessage
  <1>4. CASE UNCHANGED vars
    BY <1>4 DEF vars
  <1> QED
    BY <1>1, <1>2, <1>3, <1>4 DEF Next

(***************************************************************************)
(* If no client uses the account number 0, the online map only holds       *)
(* sessions that are connected and logged in with that account: a login is *)
(* never refused because of a session that is gone.                        *)
(***************************************************************************)
THEOREM OnlineCorrect ==
  ASSUME 0 \notin Accounts
  PROVE  Spec => []OnlineIsConnected
  <1>1. Init => OnlineIsConnected
    BY DEF Init, OnlineIsConnected
  <1>2. TypeOK /\ OnlineIsConnected /\ [Next]_vars => OnlineIsConnected'
    <2> SUFFICES ASSUME TypeOK, OnlineIsConnected, [Next]_vars
                 PROVE  OnlineIsConnected'
      OBVIOUS
    <2> DEFINE s == Head(jobQ).session
    <2>1. CASE OnContentsUserJoin
      <3>1. s \in Sessions /\ online' = online /\ connected' = connected \union {s}
        BY <2>1, DequeueType DEF OnContentsUserJoin, mapVars
      <3>2. \/ account' = account
            \/ s \notin connected /\ account' = [account EXCEPT ![s] = 0]
        BY <2>1 DEF OnContentsUserJoin
      <3>3. account \in [Sessions -> Accounts \union {0}]
            /\ connected \subseteq Sessions
        BY DEF TypeOK
      <3> QED
        BY <3>1, <3>2, <3>3 DEF OnlineIsConnected
    <2>2. CASE OnContentsUserLeave
      <3>1. s \in Sessions /\ connected \subseteq Sessions
            /\ account \in [Sessions -> Accounts \union {0}]
        BY <2>2, DequeueType DEF OnContentsUserLeave, TypeOK
      <3>2. CASE s \notin connected
        <4>1. UNCHANGED <<connected, account, online>>
          BY <2>2, <3>2 DEF OnContentsUserLeave, playerVars, mapVars
        <4> QED
          BY <4>1 DEF OnlineIsConnected
      <3>3. CASE s \in connected
        <4>1. /\ connected' = connected \ {s}
              /\ online' = [a \in Accounts |-> IF a = account[s] THEN None ELSE online[a]]
              /\ account' = [account EXCEPT ![s] = 0]
          BY <2>2, <3>3 DEF OnContentsUserLeave
        <4> QED
          BY <3>1, <4>1 DEF OnlineIsConnected
      <3> QED
        BY <3>2, <3>3
    <2>3. ASSUME NEW a \in Accounts, ReqLogin(a)
          PROVE  OnlineIsConnected'
      <3>1. /\ current \in connected /\ current \in Sessions
            /\ connected' = connected
            /\ online \in [Accounts -> Sessions \union {None}]
            /\ account \in [Sessions -> Accounts \union {0}]
            /\ connected \subseteq Sessions
        BY <2>3 DEF ReqLogin, RequireAuth, TypeOK
      <3>2. CASE account[current] # 0
        BY <2>3, <3>1, <3>2 DEF ReqLogin, RequireAuth, OnlineIsConnected
      <3>3. CASE account[current] = 0
        <4>1. \A b \in Accounts : online[b] # current
          BY <3>1, <3>3, ChatAssumption DEF OnlineIsConnected
        <4>2. /\ account' = [account EXCEPT ![current] = a]
              /\ online' = online \/ online' = [online EXCEPT ![a] = current]
          BY <2>3, <3>3 DEF ReqLogin, RequireAuth
        <4> QED
          BY <3>1, <4>1, <4>2 DEF OnlineIsConnected
      <3> QED
        BY <3>2, <3>3
    <2>4. CASE UNCHANGED <<connected, account, online>>
      BY <2>4 DEF OnlineIsConnected
    <2> QED
      BY <2>1, <2>2, <2>3, <2>4, OnlineFrame
  <1> QED
    BY <1>1, <1>2, TypeCorrect, PTL DEF Spec

-------------------------------------------------------------------------------
(* What waits for the auth thread passed both duplicate checks.             *)
AuthJobsAreAccepted == \A i \in 1 .. Len(authQ) : authQ[i] \in accepted

LEMMA AuthFrame ==
  ASSUME Next \/ UNCHANGED vars, ~ AuthAnswer, ~ \E a \in Accounts : ReqLogin(a)
  PROVE  UNCHANGED <<authQ, accepted, answered>>
  <1> USE DEF authVars, history
  <1>1. CASE \E s \in Sessions :
               OnWorkerClientJoin(s) \/ OnRecv(s) \/ OnWorkerClientLeave(s)
    BY <1>1 DEF OnWorkerClientJoin, OnRecv, OnWorkerClientLeave, Enqueue
  <1>2. CASE SetUpdateEvent \/ UpdateStep \/ AuthStep
    BY <1>2
    DEF SetUpdateEvent, UpdateStep, AuthStep, WaitForUpdateEvent, JobQIsEmpty,
        OnContentsUserJoin, OnContentsUserLeave, DequeueRecv, EndOfPacketSet,
        WaitForAuthEvent, AuthQIsEmpty
  <1>3. CASE ProcessPacket
    BY <1>3
    DEF ProcessPacket, PlayerMissing, RefusedPacket, ReqSectorMove, ReqMessage
  <1>4. CASE UNCHANGED vars
    BY <1>4 DEF vars
  <1> QED
    BY <1>1, <1>2, <1>3, <1>4 DEF Next

(***************************************************************************)
(* A login that one of the duplicate checks refused is never answered.     *)
(***************************************************************************)
THEOREM AnsweredCorrect == Spec => []AnsweredIsAccepted
  <1> DEFINE IInv == AnsweredIsAccepted /\ AuthJobsAreAccepted
  <1>1. Init => IInv
    BY DEF Init, AnsweredIsAccepted, AuthJobsAreAccepted
  <1>2. TypeOK /\ IInv /\ [Next]_vars => IInv'
    <2> SUFFICES ASSUME TypeOK, IInv, [Next]_vars
                 PROVE  IInv'
      OBVIOUS
    <2>1. authQ \in Seq(Logins)
      BY DEF TypeOK
    <2>2. CASE AuthAnswer
      <3>1. /\ authQ # <<>> /\ authQ' = Tail(authQ) /\ accepted' = accepted
            /\ answered' = answered \union {<<Head(authQ)[1], Head(authQ)[2]>>}
        BY <2>2 DEF AuthAnswer, ResLogin
      <3>2. Head(authQ) = authQ[1] /\ Head(authQ) \in Logins /\ 1 \in 1 .. Len(authQ)
        BY <2>1, <3>1
      <3>3. <<Head(authQ)[1], Head(authQ)[2]>> = Head(authQ)
        BY <3>2 DEF Logins
      <3>4. AnsweredIsAccepted'
        BY <3>1, <3>2, <3>3 DEF AnsweredIsAccepted, AuthJobsAreAccepted
      <3>5. AuthJobsAreAccepted'
        BY <2>1, <3>1 DEF AuthJobsAreAccepted
      <3> QED
        BY <3>4, <3>5
    <2>3. ASSUME NEW a \in Accounts, ReqLogin(a)
          PROVE  IInv'
      <3>1. CASE UNCHANGED <<authQ, accepted, answered>>
        BY <3>1 DEF AnsweredIsAccepted, AuthJobsAreAccepted
      <3>2. CASE /\ accepted' = accepted \union {<<current, a>>}
                 /\ authQ' = authQ \/ authQ' = Append(authQ, <<current, a>>)
                 /\ answered' = answered \/ answered' = answered \union {<<current, a>>}
        <4>1. AnsweredIsAccepted'
          BY <3>2 DEF AnsweredIsAccepted
        <4>2. AuthJobsAreAccepted'
          <5>1. CASE authQ' = authQ
            BY <3>2, <5>1 DEF AuthJobsAreAccepted
          <5>2. CASE authQ' = Append(authQ, <<current, a>>)
            <6> DEFINE l == <<current, a>>
            <6>1. authQ' = Append(authQ, l) /\ accepted' = accepted \union {l}
              BY <3>2, <5>2
            <6> HIDE DEF l
            <6> QED
              BY <2>1, <6>1 DEF AuthJobsAreAccepted
          <5> QED
            BY <3>2, <5>1, <5>2
        <4> QED
          BY <4>1, <4>2
      <3> QED
        BY <2>3, <3>1, <3>2 DEF ReqLogin, RequireAuth, ResLogin, history
    <2>4. CASE UNCHANGED <<authQ, accepted, answered>>
      BY <2>4 DEF AnsweredIsAccepted, AuthJobsAreAccepted
    <2> QED
      BY <2>2, <2>3, <2>4, AuthFrame
  <1> QED
    BY <1>1, <1>2, TypeCorrect, PTL DEF Spec

-------------------------------------------------------------------------------
(* What the queue must look like for every job to find its Player.  The     *)
(* network enqueues the jobs of a session as JOIN, RECV, ..., LEAVE.        *)
HasJoin(q, s, n) ==
  \E k \in 1 .. n : q[k].type = "JOIN" /\ q[k].session = s

LeaveIsLast ==
  \A i, j \in 1 .. Len(jobQ) :
    i < j /\ jobQ[i].session = jobQ[j].session =>
      jobQ[i].type # "LEAVE" /\ jobQ[j].type # "JOIN"

JobsMatchLinks ==
  \A i \in 1 .. Len(jobQ) :
    /\ link[jobQ[i].session] # "none"
    /\ jobQ[i].type = "LEAVE" => link[jobQ[i].session] = "left"

JoinIsFirst ==
  \A i \in 1 .. Len(jobQ) :
    IF jobQ[i].type = "JOIN" THEN jobQ[i].session \notin connected
    ELSE jobQ[i].session \in connected \/ HasJoin(jobQ, jobQ[i].session, i - 1)

LinksMatchPlayers ==
  \A s \in Sessions :
    /\ s \in connected => link[s] # "none"
    /\ link[s] \in {"online", "canceled"} => s \in connected \/ HasJoin(jobQ, s, Len(jobQ))

CurrentHasPlayer == current # None => current \in connected

QueueInv ==
  /\ LeaveIsLast /\ JobsMatchLinks /\ JoinIsFirst /\ LinksMatchPlayers
  /\ CurrentHasPlayer

(* A session ID set has room for the players around anybody.                *)
SetsFit == \A s \in connected : ~ (Cardinality(Audience(s)) > ID_SET_MAX)

(* No job has been dropped yet.                                             *)
NothingDropped == "JobDropped" \notin errors

LEMMA Appended ==
  ASSUME TypeOK, NothingDropped', NEW s \in Sessions,
         NEW type \in {"JOIN", "RECV", "LEAVE"}, Enqueue(type, s)
  PROVE  /\ Len(jobQ) \in Nat
         /\ Len(jobQ') = Len(jobQ) + 1
         /\ \A i \in 1 .. Len(jobQ) :
              jobQ'[i] = jobQ[i] /\ jobQ[i].session \in Sessions
         /\ jobQ'[Len(jobQ) + 1].type = type
         /\ jobQ'[Len(jobQ) + 1].session = s
         /\ UNCHANGED <<connected, current>>
  <1>1. jobQ \in Seq(Jobs)
    BY DEF TypeOK
  <1>2. jobQ' = Append(jobQ, [type |-> type, session |-> s])
    <2>1. ~ (Len(jobQ) >= JOBQ_MAX_SIZE)
      BY DEF Enqueue, NothingDropped
    <2> QED
      BY <2>1 DEF Enqueue
  <1>3. UNCHANGED <<connected, current>>
    BY DEF Enqueue, playerVars, threadVars
  <1>4. \A i \in 1 .. Len(jobQ) : jobQ[i].session \in Sessions
    <2>1. \A i \in 1 .. Len(jobQ) : jobQ[i] \in Jobs
      BY <1>1
    <2> QED
      BY <2>1 DEF Jobs
  <1>5. [type |-> type, session |-> s] \in Jobs
    BY DEF Jobs
  <1>6. jobQ'[Len(jobQ) + 1] = [type |-> type, session |-> s]
    BY <1>1, <1>2, <1>5
  <1>7. Len(jobQ) \in Nat /\ Len(jobQ') = Len(jobQ) + 1
        /\ \A i \in 1 .. Len(jobQ) : jobQ'[i] = jobQ[i]
    BY <1>1, <1>2, <1>5
  <1> QED
    BY <1>3, <1>4, <1>6, <1>7

LEMMA QueueNetwork ==
  ASSUME TypeOK, QueueInv, NothingDropped', NEW s \in Sessions,
         OnWorkerClientJoin(s) \/ OnRecv(s) \/ OnWorkerClientLeave(s)
  PROVE  QueueInv'
  <1>1. PICK type \in {"JOIN", "RECV", "LEAVE"} :
          /\ Enqueue(type, s)
          /\ type = "JOIN" <=> link[s] = "none"
          /\ link[s] # "left"
          /\ link' = [link EXCEPT ![s] = IF type = "LEAVE" THEN "left"
                                         ELSE IF type = "JOIN" THEN "online" ELSE @]
    <2>1. CASE OnWorkerClientJoin(s)
      <3> WITNESS "JOIN" \in {"JOIN", "RECV", "LEAVE"}
      <3> QED
        BY <2>1 DEF OnWorkerClientJoin
    <2>2. CASE OnRecv(s)
      <3>1. link' = [link EXCEPT ![s] = @]
        BY <2>2 DEF OnRecv, TypeOK
      <3> WITNESS "RECV" \in {"JOIN", "RECV", "LEAVE"}
      <3> QED
        BY <2>2, <3>1 DEF OnRecv
    <2>3. CASE OnWorkerClientLeave(s)
      <3> WITNESS "LEAVE" \in {"JOIN", "RECV", "LEAVE"}
      <3> QED
        BY <2>3 DEF OnWorkerClientLeave
    <2> QED
      BY <2>1, <2>2, <2>3
  <1>2. /\ Len(jobQ) \in Nat
        /\ Len(jobQ') = Len(jobQ) + 1
        /\ \A i \in 1 .. Len(jobQ) :
             jobQ'[i] = jobQ[i] /\ jobQ[i].session \in Sessions
        /\ jobQ'[Len(jobQ) + 1].type = type
        /\ jobQ'[Len(jobQ) + 1].session = s
        /\ UNCHANGED <<connected, current>>
    BY <1>1, Appended
  <1>3. /\ link \in [Sessions -> {"none", "online", "canceled", "left"}]
        /\ connected \subseteq Sessions
    BY DEF TypeOK
  <1>4. LeaveIsLast'
    BY <1>1, <1>2, <1>3 DEF QueueInv, LeaveIsLast, JobsMatchLinks
  <1>5. JobsMatchLinks'
    BY <1>1, <1>2, <1>3 DEF QueueInv, JobsMatchLinks
  <1>6. \A r \in Sessions, n \in 0 .. Len(jobQ) :
          HasJoin(jobQ, r, n) =>
            HasJoin(jobQ', r, n) /\ HasJoin(jobQ', r, Len(jobQ) + 1)
    BY <1>2 DEF HasJoin
  <1>7. JoinIsFirst'
    <2>1. s \in connected \/ HasJoin(jobQ, s, Len(jobQ)) \/ type = "JOIN"
      BY <1>1, <1>3 DEF QueueInv, LinksMatchPlayers
    <2>2. type = "JOIN" => s \notin connected
      BY <1>1 DEF QueueInv, LinksMatchPlayers
    <2> SUFFICES ASSUME NEW i \in 1 .. Len(jobQ) + 1
                 PROVE  IF jobQ'[i].type = "JOIN" THEN jobQ'[i].session \notin connected
                        ELSE jobQ'[i].session \in connected
                             \/ HasJoin(jobQ', jobQ'[i].session, i - 1)
      BY <1>2 DEF JoinIsFirst
    <2>3. CASE i = Len(jobQ) + 1
      BY <1>2, <1>6, <2>1, <2>2, <2>3
    <2>4. CASE i \in 1 .. Len(jobQ)
      BY <1>2, <1>6, <2>4 DEF QueueInv, JoinIsFirst
    <2> QED
      BY <1>2, <2>3, <2>4
  <1>8. LinksMatchPlayers'
    <2> SUFFICES ASSUME NEW r \in Sessions
                 PROVE  /\ r \in connected => link'[r] # "none"
                        /\ link'[r] \in {"online", "canceled"} =>
                             r \in connected \/ HasJoin(jobQ', r, Len(jobQ) + 1)
      BY <1>2 DEF LinksMatchPlayers
    <2>1. CASE r = s /\ type = "JOIN"
      <3>1. HasJoin(jobQ', r, Len(jobQ) + 1)
        BY <1>2, <2>1 DEF HasJoin
      <3> QED
        BY <1>1, <1>3, <2>1, <3>1
    <2>2. CASE ~ (r = s /\ type = "JOIN")
      BY <1>1, <1>2, <1>3, <1>6, <2>2 DEF QueueInv, LinksMatchPlayers
    <2> QED
      BY <2>1, <2>2
  <1>9. CurrentHasPlayer'
    BY <1>2 DEF QueueInv, CurrentHasPlayer
  <1> QED
    BY <1>4, <1>5, <1>7, <1>8, <1>9 DEF QueueInv

(* Taking a job off the queue.                                              *)
LEMMA Dequeued ==
  ASSUME TypeOK, NEW type, Dequeue(type)
  PROVE  /\ Len(jobQ) \in Nat \ {0}
         /\ Len(jobQ') = Len(jobQ) - 1
         /\ \A i \in 1 .. Len(jobQ) - 1 : jobQ'[i] = jobQ[i + 1]
         /\ \A i \in 1 .. Len(jobQ) :
              jobQ[i].session \in Sessions /\ jobQ[i].type \in {"JOIN", "RECV", "LEAVE"}
         /\ Head(jobQ) = jobQ[1] /\ jobQ[1].type = type
         /\ current = None
  <1>1. jobQ \in Seq(Jobs) /\ jobQ # <<>> /\ jobQ' = Tail(jobQ)
    BY DEF TypeOK, Dequeue
  <1>2. \A i \in 1 .. Len(jobQ) : jobQ[i] \in Jobs
    BY <1>1
  <1>3. \A i \in 1 .. Len(jobQ) :
          jobQ[i].session \in Sessions /\ jobQ[i].type \in {"JOIN", "RECV", "LEAVE"}
    BY <1>2 DEF Jobs
  <1>4. /\ Len(jobQ) \in Nat \ {0}
        /\ Len(jobQ') = Len(jobQ) - 1
        /\ \A i \in 1 .. Len(jobQ) - 1 : jobQ'[i] = jobQ[i + 1]
        /\ Head(jobQ) = jobQ[1]
    BY <1>1
  <1> QED
    BY <1>3, <1>4 DEF Dequeue

(* A RECV or a LEAVE finds its Player, and a JOIN finds none.               *)
LEMMA HeadFits ==
  ASSUME TypeOK, QueueInv, NEW type, Dequeue(type)
  PROVE  /\ type = "JOIN" => jobQ[1].session \notin connected
         /\ type # "JOIN" => jobQ[1].session \in connected
  <1>1. 1 \in 1 .. Len(jobQ) /\ jobQ[1].type = type
    BY Dequeued
  <1>2. ~ HasJoin(jobQ, jobQ[1].session, 1 - 1)
    BY DEF HasJoin
  <1> QED
    BY <1>1, <1>2 DEF QueueInv, JoinIsFirst

(* What is left of the queue still has its order, and its RECV and LEAVE    *)
(* jobs still follow a JOIN, except for the JOIN that was taken.            *)
LEMMA TailFits ==
  ASSUME TypeOK, QueueInv, NEW type, Dequeue(type), link' = link
  PROVE  /\ LeaveIsLast' /\ JobsMatchLinks'
         /\ \A i \in 1 .. Len(jobQ') :
              jobQ'[i].session = jobQ[1].session =>
                type # "LEAVE" /\ jobQ'[i].type # "JOIN"
         /\ \A r \in Sessions, n \in 0 .. Len(jobQ') :
              HasJoin(jobQ, r, n + 1) =>
                HasJoin(jobQ', r, n) \/ (type = "JOIN" /\ r = jobQ[1].session)
  <1>1. /\ Len(jobQ) \in Nat \ {0}
        /\ Len(jobQ') = Len(jobQ) - 1
        /\ \A i \in 1 .. Len(jobQ) - 1 : jobQ'[i] = jobQ[i + 1]
        /\ jobQ[1].type = type
    BY Dequeued
  <1>2. LeaveIsLast'
    <2> SUFFICES ASSUME NEW i \in 1 .. Len(jobQ'), NEW j \in 1 .. Len(jobQ'),
                        i < j, jobQ'[i].session = jobQ'[j].session
                 PROVE  jobQ'[i].type # "LEAVE" /\ jobQ'[j].type # "JOIN"
      BY DEF LeaveIsLast
    <2>1. /\ i + 1 \in 1 .. Len(jobQ) /\ j + 1 \in 1 .. Len(jobQ) /\ i + 1 < j + 1
          /\ jobQ'[i] = jobQ[i + 1] /\ jobQ'[j] = jobQ[j + 1]
      BY <1>1
    <2> QED
      BY <2>1 DEF QueueInv, LeaveIsLast
  <1>3. JobsMatchLinks'
    BY <1>1 DEF QueueInv, JobsMatchLinks
  <1>4. ASSUME NEW i \in 1 .. Len(jobQ'), jobQ'[i].session = jobQ[1].session
        PROVE  type # "LEAVE" /\ jobQ'[i].type # "JOIN"
    <2>1. /\ 1 \in 1 .. Len(jobQ) /\ i + 1 \in 1 .. Len(jobQ) /\ 1 < i + 1
          /\ jobQ'[i] = jobQ[i + 1]
      BY <1>1
    <2> QED
      BY <1>1, <1>4, <2>1 DEF QueueInv, LeaveIsLast
  <1>5. ASSUME NEW r \in Sessions, NEW n \in 0 .. Len(jobQ'), HasJoin(jobQ, r, n + 1)
        PROVE  HasJoin(jobQ', r, n) \/ (type = "JOIN" /\ r = jobQ[1].session)
    <2>1. PICK k \in 1 .. n + 1 : jobQ[k].type = "JOIN" /\ jobQ[k].session = r
      BY <1>5 DEF HasJoin
    <2>2. CASE k = 1
      BY <1>1, <2>1, <2>2
    <2>3. CASE k # 1
      <3>1. k - 1 \in 1 .. n /\ jobQ'[k - 1] = jobQ[k]
        BY <1>1, <2>1, <2>3
      <3> QED
        BY <2>1, <3>1 DEF HasJoin
    <2> QED
      BY <2>2, <2>3
  <1> QED
    BY <1>2, <1>3, <1>4, <1>5

LEMMA QueueJoin ==
  ASSUME TypeOK, QueueInv, OnContentsUserJoin
  PROVE  QueueInv'
  <1> DEFINE s == jobQ[1].session
  <1>1. /\ Dequeue("JOIN") /\ link' = link /\ current' = current
        /\ connected' = connected \union {s}
    BY Dequeued DEF OnContentsUserJoin, netVars, threadVars
  <1>2. /\ Len(jobQ) \in Nat \ {0} /\ Len(jobQ') = Len(jobQ) - 1
        /\ \A i \in 1 .. Len(jobQ) - 1 : jobQ'[i] = jobQ[i + 1]
        /\ \A i \in 1 .. Len(jobQ) : jobQ[i].session \in Sessions
    BY <1>1, Dequeued
  <1>3. /\ LeaveIsLast' /\ JobsMatchLinks'
        /\ \A i \in 1 .. Len(jobQ') : jobQ'[i].session = s => jobQ'[i].type # "JOIN"
        /\ \A r \in Sessions, n \in 0 .. Len(jobQ') :
             HasJoin(jobQ, r, n + 1) => HasJoin(jobQ', r, n) \/ r = s
    BY <1>1, TailFits
  <1>4. JoinIsFirst'
    <2> SUFFICES ASSUME NEW i \in 1 .. Len(jobQ')
                 PROVE  IF jobQ'[i].type = "JOIN" THEN jobQ'[i].session \notin connected'
                        ELSE jobQ'[i].session \in connected'
                             \/ HasJoin(jobQ', jobQ'[i].session, i - 1)
      BY DEF JoinIsFirst
    <2>1. /\ i + 1 \in 1 .. Len(jobQ) /\ jobQ'[i] = jobQ[i + 1]
          /\ i - 1 \in 0 .. Len(jobQ') /\ (i + 1) - 1 = (i - 1) + 1
          /\ jobQ'[i].session \in Sessions
      BY <1>2
    <2>2. IF jobQ'[i].type = "JOIN" THEN jobQ'[i].session \notin connected
          ELSE jobQ'[i].session \in connected
               \/ HasJoin(jobQ, jobQ'[i].session, (i - 1) + 1)
      BY <2>1 DEF QueueInv, JoinIsFirst
    <2> QED
      BY <1>1, <1>3, <2>1, <2>2
  <1>5. LinksMatchPlayers'
    <2>1. link[s] # "none"
      BY <1>2 DEF QueueInv, JobsMatchLinks
    <2>2. Len(jobQ') \in 0 .. Len(jobQ') /\ Len(jobQ) = Len(jobQ') + 1
      BY <1>2
    <2> QED
      BY <1>1, <1>3, <2>1, <2>2 DEF QueueInv, LinksMatchPlayers
  <1>6. CurrentHasPlayer'
    BY <1>1 DEF QueueInv, CurrentHasPlayer
  <1> QED
    BY <1>3, <1>4, <1>5, <1>6 DEF QueueInv

LEMMA QueueRecv ==
  ASSUME TypeOK, QueueInv, DequeueRecv
  PROVE  QueueInv'
  <1> DEFINE s == jobQ[1].session
  <1>1. /\ Dequeue("RECV") /\ link' = link /\ connected' = connected /\ current' = s
    BY Dequeued DEF DequeueRecv, netVars, playerVars
  <1>2. /\ Len(jobQ) \in Nat \ {0} /\ Len(jobQ') = Len(jobQ) - 1
        /\ \A i \in 1 .. Len(jobQ) - 1 : jobQ'[i] = jobQ[i + 1]
        /\ \A i \in 1 .. Len(jobQ) : jobQ[i].session \in Sessions
    BY <1>1, Dequeued
  <1>3. /\ LeaveIsLast' /\ JobsMatchLinks'
        /\ \A r \in Sessions, n \in 0 .. Len(jobQ') :
             HasJoin(jobQ, r, n + 1) => HasJoin(jobQ', r, n)
    BY <1>1, TailFits
  <1>4. JoinIsFirst'
    <2> SUFFICES ASSUME NEW i \in 1 .. Len(jobQ')
                 PROVE  IF jobQ'[i].type = "JOIN" THEN jobQ'[i].session \notin connected'
                        ELSE jobQ'[i].session \in connected'
                             \/ HasJoin(jobQ', jobQ'[i].session, i - 1)
      BY DEF JoinIsFirst
    <2>1. /\ i + 1 \in 1 .. Len(jobQ) /\ jobQ'[i] = jobQ[i + 1]
          /\ i - 1 \in 0 .. Len(jobQ') /\ (i + 1) - 1 = (i - 1) + 1
          /\ jobQ'[i].session \in Sessions
      BY <1>2
    <2>2. IF jobQ'[i].type = "JOIN" THEN jobQ'[i].session \notin connected
          ELSE jobQ'[i].session \in connected
               \/ HasJoin(jobQ, jobQ'[i].session, (i - 1) + 1)
      BY <2>1 DEF QueueInv, JoinIsFirst
    <2> QED
      BY <1>1, <1>3, <2>1, <2>2
  <1>5. LinksMatchPlayers'
    <2>1. Len(jobQ') \in 0 .. Len(jobQ') /\ Len(jobQ) = Len(jobQ') + 1
      BY <1>2
    <2> QED
      BY <1>1, <1>3, <2>1 DEF QueueInv, LinksMatchPlayers
  <1>6. CurrentHasPlayer'
    BY <1>1, HeadFits DEF CurrentHasPlayer
  <1> QED
    BY <1>3, <1>4, <1>5, <1>6 DEF QueueInv

LEMMA QueueLeave ==
  ASSUME TypeOK, QueueInv, OnContentsUserLeave
  PROVE  QueueInv'
  <1> DEFINE s == jobQ[1].session
  <1>1. /\ Dequeue("LEAVE") /\ link' = link /\ current' = None
        /\ connected' = connected \ {s}
    BY Dequeued, HeadFits DEF OnContentsUserLeave, netVars, threadVars
  <1>2. /\ Len(jobQ) \in Nat \ {0} /\ Len(jobQ') = Len(jobQ) - 1
        /\ \A i \in 1 .. Len(jobQ) - 1 : jobQ'[i] = jobQ[i + 1]
        /\ \A i \in 1 .. Len(jobQ) : jobQ[i].session \in Sessions
        /\ jobQ[1].type = "LEAVE"
    BY <1>1, Dequeued
  <1>3. /\ LeaveIsLast' /\ JobsMatchLinks'
        /\ \A i \in 1 .. Len(jobQ') : jobQ'[i].session # s
        /\ \A r \in Sessions, n \in 0 .. Len(jobQ') :
             HasJoin(jobQ, r, n + 1) => HasJoin(jobQ', r, n)
    BY <1>1, TailFits
  <1>4. JoinIsFirst'
    <2> SUFFICES ASSUME NEW i \in 1 .. Len(jobQ')
                 PROVE  IF jobQ'[i].type = "JOIN" THEN jobQ'[i].session \notin connected'
                        ELSE jobQ'[i].session \in connected'
                             \/ HasJoin(jobQ', jobQ'[i].session, i - 1)
      BY DEF JoinIsFirst
    <2>1. /\ i + 1 \in 1 .. Len(jobQ) /\ jobQ'[i] = jobQ[i + 1]
          /\ i - 1 \in 0 .. Len(jobQ') /\ (i + 1) - 1 = (i - 1) + 1
          /\ jobQ'[i].session \in Sessions
      BY <1>2
    <2>2. IF jobQ'[i].type = "JOIN" THEN jobQ'[i].session \notin connected
          ELSE jobQ'[i].session \in connected
               \/ HasJoin(jobQ, jobQ'[i].session, (i - 1) + 1)
      BY <2>1 DEF QueueInv, JoinIsFirst
    <2> QED
      BY <1>1, <1>3, <2>1, <2>2
  <1>5. LinksMatchPlayers'
    <2>1. Len(jobQ') \in 0 .. Len(jobQ') /\ Len(jobQ) = Len(jobQ') + 1
      BY <1>2
    <2>2. link[s] = "left"
      BY <1>2 DEF QueueInv, JobsMatchLinks
    <2> QED
      BY <1>1, <1>3, <2>1, <2>2 DEF QueueInv, LinksMatchPlayers
  <1>6. CurrentHasPlayer'
    BY <1>1 DEF CurrentHasPlayer
  <1> QED
    BY <1>3, <1>4, <1>5, <1>6 DEF QueueInv

(* All the other steps leave the queue and the Players alone, and do no     *)
(* more to a link than to disconnect it.                                    *)
LEMMA QueueFrame ==
  ASSUME TypeOK, Next \/ UNCHANGED vars,
         ~ \E s \in Sessions :
             OnWorkerClientJoin(s) \/ OnRecv(s) \/ OnWorkerClientLeave(s),
         ~ OnContentsUserJoin, ~ OnContentsUserLeave, ~ DequeueRecv
  PROVE  /\ UNCHANGED <<jobQ, connected>>
         /\ current' \in {current, None}
         /\ \A s \in Sessions :
              link'[s] = link[s] \/ (link[s] = "online" /\ link'[s] = "canceled")
  <1> USE DEF netVars, jobVars, threadVars, playerVars
  <1> DEFINE Canceling ==
        \A s \in Sessions :
          link'[s] = link[s] \/ (link[s] = "online" /\ link'[s] = "canceled")
  <1>1. ASSUME NEW set, RefusedAnd(set)
        PROVE  current' = None /\ Canceling
    BY <1>1 DEF RefusedAnd, Disconnect
  <1>2. CASE SetUpdateEvent \/ UpdateStep \/ AuthStep
    BY <1>2
    DEF SetUpdateEvent, UpdateStep, AuthStep, WaitForUpdateEvent, JobQIsEmpty,
        EndOfPacketSet, WaitForAuthEvent, AuthAnswer, AuthQIsEmpty
  <1>3. CASE ProcessPacket
    <2>1. CASE PlayerMissing
      BY <2>1 DEF PlayerMissing
    <2>2. CASE RefusedPacket
      BY <1>1, <2>2 DEF RefusedPacket, Refused
    <2>3. CASE \E a \in Accounts : ReqLogin(a)
      BY <1>1, <2>3 DEF ReqLogin, RequireAuth, Refused
    <2>4. CASE \E a \in AccountsSent : ReqMessage(a)
      BY <1>1, <2>4 DEF ReqMessage, Refused
    <2>5. CASE \E a \in AccountsSent, pos \in SectorsSent : ReqSectorMove(a, pos)
      BY <1>1, <2>5 DEF ReqSectorMove, Refused
    <2> QED
      BY <1>3, <2>1, <2>2, <2>3, <2>4, <2>5 DEF ProcessPacket
  <1>4. CASE UNCHANGED vars
    BY <1>4 DEF vars
  <1> QED
    BY <1>2, <1>3, <1>4 DEF Next

LEMMA QueueStep ==
  ASSUME TypeOK, QueueInv, NothingDropped', [Next]_vars
  PROVE  QueueInv'
  <1>1. CASE \E s \in Sessions :
               OnWorkerClientJoin(s) \/ OnRecv(s) \/ OnWorkerClientLeave(s)
    BY <1>1, QueueNetwork
  <1>2. CASE OnContentsUserJoin \/ DequeueRecv \/ OnContentsUserLeave
    BY <1>2, QueueJoin, QueueRecv, QueueLeave
  <1>3. CASE /\ UNCHANGED <<jobQ, connected>>
             /\ current' \in {current, None}
             /\ \A s \in Sessions :
                  link'[s] = link[s] \/ (link[s] = "online" /\ link'[s] = "canceled")
    <2>1. \A i \in 1 .. Len(jobQ) : jobQ[i].session \in Sessions
      <3>1. \A i \in 1 .. Len(jobQ) : jobQ[i] \in Jobs
        BY DEF TypeOK
      <3> QED
        BY <3>1 DEF Jobs
    <2>2. LeaveIsLast' /\ JoinIsFirst' /\ CurrentHasPlayer'
      BY <1>3 DEF QueueInv, LeaveIsLast, JoinIsFirst, CurrentHasPlayer
    <2>3. JobsMatchLinks'
      BY <1>3, <2>1 DEF QueueInv, JobsMatchLinks
    <2>4. LinksMatchPlayers'
      BY <1>3 DEF QueueInv, LinksMatchPlayers
    <2> QED
      BY <2>2, <2>3, <2>4 DEF QueueInv
  <1> QED
    BY <1>1, <1>2, <1>3, QueueFrame

LEMMA NoNewErrors ==
  ASSUME TypeOK, SectorsMatchPlayers, QueueInv, SetsFit, NothingDropped', [Next]_vars
  PROVE  errors' = errors
  <1>1. CASE \E s \in Sessions :
               OnWorkerClientJoin(s) \/ OnRecv(s) \/ OnWorkerClientLeave(s)
    BY <1>1 DEF OnWorkerClientJoin, OnRecv, OnWorkerClientLeave, Enqueue, NothingDropped
  <1>2. CASE OnContentsUserLeave
    <2>1. Dequeue("LEAVE")
      BY <1>2 DEF OnContentsUserLeave
    <2>2. /\ Head(jobQ).session \in connected
          /\ Head(jobQ).session \in Sessions
      BY <2>1, Dequeued, HeadFits, DequeueType
    <2>3. RemoveFromCurSector(Head(jobQ).session)
      BY <1>2, <2>2 DEF OnContentsUserLeave
    <2>4. \/ cur[Head(jobQ).session][1] = Default[1]
          \/ Head(jobQ).session \in sectors[cur[Head(jobQ).session]]
      BY <2>2, DefaultIsNowhere DEF TypeOK, SectorsMatchPlayers
    <2> QED
      BY <2>3, <2>4 DEF RemoveFromCurSector
  <1>3. CASE SetUpdateEvent \/ (UpdateStep /\ ~ OnContentsUserLeave) \/ AuthStep
    BY <1>3
    DEF SetUpdateEvent, UpdateStep, AuthStep, WaitForUpdateEvent, JobQIsEmpty,
        OnContentsUserJoin, DequeueRecv, EndOfPacketSet, WaitForAuthEvent,
        AuthAnswer, AuthQIsEmpty
  <1>4. CASE ProcessPacket
    <2>1. ~ PlayerMissing
      BY DEF PlayerMissing, InRecvJob, QueueInv, CurrentHasPlayer
    <2>2. ASSUME NEW a, ReqMessage(a) PROVE errors' = errors
      <3>1. current \in connected
        BY <2>2 DEF ReqMessage
      <3>2. ~ (Cardinality(Audience(current)) > ID_SET_MAX)
        BY <3>1 DEF SetsFit
      <3>3. CASE account[current] # a
        BY <2>2, <3>3 DEF ReqMessage
      <3>4. CASE account[current] = a
        BY <2>2, <3>2, <3>4 DEF ReqMessage
      <3> QED
        BY <3>3, <3>4
    <2> QED
      BY <1>4, <2>1, <2>2 DEF ProcessPacket, RefusedPacket, ReqLogin, RequireAuth, ReqSectorMove
  <1>5. CASE UNCHANGED vars
    BY <1>5 DEF vars
  <1> QED
    BY <1>1, <1>2, <1>3, <1>4, <1>5 DEF Next

(* An error is never taken back.                                            *)
LEMMA ErrorsStay ==
  ASSUME [Next]_vars
  PROVE  errors \subseteq errors'
  <1>1. CASE \E s \in Sessions :
               OnWorkerClientJoin(s) \/ OnRecv(s) \/ OnWorkerClientLeave(s)
    BY <1>1 DEF OnWorkerClientJoin, OnRecv, OnWorkerClientLeave, Enqueue
  <1>2. CASE SetUpdateEvent \/ UpdateStep \/ AuthStep
    BY <1>2
    DEF SetUpdateEvent, UpdateStep, AuthStep, WaitForUpdateEvent, JobQIsEmpty,
        OnContentsUserJoin, OnContentsUserLeave, RemoveFromCurSector, DequeueRecv,
        EndOfPacketSet, WaitForAuthEvent, AuthAnswer, AuthQIsEmpty
  <1>3. CASE ProcessPacket
    BY <1>3 DEF ProcessPacket, PlayerMissing, RefusedPacket, ReqLogin, RequireAuth, ReqSectorMove, ReqMessage
  <1>4. CASE UNCHANGED vars
    BY <1>4 DEF vars
  <1> QED
    BY <1>1, <1>2, <1>3, <1>4 DEF Next

(* Whatever was dropped, these two errors never happen: a Player that is    *)
(* not in its sector, and a set without room.                               *)
LEMMA AllowedErrors ==
  ASSUME TypeOK, SectorsMatchPlayers, SetsFit, [Next]_vars
  PROVE  errors' \subseteq errors \union {"JobDropped", "NullPlayer", "ReleaseFail"}
  <1>1. CASE \E s \in Sessions :
               OnWorkerClientJoin(s) \/ OnRecv(s) \/ OnWorkerClientLeave(s)
    BY <1>1 DEF OnWorkerClientJoin, OnRecv, OnWorkerClientLeave, Enqueue
  <1>2. CASE OnContentsUserLeave
    BY <1>2, SectorsLeave
  <1>3. CASE SetUpdateEvent \/ (UpdateStep /\ ~ OnContentsUserLeave) \/ AuthStep
    BY <1>3
    DEF SetUpdateEvent, UpdateStep, AuthStep, WaitForUpdateEvent, JobQIsEmpty,
        OnContentsUserJoin, DequeueRecv, EndOfPacketSet, WaitForAuthEvent,
        AuthAnswer, AuthQIsEmpty
  <1>4. CASE ProcessPacket
    <2>1. ASSUME NEW a, ReqMessage(a) PROVE errors' = errors
      <3>1. ~ (Cardinality(Audience(current)) > ID_SET_MAX)
        BY <2>1 DEF ReqMessage, SetsFit
      <3>2. CASE account[current] # a
        BY <2>1, <3>2 DEF ReqMessage
      <3>3. CASE account[current] = a
        BY <2>1, <3>1, <3>3 DEF ReqMessage
      <3> QED
        BY <3>2, <3>3
    <2> QED
      BY <1>4, <2>1
      DEF ProcessPacket, PlayerMissing, RefusedPacket, ReqLogin, RequireAuth, ReqSectorMove
  <1>5. CASE UNCHANGED vars
    BY <1>5 DEF vars
  <1> QED
    BY <1>1, <1>2, <1>3, <1>4, <1>5 DEF Next

(***************************************************************************)
(* As long as a session ID set has room for the players around anybody:    *)
(* every Player is in its sector, and as long as no job was dropped every  *)
(* RECV and LEAVE finds its Player.                                        *)
(***************************************************************************)
THEOREM NoErrorsUnlessFull == Spec /\ []SetsFit => []NoErrors
  <1> DEFINE NoneYet == errors = {} /\ QueueInv
             IInv == NoErrors /\ (NothingDropped => NoneYet)
  <1>1. Init => IInv
    <2> SUFFICES ASSUME Init PROVE IInv
      OBVIOUS
    <2>1. Len(jobQ) = 0 /\ connected = {} /\ current = None /\ errors = {}
          /\ \A s \in Sessions : link[s] = "none"
      BY DEF Init
    <2> QED
      BY <2>1
      DEF QueueInv, LeaveIsLast, JobsMatchLinks, JoinIsFirst, LinksMatchPlayers,
          CurrentHasPlayer, NoErrors
  <1>2. TypeOK /\ SectorsMatchPlayers /\ SetsFit /\ IInv /\ [Next]_vars => IInv'
    <2> SUFFICES ASSUME TypeOK, SectorsMatchPlayers, SetsFit, IInv, [Next]_vars
                 PROVE  IInv'
      OBVIOUS
    <2>1. errors' \subseteq errors \union {"JobDropped", "NullPlayer", "ReleaseFail"}
      BY AllowedErrors
    <2>2. errors \subseteq errors'
      BY ErrorsStay
    <2>3. CASE NothingDropped'
      <3>1. NothingDropped
        BY <2>2, <2>3 DEF NothingDropped
      <3> QED
        BY <2>3, <3>1, QueueStep, NoNewErrors DEF NoErrors
    <2>4. CASE ~ NothingDropped'
      BY <2>1, <2>4 DEF NoErrors, NothingDropped
    <2> QED
      BY <2>3, <2>4
  <1>3. IInv => NoErrors
    OBVIOUS
  <1> HIDE DEF IInv
  <1> QED
    BY <1>1, <1>2, <1>3, TypeCorrect, SectorsCorrect, PTL DEF Spec
===============================================================================
