-------------------------------- MODULE NetPipe --------------------------------
(***************************************************************************)
(* Pipes (NetPipe, NetUser, PipeManager, and the part of NetRoot that joins *)
(* them to sessions).  A pipe is a thread with its own map of users; every *)
(* frame it takes in who joins or moves in, hands on who moves out, lets   *)
(* go who leaves, and gives each of its users his jobs.  MovePipe sends a  *)
(* session to the least busy pipe of a code.  A manager per code creates a *)
(* pipe when one is full and stops pipes that stay empty.                  *)
(*                                                                         *)
(* The references of a session are those of NetSession.tla, reduced to     *)
(* what pipes depend on: one that stands for all its I/O, and one per move *)
(* under way.  FindSession succeeds while the session is not deleted.      *)
(* MovePipe(ID) is the first entrance of a session, by the worker that     *)
(* announces it; MovePipe(user) is called by the pipe the user is in.      *)
(***************************************************************************)
EXTENDS Integers, Sequences, FiniteSets

CONSTANTS
  Slots,            (* entries of the session array                        *)
  IDs,              (* bound: session IDs handed out, each once            *)
  Pipes,            (* bound: pipes ever created                           *)
  Codes,            (* pipe codes                                          *)
  PipeCode,         (* code_ of each pipe                                  *)
  SKIP_ROUNDS,      (* FindPipe_LoadBalanced passes over above it: 3       *)
  DESTROY_ROUNDS,   (* DestroyZeroUserPipe stops above it: 10              *)
  MOVE_ROUNDS,      (* bound: collections during one move (every 5 s)      *)
  maxPipeUser,      (* maxPipeUser_: users of a pipe that is full          *)
  MaxJobs,          (* bound: sessions with a packet set waiting in jobQ_  *)
  NULL

(* A move is over before its empty destination is old enough to be stopped. *)
ASSUME PipeAssumption ==
  /\ PipeCode \in [Pipes -> Codes] /\ \A c \in Codes : \E p \in Pipes : PipeCode[p] = c
  /\ NULL \notin Pipes \union IDs
  /\ SKIP_ROUNDS \in Nat /\ DESTROY_ROUNDS \in Nat /\ MOVE_ROUNDS \in Nat
  /\ SKIP_ROUNDS + MOVE_ROUNDS <= DESTROY_ROUNDS
  /\ IsFiniteSet(Pipes)
  /\ maxPipeUser \in Nat /\ MaxJobs \in Nat

VARIABLES
  session,        (* per slot: the session, see Free                       *)
  jobQ,           (* per slot: the session IDs of the waiting packet sets  *)
  fresh,          (* IDs not handed out yet                                *)
  entering,       (* slots whose MovePipe(ID) has yet to call RequestEnter *)
  waited,         (* per slot: collections that counted the destination    *)
                  (* since the move began                                  *)
  user,           (* per ID: the NetUser, its curPipe_ and isMoving_       *)
  users,          (* per pipe: the keys of userMap_                        *)
  joinQ, moveInQ, moveOutQ, leaveQ,   (* per pipe                          *)
  at,             (* per pipe: where its worker is                         *)
  stopFlag, zeroUserCount,            (* per pipe                          *)
  place,          (* per pipe: its place in the list of its code in        *)
                  (* pipeMap_, behind those created before it; 0 if not there *)
  errors          (* calls of ErrorQuit that were reached                  *)

sessions == <<session, jobQ, waited>>
queues   == <<joinQ, moveInQ, moveOutQ, leaveQ>>
managed  == <<stopFlag, zeroUserCount, place>>
vars     == <<sessions, fresh, entering, user, users, queues, at, managed, errors>>

(* A slot no session is in, as Destroy leaves it.                           *)
Free == [id |-> NULL, ioCount |-> 0, linked |-> FALSE, deleted |-> FALSE,
         curPipe |-> NULL, destPipe |-> NULL, isMoving |-> FALSE]

NoUser == [curPipe |-> NULL, isMoving |-> FALSE]
EmptyQ == [p \in Pipes |-> <<>>]
First(c) == CHOOSE p \in Pipes : PipeCode[p] = c

(* Every manager has created one pipe.                                      *)
Init ==
  /\ session = [s \in Slots |-> Free] /\ jobQ = [s \in Slots |-> <<>>]
  /\ fresh = IDs /\ entering = {} /\ waited = [s \in Slots |-> 0]
  /\ user = [i \in IDs |-> NoUser]
  /\ users = [p \in Pipes |-> {}]
  /\ joinQ = EmptyQ /\ moveInQ = EmptyQ /\ moveOutQ = EmptyQ /\ leaveQ = EmptyQ
  /\ place = [p \in Pipes |-> IF p = First(PipeCode[p]) THEN 1 ELSE 0]
  /\ at = [p \in Pipes |-> IF p = First(PipeCode[p]) THEN "message" ELSE "unused"]
  /\ stopFlag = [p \in Pipes |-> FALSE] /\ zeroUserCount = [p \in Pipes |-> 0]
  /\ errors = {}

Values(q)  == {q[n] : n \in 1 .. Len(q)}
InList(c)  == {p \in Pipes : PipeCode[p] = c /\ place[p] # 0}
Size(p)    == Cardinality(users[p])
Slot(i)    == CHOOSE s \in Slots : session[s].id = i
Enqueue(q, p, x) == [q EXCEPT ![p] = Append(@, x)]
Dequeue(q, p)    == [q EXCEPT ![p] = Tail(@)]

ErrorQuit(what) ==
  /\ errors' = errors \union {what}
  /\ UNCHANGED <<sessions, fresh, entering, user, users, queues, at, managed>>

(* Variant: a session in a pipe is deleted at once, behind the pipe's back. *)
DecrementIOCount_AtOnce(s, new) ==
  LET left == [new EXCEPT !.ioCount = @ - 1] IN
  /\ session' = [session EXCEPT ![s] = IF left.ioCount > 0 THEN left ELSE Free]
  /\ jobQ' = IF left.ioCount > 0 THEN jobQ ELSE [jobQ EXCEPT ![s] = <<>>]
  /\ leaveQ' = leaveQ

(* new is the session as the caller leaves it.  The last reference makes    *)
(* its pipe let it go; a session without a pipe is deleted.                 *)
DecrementIOCount(s, new) ==
  LET left == [new EXCEPT !.ioCount = @ - 1] IN
  \/ /\ left.ioCount > 0
     /\ session' = [session EXCEPT ![s] = left]
     /\ UNCHANGED <<jobQ, leaveQ>>
  \/ /\ left.ioCount = 0 /\ left.curPipe # NULL
     /\ session' = [session EXCEPT ![s] = [left EXCEPT !.deleted = TRUE]]
     /\ leaveQ' = Enqueue(leaveQ, left.curPipe, left.id)
     /\ UNCHANGED jobQ
  \/ /\ left.ioCount = 0 /\ left.curPipe = NULL
     /\ session' = [session EXCEPT ![s] = Free]
     /\ jobQ' = [jobQ EXCEPT ![s] = <<>>]
     /\ UNCHANGED leaveQ

-------------------------------------------------------------------------------
(* Sessions come and go, and receive.                                       *)

Accept(s, i) ==
  /\ session[s].id = NULL /\ i \in fresh
  /\ session' = [session EXCEPT ![s] = [Free EXCEPT !.id = i, !.ioCount = 1, !.linked = TRUE]]
  /\ fresh' = fresh \ {i}
  /\ UNCHANGED <<jobQ, waited, entering, user, users, queues, at, managed, errors>>

(* The last I/O of the connection ends.                                     *)
Disconnect(s) ==
  /\ session[s].linked
  /\ DecrementIOCount(s, [session[s] EXCEPT !.linked = FALSE])
  /\ UNCHANGED <<waited, fresh, entering, user, users, joinQ, moveInQ, moveOutQ, at,
                 managed, errors>>

EnqueueJob(s) ==
  /\ session[s].linked
  /\ jobQ[s] = <<>> /\ Cardinality({t \in Slots : jobQ[t] # <<>>}) < MaxJobs
  /\ jobQ' = [jobQ EXCEPT ![s] = Append(@, session[s].id)]
  /\ UNCHANGED <<session, waited, fresh, entering, user, users, queues, at, managed, errors>>

-------------------------------------------------------------------------------
(* MovePipe.                                                                *)

(* The smaller of two pipes, or the one that comes first in its list.       *)
IsBefore(p, q) == Size(p) < Size(q) \/ (Size(p) = Size(q) /\ place[p] <= place[q])

IsFirst(c, p) == p \in InList(c) /\ \A q \in InList(c) : place[p] <= place[q]

(* Variant: a pipe that has been empty for long is as good as any.          *)
FindPipe_LoadBalanced_Empty(c, p) ==
  /\ p \in InList(c) /\ \A q \in InList(c) : IsBefore(p, q)
  /\ UNCHANGED zeroUserCount

(* The smallest pipe that has not been empty for long, else the first one,  *)
(* which is revived.                                                        *)
FindPipe_LoadBalanced(c, p) ==
  LET live == {q \in InList(c) : zeroUserCount[q] <= SKIP_ROUNDS} IN
  \/ /\ p \in live /\ \A q \in live : IsBefore(p, q)
     /\ UNCHANGED zeroUserCount
  \/ /\ live = {} /\ IsFirst(c, p)
     /\ zeroUserCount' = [zeroUserCount EXCEPT ![p] = 0]

(* FindSession, PipeMoveStart, ClearJobQ and the choice of a destination.   *)
StartMove(s, p) ==
  /\ session' = [session EXCEPT ![s] =
                   [session[s] EXCEPT !.ioCount = @ + 1, !.isMoving = TRUE, !.destPipe = p]]
  /\ jobQ' = [jobQ EXCEPT ![s] = <<>>]
  /\ UNCHANGED waited

MovePipeByID(s, p) ==
  /\ session[s].linked /\ ~session[s].isMoving /\ session[s].curPipe = NULL
  /\ FindPipe_LoadBalanced(PipeCode[p], p)
  /\ StartMove(s, p)
  /\ entering' = entering \union {s}
  /\ UNCHANGED <<fresh, user, users, queues, at, stopFlag, place, errors>>

RequestEnter(s) ==
  /\ s \in entering
  /\ joinQ' = Enqueue(joinQ, session[s].destPipe, session[s].id)
  /\ entering' = entering \ {s}
  /\ UNCHANGED <<sessions, fresh, user, users, moveInQ, moveOutQ, leaveQ, at, managed, errors>>

(* Variant: a user who is moving already may start another move.            *)
MayMove_Twice(i, c) == PipeCode[user[i].curPipe] # c

MayMove(i, c) == ~user[i].isMoving /\ PipeCode[user[i].curPipe] # c

(* While its pipe handles his jobs, a user of pipe q sets out for pipe p.   *)
MovePipe(q, i, p) ==
  /\ at[q] = "message" /\ i \in users[q]
  /\ MayMove(i, PipeCode[p])
  /\ \E s \in Slots :
       /\ session[s].id = i /\ ~session[s].deleted
       /\ FindPipe_LoadBalanced(PipeCode[p], p)
       /\ StartMove(s, p)
       /\ moveOutQ' = Enqueue(moveOutQ, session[s].curPipe, i)
  /\ user' = [user EXCEPT ![i].isMoving = TRUE]
  /\ UNCHANGED <<fresh, entering, users, joinQ, moveInQ, leaveQ, at, stopFlag, place, errors>>

-------------------------------------------------------------------------------
(* A frame of a pipe: Join, Move (in, then out), Leave, MessageProc.  The   *)
(* last frame of a stopped pipe has no Join and no MessageProc.             *)

AfterPipeEnter(s, p) ==
  DecrementIOCount(s, [session[s] EXCEPT !.curPipe = p, !.destPipe = NULL, !.isMoving = FALSE])

(* The user is new in the pipe (OnUserJoin, OnUserMoveIn) and may stay.     *)
Enter(p, i) ==
  \/ /\ i \in users[p] /\ ErrorQuit("insert failed")
  \/ /\ session[Slot(i)].destPipe # p /\ ErrorQuit("not the destination")
  \/ /\ i \notin users[p] /\ session[Slot(i)].destPipe = p
     /\ users' = [users EXCEPT ![p] = @ \union {i}]
     /\ user' = [user EXCEPT ![i] = [curPipe |-> p, isMoving |-> FALSE]]
     /\ AfterPipeEnter(Slot(i), p)
     /\ waited' = [waited EXCEPT ![Slot(i)] = 0]
     /\ UNCHANGED <<fresh, entering, moveOutQ, at, managed, errors>>

Join(p) ==
  /\ at[p] = "join" /\ joinQ[p] # <<>>
  /\ Enter(p, Head(joinQ[p]))
  /\ joinQ' = IF errors' = errors THEN Dequeue(joinQ, p) ELSE joinQ
  /\ UNCHANGED moveInQ

MoveIn(p) ==
  /\ at[p] \in {"in", "lastIn"} /\ moveInQ[p] # <<>>
  /\ Enter(p, Head(moveInQ[p]))
  /\ moveInQ' = IF errors' = errors THEN Dequeue(moveInQ, p) ELSE moveInQ
  /\ UNCHANGED joinQ

(* Variant: the user is sent back to the pipe he comes from.                *)
AfterPipeMoveOut_Back(i) == moveInQ' = Enqueue(moveInQ, session[Slot(i)].curPipe, i)

AfterPipeMoveOut(i) == moveInQ' = Enqueue(moveInQ, session[Slot(i)].destPipe, i)

MoveOut(p) ==
  /\ at[p] \in {"out", "lastOut"} /\ moveOutQ[p] # <<>>
  /\ LET i == Head(moveOutQ[p]) IN
     \/ /\ i \notin users[p] /\ ErrorQuit("delete failed")
     \/ /\ i \in users[p]
        /\ users' = [users EXCEPT ![p] = @ \ {i}]
        /\ moveOutQ' = Dequeue(moveOutQ, p)
        /\ AfterPipeMoveOut(i)
        /\ UNCHANGED <<sessions, fresh, entering, user, joinQ, leaveQ, at, managed, errors>>

(* DeletePipeUser destroys the session.                                     *)
Leave(p) ==
  /\ at[p] \in {"leave", "lastLeave"} /\ leaveQ[p] # <<>>
  /\ LET i == Head(leaveQ[p]) IN
     \/ /\ i \notin users[p] /\ ErrorQuit("find failed")
     \/ /\ i \in users[p]
        /\ users' = [users EXCEPT ![p] = @ \ {i}]
        /\ leaveQ' = Dequeue(leaveQ, p)
        /\ session' = [session EXCEPT ![Slot(i)] = Free]
        /\ jobQ' = [jobQ EXCEPT ![Slot(i)] = <<>>]
        /\ user' = [user EXCEPT ![i] = NoUser]       \* OnUserLeave
        /\ UNCHANGED <<waited, fresh, entering, joinQ, moveInQ, moveOutQ, at,
                       managed, errors>>

(* The users of a pipe who have a job to do, and the job.                   *)
HasJob(p, i) == i \in users[p] /\ ~user[i].isMoving /\ jobQ[Slot(i)] # <<>>

DequeueJob(p, i) ==
  /\ at[p] = "message" /\ HasJob(p, i)
  /\ \/ /\ Head(jobQ[Slot(i)]) # i /\ ErrorQuit("other session")
     \/ /\ Head(jobQ[Slot(i)]) = i
        /\ jobQ' = [jobQ EXCEPT ![Slot(i)] = Tail(@)]
        /\ UNCHANGED <<session, waited, fresh, entering, user, users, queues, at,
                       managed, errors>>

(* A loop of the frame has nothing left to do.                              *)
NextPart(p) ==
  /\ \/ /\ at[p] = "join" /\ joinQ[p] = <<>>
        /\ at' = [at EXCEPT ![p] = "in"]
     \/ /\ at[p] = "in" /\ moveInQ[p] = <<>>
        /\ at' = [at EXCEPT ![p] = "out"]
     \/ /\ at[p] = "out" /\ moveOutQ[p] = <<>>
        /\ at' = [at EXCEPT ![p] = "leave"]
     \/ /\ at[p] = "leave" /\ leaveQ[p] = <<>>
        /\ at' = [at EXCEPT ![p] = "message"]
     \/ /\ at[p] = "message" /\ \A i \in users[p] : ~HasJob(p, i)
        /\ at' = [at EXCEPT ![p] = IF stopFlag[p] THEN "lastIn" ELSE "join"]
     \/ /\ at[p] = "lastIn" /\ moveInQ[p] = <<>>
        /\ at' = [at EXCEPT ![p] = "lastOut"]
     \/ /\ at[p] = "lastOut" /\ moveOutQ[p] = <<>>
        /\ at' = [at EXCEPT ![p] = "lastLeave"]
     \/ /\ at[p] = "lastLeave" /\ leaveQ[p] = <<>>
        /\ at' = [at EXCEPT ![p] = "deleted"]
  /\ UNCHANGED <<sessions, fresh, entering, user, users, queues, managed, errors>>

-------------------------------------------------------------------------------
(* The manager of a code.                                                   *)

(* A pipe, of whatever code, is full: a pipe of code c is created.          *)
AutoCreate(c, p) ==
  /\ PipeCode[p] = c /\ at[p] = "unused"
  /\ \E d \in Codes : \E q \in InList(d) : Size(q) >= maxPipeUser
  /\ place' = [place EXCEPT ![p] =
                 1 + Cardinality({q \in Pipes : PipeCode[q] = c /\ at[q] # "unused"})]
  /\ at' = [at EXCEPT ![p] = "message"]
  /\ UNCHANGED <<sessions, fresh, entering, user, users, queues, stopFlag, zeroUserCount, errors>>

(* How long the pipes of code c have been empty, after this collection.     *)
Counted(c) ==
  [p \in Pipes |-> IF p \notin InList(c) THEN zeroUserCount[p]
                   ELSE IF users[p] = {} THEN zeroUserCount[p] + 1 ELSE 0]

(* The pipes DestroyZeroUserPipe stops; one is left when all would go.      *)
Destroyed(c) ==
  LET old == {p \in InList(c) : Counted(c)[p] > DESTROY_ROUNDS} IN
  IF old = InList(c) THEN {p \in old : ~IsFirst(c, p)} ELSE old

RevivePipe(c) ==
  zeroUserCount' = [p \in Pipes |-> IF p \in InList(c) THEN 0 ELSE zeroUserCount[p]]

(* MOVE_ROUNDS: a move is over before its destination has been counted more *)
(* often than that.                                                         *)
GarbageCollect(c) ==
  \/ /\ Cardinality(InList(c)) = 1
     /\ RevivePipe(c)
     /\ UNCHANGED <<sessions, fresh, entering, user, users, queues, at, stopFlag, place, errors>>
  \/ LET moving == {s \in Slots : session[s].isMoving /\ session[s].destPipe \in InList(c)} IN
     /\ Cardinality(InList(c)) > 1
     /\ \A s \in moving : waited[s] < MOVE_ROUNDS
     /\ waited' = [s \in Slots |-> IF s \in moving THEN waited[s] + 1 ELSE waited[s]]
     /\ zeroUserCount' = Counted(c)
     /\ stopFlag' = [p \in Pipes |-> stopFlag[p] \/ p \in Destroyed(c)]
     /\ place' = [p \in Pipes |-> IF p \in Destroyed(c) THEN 0 ELSE place[p]]
     /\ UNCHANGED <<session, jobQ, fresh, entering, user, users, queues, at, errors>>

-------------------------------------------------------------------------------
Worker(p) ==
  \/ Join(p) \/ MoveIn(p) \/ MoveOut(p) \/ Leave(p) \/ NextPart(p)
  \/ \E i \in IDs : DequeueJob(p, i)

Next ==
  \/ \E s \in Slots : (\E i \in IDs : Accept(s, i)) \/ Disconnect(s) \/ EnqueueJob(s)
  \/ \E s \in Slots : (\E p \in Pipes : MovePipeByID(s, p)) \/ RequestEnter(s)
  \/ \E p, q \in Pipes, i \in IDs : MovePipe(q, i, p)
  \/ \E p \in Pipes : Worker(p)
  \/ \E c \in Codes : (\E p \in Pipes : AutoCreate(c, p)) \/ GarbageCollect(c)

Spec == Init /\ [][Next]_vars

-------------------------------------------------------------------------------
(* None of the pipes' ErrorQuits is reached: no user enters a pipe twice or *)
(* a pipe he was not sent to, leaves or moves out of a pipe he is not in,   *)
(* or is handed the job of the session that had his slot before.            *)
NoErrorQuit == errors = {}

(* A user is in the pipe his session thinks he is in and in no other; only  *)
(* a user on the way from one pipe to the next is in none.                  *)
UserIsInItsPipe ==
  /\ \A p \in Pipes : \A i \in users[p] :
       \E s \in Slots : session[s].id = i /\ session[s].curPipe = p
  /\ \A s \in Slots : session[s].curPipe # NULL =>
       session[s].id \in users[session[s].curPipe] \/ session[s].isMoving

(* A pipe that a manager stops is nobody's destination, and nobody's pipe   *)
(* but of those who have moved out of it: no request is lost in the queues  *)
(* of a pipe that is deleted, and no session uses its address.  And a code  *)
(* keeps a pipe for those who come, though all of its pipes were empty.     *)
StoppedPipeIsUnused ==
  /\ \A p \in Pipes, s \in Slots : stopFlag[p] =>
       /\ session[s].destPipe # p
       /\ session[s].curPipe = p => session[s].isMoving
  /\ \A c \in Codes : InList(c) # {}

(* The queues of the pipes, and where a request for ID i is queued.         *)
Queue == [join |-> joinQ, in |-> moveInQ, out |-> moveOutQ, leave |-> leaveQ]
Requests(i) == {b \in (DOMAIN Queue) \X Pipes : i \in Values(Queue[b[1]][b[2]])}

(* No session is forgotten: while it moves, exactly one request for it is   *)
(* on its way, to the pipe that has to act on it next; once it is deleted,  *)
(* its pipe has the request to let it go; else nothing is queued for it.    *)
(* No request is queued twice, or for a session that is gone.               *)
RequestIsPending ==
  /\ \A s \in Slots : LET me == session[s] IN
       IF me.isMoving /\ s \notin entering
       THEN \/ Requests(me.id) = {<<"out", me.curPipe>>} /\ me.id \in users[me.curPipe]
            \/ Requests(me.id) \in {{<<"join", me.destPipe>>}, {<<"in", me.destPipe>>}}
       ELSE Requests(me.id) = IF me.deleted THEN {<<"leave", me.curPipe>>} ELSE {}
  /\ \A k \in DOMAIN Queue, p \in Pipes :
       /\ Len(Queue[k][p]) = Cardinality(Values(Queue[k][p]))
       /\ \A i \in Values(Queue[k][p]) : \E s \in Slots : session[s].id = i
===============================================================================
