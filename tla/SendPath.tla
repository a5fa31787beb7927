-------------------------------- MODULE SendPath --------------------------------
(***************************************************************************)
(* How the packets of one session reach the kernel (NetSession::SendPost,  *)
(* SendAndDisconnectPost, and their callers in NetRoot).  Any thread       *)
(* enqueues; whoever gets isSending_ drains sendQ_ into the array sentQ_   *)
(* and calls WSASend on it; the completion clears isSending_ and tries     *)
(* again.  The flag is all that protects sentQ_, sentCount_ and the one    *)
(* consumer that sendQ_ may have.                                          *)
(*                                                                         *)
(* sendQ_ is what LockFreeEnqQueue promises: a FIFO whose size_ is raised  *)
(* after the item is linked.  References are those of NetSession.tla, so   *)
(* Destroy runs when no thread and no I/O of a canceled session is left.   *)
(***************************************************************************)
EXTENDS Integers, Sequences, FiniteSets

CONSTANTS
  Threads,                       (* threads that send or complete sends    *)
  Packets,                       (* bound: packets sent, each once         *)
  eNET_PACKET_SEND_Q_MAX_SIZE,   (* entries of sentQ_, and isFull: 1024    *)
  NULL

ASSUME SendAssumption ==
  /\ IsFiniteSet(Threads)
  /\ NULL \notin Packets
  /\ eNET_PACKET_SEND_Q_MAX_SIZE \in Nat \ {0}

VARIABLES
  isSendIOPending, (* isSendIOPending_, given to Start                     *)
  pc,              (* per thread: its next step                            *)
  call,            (* per thread: what it was called for, see Calls        *)
  fresh,           (* packets nobody has sent yet                          *)
  sendQ, size,     (* sendQ_: the linked packets, and size_                *)
  isSending,       (* isSending_                                           *)
  isIOCanceled,    (* isIOCanceled_                                        *)
  sentQ,           (* sentQ_ as far as it is filled                        *)
  pending,         (* packets that a WSASend still reads                   *)
  completion,      (* how that WSASend ended, if it has                    *)
  signs,           (* eNET_SENDSIGN_KEY in the completion port             *)
  linked,          (* the connection is up                                 *)
  freed,           (* packets given back by NetPacket::Free                *)
  dead,            (* Destroy has run                                      *)
  order, wired,    (* history: packets as linked, and as given to WSASend  *)
  missed,          (* history: a sender relied on a thread that had already *)
                   (* found sendQ_ empty                                   *)
  overrun          (* an entry behind sentQ_ was written                   *)

queue   == <<sendQ, size, order>>
session == <<isIOCanceled, linked, dead>>
kernel  == <<pending, completion, wired>>
rest    == <<isSendIOPending, overrun>>
vars    == <<rest, pc, call, fresh, queue, isSending, session, sentQ, kernel,
             signs, freed, missed>>

(* last: SendAndDisconnectPost until it has the flag; lastSend: after that. *)
Calls  == [kind : {"send", "async", "last", "lastSend"}, packet : Packets \union {NULL}]
NoCall == [kind |-> "send", packet |-> NULL]

Values(q) == {q[n] : n \in DOMAIN q}

Init ==
  /\ isSendIOPending \in BOOLEAN
  /\ pc = [t \in Threads |-> "idle"] /\ call = [t \in Threads |-> NoCall]
  /\ fresh = Packets
  /\ sendQ = <<>> /\ size = 0 /\ order = <<>>
  /\ isSending = FALSE /\ isIOCanceled = FALSE /\ linked = TRUE /\ dead = FALSE
  /\ sentQ = <<>> /\ pending = <<>> /\ completion = "none" /\ wired = <<>>
  /\ signs = 0 /\ freed = {} /\ missed = FALSE /\ overrun = FALSE

Goto(t, where) == pc' = [pc EXCEPT ![t] = where]

-------------------------------------------------------------------------------
(* EnqueueSendQ.                                                            *)

(* SendPacket, AsyncSendPacket, or the message of                           *)
(* DisconnectAfterLastMessage, on a session that FindSession found alive.   *)
Send(t, p, kind) ==
  /\ pc[t] = "idle" /\ p \in fresh /\ ~dead
  /\ fresh' = fresh \ {p}
  /\ \/ /\ isIOCanceled
        /\ freed' = freed \union {p}
        /\ Goto(t, "cancel")             \* DisconnectSessionForSendPacket
        /\ UNCHANGED call
     \/ /\ ~isIOCanceled
        /\ call' = [call EXCEPT ![t] = [kind |-> kind, packet |-> p]]
        /\ Goto(t, "isFull")
        /\ UNCHANGED freed
  /\ UNCHANGED <<rest, queue, isSending, session, sentQ, kernel, signs, missed>>

(* A full queue disconnects the session.                                    *)
IsFull(t) ==
  /\ pc[t] = "isFull"
  /\ \/ /\ size >= eNET_PACKET_SEND_Q_MAX_SIZE
        /\ freed' = freed \union {call[t].packet}
        /\ call' = [call EXCEPT ![t] = NoCall]
        /\ Goto(t, "disconnect")
     \/ /\ size < eNET_PACKET_SEND_Q_MAX_SIZE
        /\ Goto(t, "link")
        /\ UNCHANGED <<freed, call>>
  /\ UNCHANGED <<rest, fresh, queue, isSending, session, sentQ, kernel, signs, missed>>

Link(t) ==
  /\ pc[t] = "link"
  /\ sendQ' = Append(sendQ, call[t].packet)
  /\ order' = Append(order, call[t].packet)
  /\ call' = [call EXCEPT ![t].packet = NULL]
  /\ Goto(t, "count")
  /\ UNCHANGED <<rest, fresh, size, isSending, session, sentQ, kernel, signs, freed, missed>>

Count(t) ==
  /\ pc[t] = "count"
  /\ size' = size + 1
  /\ Goto(t, CASE call[t].kind = "send"  -> "sendPost"
               [] call[t].kind = "async" -> "isSending"
               [] call[t].kind = "last"  -> "disconnect")
  /\ UNCHANGED <<rest, call, fresh, sendQ, order, isSending, session, sentQ, kernel, signs,
                 freed, missed>>

(* The thread leaves its packet to the one that has the flag.               *)
TurnAway(t) ==
  /\ Goto(t, "idle")
  /\ missed' = (missed \/ \E u \in Threads : pc[u] = "clear")

(* AsyncSendPacket asks a worker to send, unless somebody is sending.       *)
IsSending(t) ==
  /\ pc[t] = "isSending"
  /\ \/ /\ isSending /\ TurnAway(t) /\ UNCHANGED signs
     \/ /\ ~isSending
        /\ signs' = signs + 1 /\ Goto(t, "idle") /\ UNCHANGED missed
  /\ UNCHANGED <<rest, call, fresh, queue, isSending, session, sentQ, kernel, freed>>

TakeSign(t) ==
  /\ pc[t] = "idle" /\ signs > 0
  /\ signs' = signs - 1
  /\ call' = [call EXCEPT ![t] = NoCall]
  /\ Goto(t, "sendPost")
  /\ UNCHANGED <<rest, fresh, queue, isSending, session, sentQ, kernel, freed, missed>>

-------------------------------------------------------------------------------
(* SendPost and SendAndDisconnectPost.                                      *)

(* The flag was clear: the thread has it now, and frees what was sent.      *)
TakeFlag(t) ==
  /\ isSending' = TRUE
  /\ freed' = freed \union Values(sentQ)
  /\ sentQ' = <<>>
  /\ Goto(t, "drain")

(* Variant: the flag is set, but its old value is not looked at.            *)
SendPost_IgnoresFlag(t) ==
  /\ pc[t] = "sendPost"
  /\ TakeFlag(t)
  /\ UNCHANGED <<rest, call, fresh, queue, session, kernel, signs, missed>>

SendPost(t) ==
  /\ pc[t] = "sendPost"
  /\ \/ /\ isSending /\ TurnAway(t) /\ UNCHANGED <<isSending, freed, sentQ>>
     \/ /\ ~isSending /\ TakeFlag(t) /\ UNCHANGED missed
  /\ UNCHANGED <<rest, call, fresh, queue, session, kernel, signs>>

(* Variant: the last message does not wait for the flag.                    *)
SendAndDisconnectPost_NoWait(t) ==
  /\ pc[t] = "spin"
  /\ TakeFlag(t)
  /\ call' = [call EXCEPT ![t].kind = "lastSend"]
  /\ UNCHANGED <<rest, fresh, queue, session, kernel, signs, missed>>

(* The loop that waits for the flag, or for an empty queue.                 *)
SendAndDisconnectPost(t) ==
  /\ pc[t] = "spin"
  /\ \/ /\ ~isSending /\ TakeFlag(t)
        /\ call' = [call EXCEPT ![t].kind = "lastSend"]
     \/ /\ isSending /\ size = 0
        /\ Goto(t, "idle")
        /\ UNCHANGED <<call, isSending, freed, sentQ>>
  /\ UNCHANGED <<rest, fresh, queue, session, kernel, signs, missed>>

(* A turn of the drain loop.  The 1025th packet is written behind sentQ_:   *)
(* whatever comes then, SendPost ends the program after the loop.           *)
Drain(t) ==
  /\ pc[t] = "drain" /\ size > 0
  /\ size' = size - 1
  /\ sendQ' = Tail(sendQ)
  /\ sentQ' = Append(sentQ, Head(sendQ))
  /\ overrun' = (Len(sentQ) = eNET_PACKET_SEND_Q_MAX_SIZE)
  /\ UNCHANGED <<isSendIOPending, pc, call, fresh, order, isSending, session, kernel, signs,
                 freed, missed>>

DrainEnd(t) ==
  /\ pc[t] = "drain" /\ size = 0
  /\ Goto(t, IF sentQ = <<>> THEN "clear" ELSE "WSASend")
  /\ UNCHANGED <<rest, call, fresh, queue, isSending, session, sentQ, kernel, signs, freed,
                 missed>>

(* SEND_FAILURE_SENDQ_EMPTY.                                                *)
ClearFlag(t) ==
  /\ pc[t] = "clear"
  /\ isSending' = FALSE
  /\ Goto(t, "idle")
  /\ UNCHANGED <<rest, call, fresh, queue, session, sentQ, kernel, signs, freed, missed>>

(* WSASend succeeds, goes pending, or fails on a broken connection.         *)
WSASend(t) ==
  /\ pc[t] = "WSASend"
  /\ \/ /\ linked
        /\ pending' = sentQ /\ wired' = wired \o sentQ
        /\ \/ completion' = "sent" /\ Goto(t, "idle")
           \/ completion' = "none" /\ Goto(t, "pending")
     \/ ~linked /\ Goto(t, "idle") /\ UNCHANGED kernel
  /\ UNCHANGED <<rest, call, fresh, queue, isSending, session, sentQ, signs, freed, missed>>

(* SUCCESS_IO_PENDING and FAILURE_IO_CANCEL_FLAG_ON; the last message does  *)
(* not look at the flag that its own Disconnect has set.                    *)
Pending(t) ==
  /\ pc[t] = "pending"
  /\ Goto(t, IF isIOCanceled /\ call[t].kind # "lastSend" THEN "cancel"
             ELSE IF isSendIOPending THEN "idle" ELSE "disconnect")
  /\ UNCHANGED <<rest, call, fresh, queue, isSending, session, sentQ, kernel, signs, freed,
                 missed>>

-------------------------------------------------------------------------------
(* Disconnect.                                                              *)

(* The logic, the timeout, or the recv of a broken connection.              *)
Disconnect(t) ==
  /\ pc[t] = "idle" /\ ~isIOCanceled
  /\ call' = [call EXCEPT ![t] = NoCall]
  /\ Goto(t, "disconnect")
  /\ UNCHANGED <<rest, fresh, queue, isSending, session, sentQ, kernel, signs, freed, missed>>

SetCanceled(t) ==
  /\ pc[t] = "disconnect"
  /\ isIOCanceled' = TRUE
  /\ Goto(t, "cancel")
  /\ UNCHANGED <<rest, call, fresh, queue, isSending, linked, dead, sentQ, kernel, signs,
                 freed, missed>>

(* CancelIoEx.                                                              *)
CancelIO(t) ==
  /\ pc[t] = "cancel"
  /\ completion' = IF pending # <<>> /\ completion = "none" THEN "aborted" ELSE completion
  /\ Goto(t, IF call[t].kind = "last" THEN "spin" ELSE "idle")
  /\ UNCHANGED <<rest, call, fresh, queue, isSending, session, sentQ, pending, wired, signs,
                 freed, missed>>

ConnectionBreaks ==
  /\ linked /\ linked' = FALSE
  /\ UNCHANGED <<rest, pc, call, fresh, queue, isSending, isIOCanceled, dead, sentQ, kernel,
                 signs, freed, missed>>

-------------------------------------------------------------------------------
(* The end of a WSASend, and of the session.                                *)

KernelCompletes ==
  /\ pending # <<>> /\ completion = "none"
  /\ completion' = IF linked THEN "sent" ELSE "failed"
  /\ UNCHANGED <<rest, pc, call, fresh, queue, isSending, session, sentQ, pending, wired,
                 signs, freed, missed>>

(* A worker takes the completion (MyWorkerProc, OnSendComplete).  The flag  *)
(* of a canceled session stays as it is.                                    *)
OnCompletion(t) ==
  /\ pc[t] = "idle" /\ completion # "none"
  /\ pending' = <<>> /\ completion' = "none"
  /\ call' = [call EXCEPT ![t] = NoCall]
  /\ Goto(t, IF completion = "failed" THEN "disconnect"
             ELSE IF completion = "sent" /\ ~isIOCanceled THEN "complete" ELSE "idle")
  /\ UNCHANGED <<rest, fresh, queue, isSending, session, sentQ, wired, signs, freed, missed>>

(* Variant: the flag is cleared and nothing is sent.                        *)
SetSendFlagFalse_Returns(t) ==
  /\ pc[t] = "complete"
  /\ isSending' = FALSE
  /\ Goto(t, "idle")
  /\ UNCHANGED <<rest, call, fresh, queue, session, sentQ, kernel, signs, freed, missed>>

SetSendFlagFalse(t) ==
  /\ pc[t] = "complete"
  /\ isSending' = FALSE
  /\ Goto(t, "sendPost")
  /\ UNCHANGED <<rest, call, fresh, queue, session, sentQ, kernel, signs, freed, missed>>

Destroy ==
  /\ isIOCanceled /\ ~dead
  /\ \A t \in Threads : pc[t] = "idle"
  /\ pending = <<>> /\ signs = 0
  /\ dead' = TRUE
  /\ freed' = freed \union Values(sentQ) \union Values(sendQ)
  /\ sentQ' = <<>> /\ sendQ' = <<>> /\ size' = 0
  /\ isSending' = FALSE
  /\ UNCHANGED <<rest, pc, call, fresh, order, isIOCanceled, linked, kernel, signs, missed>>

-------------------------------------------------------------------------------
Walk(t) ==
  \/ IsFull(t) \/ Link(t) \/ Count(t) \/ IsSending(t)
  \/ SendPost(t) \/ SendAndDisconnectPost(t)
  \/ Drain(t) \/ DrainEnd(t) \/ ClearFlag(t) \/ WSASend(t) \/ Pending(t)
  \/ SetCanceled(t) \/ CancelIO(t) \/ SetSendFlagFalse(t)

Completion == \E t \in Threads : OnCompletion(t) \/ TakeSign(t)

Next ==
  /\ ~overrun
  /\ \/ \E t \in Threads :
          \/ Walk(t) \/ Disconnect(t)
          \/ \E p \in Packets, kind \in {"send", "async", "last"} : Send(t, p, kind)
     \/ Completion \/ KernelCompletes \/ ConnectionBreaks \/ Destroy

Spec == Init /\ [][Next]_vars

(* Threads go on, workers take what is in the port, the peer reads, a       *)
(* broken connection is noticed by its recv, and a canceled session without *)
(* references is destroyed.                                                 *)
FairSpec ==
  /\ Spec
  /\ \A t \in Threads : WF_vars(~overrun /\ Walk(t))
  /\ WF_vars(~overrun /\ Completion)
  /\ WF_vars(~overrun /\ KernelCompletes)
  /\ WF_vars(~overrun /\ ~linked /\ \E t \in Threads : Disconnect(t))
  /\ WF_vars(~overrun /\ Destroy)

-------------------------------------------------------------------------------
(***************************************************************************)
(* A packet is with the thread that sends it, in sendQ_, in sentQ_, or     *)
(* freed: none is freed twice, sent twice or leaked, whichever of SendPost, *)
(* SendAndDisconnectPost, a full queue and Destroy comes to free it.  And  *)
(* what a WSASend reads is all of sentQ_: nobody frees a packet of it or   *)
(* writes over the array, also when the completion of a canceled session   *)
(* leaves the flag set and a last message waits for it.                    *)
(***************************************************************************)
Held == {call[t].packet : t \in Threads} \ {NULL}

PacketHasOneOwner ==
  /\ Held \intersect (Values(sendQ) \union Values(sentQ) \union freed) = {}
  /\ Values(sendQ) \intersect (Values(sentQ) \union freed) = {}
  /\ Values(sentQ) \intersect freed = {}
  /\ Held \union Values(sendQ) \union Values(sentQ) \union freed = Packets \ fresh
  /\ pending # <<>> => isSending /\ pending = sentQ

(* The packets go out in the order in which they were linked, none twice    *)
(* and none left out, whichever threads drain the queue.                    *)
SentInOrder ==
  /\ Len(wired) <= Len(order)
  /\ \A n \in 1 .. Len(wired) : wired[n] = order[n]

(* A last message waits for a flag that nobody is going to clear: not even  *)
(* the completion of the send in flight, since the session is canceled.     *)
LastMessageHangs ==
  /\ \E t \in Threads : pc[t] = "spin"
  /\ isSending /\ size > 0
  /\ \A t \in Threads : pc[t] \notin {"drain", "clear", "WSASend", "pending", "complete"}

(***************************************************************************)
(* A packet that was enqueued is given to the kernel, or freed with its    *)
(* session.  The exceptions are the three weaknesses of this code: a       *)
(* sender that is turned away by a thread which found the queue empty and  *)
(* has yet to clear the flag; a drain that is fed faster than it drains;   *)
(* and a last message that comes while a send is in flight, whose          *)
(* completion does not clear the flag.                                     *)
(***************************************************************************)
EveryPacketLeaves ==
  \A p \in Packets :
    p \in Values(sendQ) ~>
      (p \in Values(wired) \union freed \/ missed \/ overrun \/ LastMessageHangs)
===============================================================================
