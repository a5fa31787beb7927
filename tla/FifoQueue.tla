------------------------------ MODULE FifoQueue -------------------------------
(***************************************************************************)
(* What the callers of LockFreeEnqQueue (the job queues of ChatServer, the *)
(* send queue of a session) expect of it: one first-in first-out queue for *)
(* each object, from which nothing is lost, duplicated or taken elsewhere. *)
(***************************************************************************)
EXTENDS Sequences

CONSTANTS
  Queues,  (* the queue objects                                              *)
  Items    (* what is enqueued                                               *)

VARIABLES
  queue,   (* per queue: the items in it, oldest first                       *)
  taken    (* per queue: the items that Dequeue returned, in order           *)

vars == <<queue, taken>>

TypeOK ==
  /\ queue \in [Queues -> Seq(Items)]
  /\ taken \in [Queues -> Seq(Items)]

Init ==
  /\ queue = [q \in Queues |-> <<>>]
  /\ taken = [q \in Queues |-> <<>>]

Enqueue(q, item) ==
  /\ queue' = [queue EXCEPT ![q] = Append(@, item)]
  /\ UNCHANGED taken

Dequeue(q) ==
  /\ queue[q] # <<>>
  /\ taken' = [taken EXCEPT ![q] = Append(@, Head(queue[q]))]
  /\ queue' = [queue EXCEPT ![q] = Tail(@)]

Next == \E q \in Queues : Dequeue(q) \/ \E item \in Items : Enqueue(q, item)

Spec == Init /\ [][Next]_vars
===============================================================================
