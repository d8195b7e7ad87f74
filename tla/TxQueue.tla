------------------------------ MODULE TxQueue -------------------------------
(***************************************************************************)
(* What the transmit path promises its caller: frames leave in the order   *)
(* in which they were accepted, and a buffer comes back after its frame    *)
(* has left, in that order too.  TxRing implements it.                     *)
(***************************************************************************)
EXTENDS Integers, Sequences, SequencesExt

CONSTANTS
  Buffers,   \* frame buffers of the caller
  Capacity   \* frames in flight at most

VARIABLES
  queue,  \* accepted and not yet returned, oldest first
  nsent   \* how many of them, from the oldest, have left

qvars == <<queue, nsent>>

Init == queue = <<>> /\ nsent = 0

\* A buffer that is not in the queue is accepted.
Accept(b) ==
  /\ b \notin ToSet(queue)
  /\ Len(queue) < Capacity
  /\ queue' = Append(queue, b)
  /\ UNCHANGED nsent

\* The oldest frame still to be sent leaves.
Send ==
  /\ nsent < Len(queue)
  /\ nsent' = nsent + 1
  /\ UNCHANGED queue

\* The k oldest buffers, all of them sent, go back to the caller.
Return(k) ==
  /\ k <= nsent
  /\ queue' = SubSeq(queue, k + 1, Len(queue))
  /\ nsent' = nsent - k

Next ==
  \/ \E b \in Buffers : Accept(b)
  \/ Send
  \/ \E k \in 1 .. Capacity : Return(k)

Spec == Init /\ [][Next]_qvars
=============================================================================
