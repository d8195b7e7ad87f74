------------------------------ MODULE RxQueue -------------------------------
(***************************************************************************)
(* What the receive path promises: each call that finds a frame takes the  *)
(* oldest one stored; a good one reaches the caller, one received with     *)
(* errors is passed over.  RxRing implements it.                           *)
(***************************************************************************)
EXTENDS Integers, Sequences

CONSTANTS Frames, Capacity, NoFrame

VARIABLES
  queue,     \* frames stored and not yet taken: [frame, good]
  delivered  \* the frame of the call at hand, or NoFrame

qvars == <<queue, delivered>>

Init == queue = <<>> /\ delivered = NoFrame

Arrive(f, good) ==
  /\ Len(queue) < Capacity
  /\ queue' = Append(queue, [frame |-> f, good |-> good])
  /\ UNCHANGED delivered

Take ==
  /\ queue # <<>>
  /\ delivered = NoFrame
  /\ queue' = Tail(queue)

Deliver == /\ Take
           /\ Head(queue).good
           /\ delivered' = Head(queue).frame

PassOver == /\ Take
            /\ ~Head(queue).good
            /\ UNCHANGED delivered

\* The caller has seen the frame.
Done == delivered' = NoFrame /\ UNCHANGED queue

Next == \/ \E f \in Frames, good \in BOOLEAN : Arrive(f, good)
        \/ Deliver \/ PassOver
        \/ Done

Spec == Init /\ [][Next]_qvars
=============================================================================
