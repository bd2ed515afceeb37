------------------------- MODULE AbstractForwarder -------------------------
(***************************************************************************)
(* What the xenblocks listener promises about the events it forwards: it  *)
(* is a lossy FIFO between the contract and the voting queue.  The        *)
(* contract emits each event once; an event emitted while it is listened  *)
(* to joins the end of the pending queue; the queue's head is either      *)
(* delivered (its tokens reach AddToQueue) or discarded (its validation   *)
(* fails); and the end of the queue may be cut off when the subscription  *)
(* ends.  Nothing is ever reordered, duplicated or invented.              *)
(***************************************************************************)
EXTENDS Naturals, Sequences, Functions

CONSTANT Events

VARIABLES
    emitted,  \* every event the contract emitted, in order
    pending,  \* the events on their way to the voting queue, oldest first
    out       \* the events delivered to the voting queue, in order

Init == emitted = <<>> /\ pending = <<>> /\ out = <<>>

\* The contract emits e; it joins the queue if the listener hears it.
Emit(e) ==
    /\ e \notin Range(emitted)
    /\ emitted' = Append(emitted, e)
    /\ pending' \in {pending, Append(pending, e)}
    /\ UNCHANGED out

\* The oldest pending event is delivered.
Deliver ==
    /\ pending # <<>>
    /\ out' = Append(out, Head(pending))
    /\ pending' = Tail(pending)
    /\ UNCHANGED emitted

\* The oldest pending event is dropped.
Discard ==
    /\ pending # <<>>
    /\ pending' = Tail(pending)
    /\ UNCHANGED <<emitted, out>>

\* The newest pending events are lost: only the first k are kept.
Truncate ==
    /\ \E k \in 0..Len(pending) : pending' = SubSeq(pending, 1, k)
    /\ UNCHANGED <<emitted, out>>

Next == (\E e \in Events : Emit(e)) \/ Deliver \/ Discard \/ Truncate

Spec == Init /\ [][Next]_<<emitted, pending, out>>

=============================================================================
