------------------------------ MODULE FifoQueue ------------------------------
(***************************************************************************)
(* What a clock-domain-crossing FIFO promises its two users: a bounded     *)
(* queue.  A write is taken only when there is room, a read delivers the   *)
(* oldest byte, nothing is lost, duplicated or reordered, and a read that  *)
(* the FIFO rejects delivers an arbitrary byte and changes nothing.  The   *)
(* two sides may act in the same instant.                                  *)
(***************************************************************************)
EXTENDS Naturals, Sequences

CONSTANTS Data,      \* the bytes a user may write
          Capacity   \* how many bytes the queue holds

VARIABLES queue,     \* the bytes written and not yet read, oldest first
          rdata      \* the byte the last read returned

vars == <<queue, rdata>>

TypeOK == queue \in Seq(Data) /\ rdata \in Data

Init == queue = << >> /\ rdata \in Data

Put(v) == /\ Len(queue) < Capacity
          /\ queue' = Append(queue, v)
          /\ UNCHANGED rdata

Take == /\ queue # << >>
        /\ rdata' = Head(queue)
        /\ queue' = Tail(queue)

\* Both sides in one instant: there was room before the read made any.
PutTake(v) == /\ Len(queue) < Capacity
              /\ queue # << >>
              /\ rdata' = Head(queue)
              /\ queue' = Append(Tail(queue), v)

\* A read that is rejected, alone or in the instant of a write.
Reject == rdata' \in Data /\ UNCHANGED queue

PutReject(v) == /\ Len(queue) < Capacity
                /\ queue' = Append(queue, v)
                /\ rdata' \in Data

\* The reset both sides share empties the queue.
Flush == queue' = << >> /\ UNCHANGED rdata

Next == \/ \E v \in Data : Put(v) \/ PutTake(v) \/ PutReject(v)
        \/ Take \/ Reject \/ Flush

Spec == Init /\ [][Next]_vars
=============================================================================
