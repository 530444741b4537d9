------------------------------ MODULE FifoQueue ------------------------------
(***************************************************************************)
(* What dbqueue promises its caller: a sequence of pointers, appended at   *)
(* the end and taken from the front, or (dequeue_sub, dequeue_sppos) from  *)
(* a position in it.  DbQueue implements it.                               *)
(***************************************************************************)
EXTENDS Sequences, Naturals

CONSTANTS MhtNodes, None

VARIABLES
  open,   \* there is a queue
  q,      \* its contents
  ret     \* what the last removal returned

fifoVars == <<open, q, ret>>

FifoInit == open = FALSE /\ q = <<>> /\ ret = None

\* initQueue: a new queue, whatever there was.
New == open' = TRUE /\ q' = <<>> /\ UNCHANGED ret

Put == /\ open
       /\ \E m \in MhtNodes : q' = Append(q, m)
       /\ UNCHANGED <<open, ret>>

\* Take the element at position k.
TakeAt(k) ==
  /\ open /\ k \in 1..Len(q)
  /\ ret' = q[k]
  /\ q' = SubSeq(q, 1, k - 1) \o SubSeq(q, k + 1, Len(q))
  /\ UNCHANGED open

\* Nothing to take: NULL is returned.
TakeNothing == open /\ ret' = None /\ UNCHANGED <<open, q>>

\* The queue is gone.
Close == open /\ open' = FALSE /\ q' = <<>> /\ UNCHANGED ret

FifoNext(positions) ==
  \/ New \/ Put \/ Close
  \/ q = <<>> /\ TakeNothing
  \/ \E k \in positions : TakeAt(k)

\* The queue as mht.c uses it: only its front is taken.
FifoSpec == FifoInit /\ [][FifoNext({1})]_fifoVars

\* With the two removals from inside the queue, which take nothing when the
\* queue has no element at the position asked for.
AnySpec == FifoInit /\ [][FifoNext(1..Len(q)) \/ TakeNothing]_fifoVars

=============================================================================
