-------------------------------- MODULE Fifo --------------------------------
(***************************************************************************)
(* What the audio message queue promises its users: a bounded first-in     *)
(* first-out queue whose content is only ever lost as a whole, but for the *)
(* oldest message.                                                         *)
(***************************************************************************)
EXTENDS Naturals, Sequences

CONSTANTS Message,   \* the values that may be queued
          Capacity   \* the most the queue holds

VARIABLE fifo

FifoInit == fifo = <<>>

\* A message joins at the back, while there is room.
Put(m) == /\ Len(fifo) < Capacity
          /\ fifo' = Append(fifo, m)

\* The oldest message leaves.
Take == /\ fifo # <<>>
        /\ fifo' = Tail(fifo)

\* Everything queued is forgotten at once; the oldest message may escape it.
Clear == \E n \in 0 .. 1 : n <= Len(fifo) /\ fifo' = SubSeq(fifo, 1, n)

FifoNext == (\E m \in Message : Put(m)) \/ Take \/ Clear

FifoSpec == FifoInit /\ [][FifoNext]_fifo
=============================================================================
