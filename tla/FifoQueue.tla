------------------------------ MODULE FifoQueue ------------------------------
(* What a queue promises: values leave it in the order in which they came. *)
EXTENDS Naturals, Sequences

CONSTANT Contents       \* what a place of the queue can hold

VARIABLE queue

QueueInit == queue = << >>

Enqueue == \E v \in Contents : queue' = Append(queue, v)

Dequeue == queue # << >> /\ queue' = Tail(queue)

FifoSpec == QueueInit /\ [][Enqueue \/ Dequeue]_queue
=============================================================================
