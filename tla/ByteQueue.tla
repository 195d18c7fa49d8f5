------------------------------ MODULE ByteQueue ------------------------------
(***************************************************************************)
(* What a bufchain promises (misc.c:142-153): a queue of bytes that are    *)
(* added at the end, any number at a time, and consumed at the front.      *)
(***************************************************************************)
EXTENDS SequencesExt

VARIABLE queue

QInit == queue = <<>>
Enqueue == IsStrictPrefix(queue, queue')
Dequeue == IsStrictSuffix(queue', queue)
QNext == Enqueue \/ Dequeue
QSpec == QInit /\ [][QNext]_queue
=============================================================================
