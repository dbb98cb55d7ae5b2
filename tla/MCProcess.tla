----------------------------- MODULE MCProcess -----------------------------
(* Instances of the kernel for TLC. *)
EXTENDS Process, TLC

\* The processes are interchangeable when interrupts poll all or none of them.
ProcSymmetry == Permutations(Proc)

\* States are told apart by what a step can read: neither by the slots outside
\* the ring, nor by the history refused (a queue is met full, by the shortest
\* way there, before a post has been refused).
HeldView == <<procVars, pollVars, fevent, Queue, pc, stack, walk>>
=============================================================================
