----------------------------- MODULE EventFifo -----------------------------
(***************************************************************************)
(* What the kernel's event queue promises to the processes that post to it *)
(* (process.h: process_post, process_run): a bounded first-in first-out    *)
(* queue.  An event that is accepted is kept, in order, until it is        *)
(* dispatched; an event is refused only when the queue holds Capacity of   *)
(* them; nothing else ever touches the queue.                              *)
(***************************************************************************)
EXTENDS Naturals, Sequences

CONSTANTS
  Event,     \* what an entry of the queue holds
  Capacity   \* PROCESS_CONF_NUMEVENTS

VARIABLES
  queue,     \* the accepted events, oldest first
  refused    \* TRUE once some post was answered with PROCESS_ERR_FULL

fifoVars == <<queue, refused>>

FifoInit == queue = << >> /\ refused = FALSE

Accept(e) ==
  /\ Len(queue) < Capacity
  /\ queue' = Append(queue, e)
  /\ refused' = refused

Refuse ==
  /\ Len(queue) = Capacity
  /\ refused' = TRUE
  /\ UNCHANGED queue

Dispatch ==
  /\ queue # << >>
  /\ queue' = Tail(queue)
  /\ refused' = refused

FifoNext == (\E e \in Event : Accept(e)) \/ Refuse \/ Dispatch

FifoSpec == FifoInit /\ [][FifoNext]_fifoVars
=============================================================================
