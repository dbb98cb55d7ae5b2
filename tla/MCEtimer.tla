----------------------------- MODULE MCEtimer -----------------------------
(* An instance of Etimer for TLC: two processes with a timer each, of which *)
(* one may exit while the other's timer runs, and set or stop its own in   *)
(* the event of its exit.                                                  *)
EXTENDS Etimer

CONSTANTS p1, p2, t1, t2
AllCalls ==
  ({"set", "stop"} \X {p1} \X {t1}) \cup ({"exit", "post"} \X {p1} \X {NULL})
  \cup ({"set", "reset", "restart"} \X {p2} \X {t2})
=============================================================================
