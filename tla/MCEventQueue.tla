--------------------------- MODULE MCEventQueue ---------------------------
(* EventQueue on two program threads, the worker (which also pushes, when  *)
(* it frees an event) and two threads that stop the queue.                 *)
EXTENDS EventQueue

CONSTANTS e1, e2, e3, p1, p2, w, s1, s2

MCEvent == {e1, e2, e3}
MCPushers == {p1, p2, w}
MCStoppers == {s1, s2}

============================================================================
