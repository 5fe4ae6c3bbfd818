----------------------------- MODULE SyncTracker -----------------------------
(***************************************************************************)
(* What the pipeline promises: a tracker without a queue or a thread of    *)
(* its own.  Each accepted event takes effect on the map at once; when     *)
(* tracking is over the map is printed.  Tracking.tla refines it.          *)
(***************************************************************************)

CONSTANTS
  Addr,     \* addresses
  Entry,    \* what the map can hold for an address, None included
  None,     \* no entry
  NoReport  \* no report has been printed

VARIABLES
  tracked,  \* the map of everything currently allocated
  closed,   \* tracking is over
  report    \* the leak report, once printed

vars == <<tracked, closed, report>>

Init ==
  /\ tracked = [a \in Addr |-> None]
  /\ closed = FALSE
  /\ report = NoReport

\* An allocation or a deallocation is recorded.
Record(a, v) ==
  /\ ~closed
  /\ tracked' = [tracked EXCEPT ![a] = v]
  /\ UNCHANGED <<closed, report>>

Close ==
  /\ ~closed
  /\ closed' = TRUE
  /\ UNCHANGED <<tracked, report>>

\* The report is printed once, when nothing can be recorded any more.
Report ==
  /\ closed
  /\ report = NoReport
  /\ report' = tracked
  /\ UNCHANGED <<tracked, closed>>

Next ==
  \/ \E a \in Addr, v \in Entry : Record(a, v)
  \/ Close
  \/ Report

Spec == Init /\ [][Next]_vars

==============================================================================
