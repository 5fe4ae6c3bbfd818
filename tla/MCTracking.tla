---------------------------- MODULE MCTracking ----------------------------
(* Tracking on the main thread, one more program thread and the tracker    *)
(* thread, two addresses that are reused, and two block sizes.             *)
EXTENDS Tracking

CONSTANTS m, p, a1, a2, z1, z2

MCProgram == {m, p}
MCAddr == {a1, a2}
MCSize == {z1, z2}

============================================================================
