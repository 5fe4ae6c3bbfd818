---------------------------- MODULE MCLeakReport ----------------------------
(* LeakReport in an address space of eight bytes.                          *)
EXTENDS LeakReport

CONSTANTS t1, t2

MCTrace == {t1, t2}

============================================================================
