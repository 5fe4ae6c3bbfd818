---------------------------- MODULE MCBootstrap -----------------------------
(* Bootstrap with two threads.                                             *)
EXTENDS Bootstrap, TLC

CONSTANTS t1, t2

MCThread == {t1, t2}
MCOp == {"malloc", "free", "calloc", "realloc"}
MCHeap == {11}
MCMissing == {{}, {"calloc", "realloc"}}
MCSize == {0, 2, 9}
Symmetry == Permutations(MCThread)

=============================================================================
