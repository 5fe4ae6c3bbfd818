---------------------------- MODULE MCReentrancy ----------------------------
(* Reentrancy with the main thread and another one.                        *)
EXTENDS Reentrancy

CONSTANTS main, other

MCCaller == {main, other}
MCMaxCalls == [onMacOS \in BOOLEAN |-> IF onMacOS THEN 2 ELSE 3]

=============================================================================
