------------------------------ MODULE MCStartup -------------------------------
(* Instances of Startup for TLC. *)
EXTENDS Startup, TLC

CONSTANTS a1, a2

TwoAccounts == {a1, a2}

InOrder == [S \in (SUBSET TwoAccounts) \ {{}} |-> IF a1 \in S THEN a1 ELSE a2]

SomeProxies == {<<"good", "good">>, <<"good", "bad">>}
===============================================================================
