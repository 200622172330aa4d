------------------------------ MODULE MCPkCont ------------------------------
(* Model-checking instance of PkCont: two feeds (primary and secondary),  *)
(* five sequence numbers, packet 4 carrying two numbers, one daily reset. *)
EXTENDS PkCont

CONSTANTS F1, F2

MCFeeds == {F1, F2}
MCSpan == [s \in 1..5 |-> IF s = 4 THEN 2 ELSE 1]
=============================================================================
