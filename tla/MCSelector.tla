------------------------------ MODULE MCSelector ------------------------------
(* Selector with two names, one of one byte and one of two, and one dotfile. *)
EXTENDS Selector

MCBytes == [n \in Names \cup Hidden |-> IF n = "a" THEN 1 ELSE 2]
===============================================================================
