-------------------------------- MODULE MCCheck --------------------------------
(* Check on the trees of MCResolver. *)
EXTENDS MCResolver, Check
===============================================================================
