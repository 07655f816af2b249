------------------------------ MODULE MCProxy ------------------------------
(***************************************************************************)
(* Instances of Proxy with the two services of the program.                *)
(***************************************************************************)
EXTENDS Proxy

TwoServices == {Frontend, Backend}
OneRequest == {[mechanism |-> "NULL", frame |-> "good"]}
===========================================================================
