----------------------------- MODULE MCProactor --------------------------------
(***************************************************************************)
(* Proactor with a few connections, two threads in the pool, and limits    *)
(* small enough to be reached.                                             *)
(***************************************************************************)
EXTENDS Proactor
===============================================================================
