---------------------------- MODULE MCConnection -------------------------------
(***************************************************************************)
(* Connection on a small instance: interchangeable connections over two    *)
(* loops, and no more descriptors than connections that are open at once.  *)
(***************************************************************************)
EXTENDS Connection, TLC

Symmetry == Permutations(Conn)
===============================================================================
