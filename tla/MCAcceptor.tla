----------------------------- MODULE MCAcceptor --------------------------------
(***************************************************************************)
(* Acceptor with a few peers, two loops and a limit of descriptors that    *)
(* the peers can reach.                                                    *)
(***************************************************************************)
EXTENDS Acceptor
===============================================================================
