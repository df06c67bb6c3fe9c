------------------------------- MODULE MCLogger --------------------------------
(***************************************************************************)
(* Logger on a small instance: two threads that log over midnight, into a  *)
(* queue with room for two lines, up to the line that splits the file.     *)
(***************************************************************************)
EXTENDS Logger
===============================================================================
