---------------------------- MODULE MCAsyncLogging -----------------------------
(***************************************************************************)
(* AsyncLogging on a small instance.  Heap buffers are the numbers         *)
(* 1 .. NBuffers, enough for all the lines besides the four the log starts *)
(* with, so that AppendRotates never lacks one.  MaxLines fill more than   *)
(* MaxBuffers of them, so that the back end is overloaded when it is slow. *)
(***************************************************************************)
EXTENDS AsyncLogging

CONSTANT NBuffers

MCBuffer == 1 .. NBuffers

ASSUME NBuffers >= (MaxLines \div (BufferSize - 1)) + 5
===============================================================================
