----------------------------- MODULE MCEventLoop ------------------------------
(***************************************************************************)
(* EventLoop on a small instance: two other threads and three functors.    *)
(* Functors bound the run: each of them is submitted once, so the eventfd  *)
(* is written at most once per functor and once more by quit().  Three     *)
(* functors are enough for one to be in the batch being run, one to be     *)
(* queued behind it and one to be queued by a callback.                    *)
(***************************************************************************)
EXTENDS EventLoop
===============================================================================
