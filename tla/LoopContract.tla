----------------------------- MODULE LoopContract -----------------------------
(***************************************************************************)
(* What an EventLoop promises to the code that hands functors to it, with  *)
(* no mutex, no eventfd and no batches: functors that were queued are run  *)
(* one at a time, in the order in which they were queued, each of them     *)
(* once; and as long as nobody asks the loop to stop, every one of them is *)
(* run in the end.  EventLoop.tla is shown to implement this module.       *)
(***************************************************************************)
EXTENDS Sequences, Functions

CONSTANT Functor                \* the callbacks, each submitted at most once

VARIABLES waiting,              \* queued, not yet run, in queue order
          done,                 \* run so far, in the order of the runs
          stopping              \* somebody has called quit()

vars == <<waiting, done, stopping>>

Init == waiting = <<>> /\ done = <<>> /\ stopping = FALSE

Fresh(f) == f \notin Range(waiting) \cup Range(done)

\* queueInLoop(f), from whatever thread
Submit(f) == /\ Fresh(f)
             /\ waiting' = Append(waiting, f)
             /\ UNCHANGED <<done, stopping>>

\* runInLoop(f) by the loop's own thread: f does not wait for its turn
RunInline(f) == /\ Fresh(f)
                /\ done' = Append(done, f)
                /\ UNCHANGED <<waiting, stopping>>

RunNext == /\ waiting # <<>>
           /\ done' = Append(done, Head(waiting))
           /\ waiting' = Tail(waiting)
           /\ UNCHANGED stopping

Stop == stopping' = TRUE /\ UNCHANGED <<waiting, done>>

Next == \/ \E f \in Functor : Submit(f) \/ RunInline(f)
        \/ RunNext
        \/ Stop

\* Without fairness: what may happen.
SafeSpec == Init /\ [][Next]_vars

\* With it: a functor is not left waiting, unless the loop was told to stop.
Spec == SafeSpec /\ WF_vars(~stopping /\ RunNext)
===============================================================================
