----------------------------- MODULE QueueContract -----------------------------
(***************************************************************************)
(* What a blocking queue promises, with no ring and no mutex: a bounded    *)
(* FIFO, from which a consumer takes every item in the end while the       *)
(* process is alive.                                                       *)
(***************************************************************************)
EXTENDS Naturals, Sequences

CONSTANTS Item, Room

VARIABLES waiting,              \* put and not yet taken, in order
          taken,                \* taken, in order
          alive

vars == <<waiting, taken, alive>>

Init == waiting = <<>> /\ taken = <<>> /\ alive = TRUE

Put(x) == /\ Len(waiting) < Room
          /\ waiting' = Append(waiting, x)
          /\ UNCHANGED <<taken, alive>>

Take == /\ waiting # <<>>
        /\ taken' = Append(taken, Head(waiting))
        /\ waiting' = Tail(waiting)
        /\ UNCHANGED alive

Die == alive' = FALSE /\ UNCHANGED <<waiting, taken>>

Next == (\E x \in Item : Put(x)) \/ Take \/ Die

Safety == Init /\ [][Next]_vars

Spec == Safety /\ WF_vars(alive /\ Take)
===============================================================================
