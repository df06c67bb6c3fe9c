------------------------------ MODULE LogContract ------------------------------
(***************************************************************************)
(* What the asynchronous log promises to the threads that write log lines, *)
(* with no buffers and no mutex: lines reach the file in the order in      *)
(* which they were appended, each once; none is lost unless the back end   *)
(* has fallen behind by MaxBuffers full buffers, and then never one of the *)
(* oldest; and while the log is open every line is settled in the end,     *)
(* that is written, or lost that way.                                      *)
(***************************************************************************)
EXTENDS Naturals, Sequences, Functions

CONSTANTS Line,                 \* what is logged
          Overload,             \* a backlog this long may lose lines ...
          Safe                  \* ... but none of its first ones

VARIABLES backlog,              \* appended, neither written nor lost, in order
          file,                 \* written, in order
          lost,
          open

vars == <<backlog, file, lost, open>>

Init == backlog = <<>> /\ file = <<>> /\ lost = {} /\ open = TRUE

Accept(m) == /\ m \notin Range(backlog) \cup Range(file) \cup lost
             /\ backlog' = Append(backlog, m)
             /\ UNCHANGED <<file, lost, open>>

Write == \E n \in 1 .. Len(backlog) :
            /\ file' = file \o SubSeq(backlog, 1, n)
            /\ backlog' = SubSeq(backlog, n + 1, Len(backlog))
            /\ UNCHANGED <<lost, open>>

Lose == /\ Len(backlog) >= Overload
        /\ \E i \in Safe .. Len(backlog), j \in Safe + 1 .. Len(backlog) :
              /\ i < j
              /\ lost' = lost \cup Range(SubSeq(backlog, i + 1, j))
              /\ backlog' = SubSeq(backlog, 1, i) \o SubSeq(backlog, j + 1, Len(backlog))
              /\ UNCHANGED <<file, open>>

Close == open' = FALSE /\ UNCHANGED <<backlog, file, lost>>

Next == \/ \E m \in Line : Accept(m)
        \/ Write \/ Lose \/ Close

\* What never happens, and what must.
Safety == Init /\ [][Next]_vars

Spec == Safety /\ WF_vars(open /\ (Write \/ Lose))
===============================================================================
