------------------------------ MODULE TimerList --------------------------------
(***************************************************************************)
(* The sorted, doubly linked list of timers of version2.0 (lst_timer.cpp): *)
(* operators on a record with the list and its nodes.  tick() is left out: *)
(* the server never comes to call it (see Proactor).                       *)
(*                                                                         *)
(* A definition A_x that follows the comment "Slip" is A with a plausible  *)
(* mistake.                                                                *)
(***************************************************************************)
EXTENDS Naturals

CONSTANT NumTimers              \* timers that can be made

Timer == 1 .. NumTimers
NULL == 0

NoTimers == [head |-> NULL, tail |-> NULL,
             next |-> [t \in Timer |-> NULL], prev |-> [t \in Timer |-> NULL],
             expire |-> [t \in Timer |-> 0], deleted |-> {}]

\* One turn of the loop of add_timer/2, which stays where it leaves off, and the node after
\* which it does: it has at most NumTimers nodes to pass.
Pass(L, t) ==
    [p \in Timer |-> IF L.next[p] = NULL \/ L.expire[t] < L.expire[L.next[p]]
                       THEN p ELSE L.next[p]]

Place(L, t, from) ==
    LET turn == Pass(L, t)
        place[i \in 0 .. NumTimers] == IF i = 0 THEN from ELSE turn[place[i - 1]]
    IN  place[NumTimers]

\* Slip: a timer that is appended does not become the tail.
add_timer_after_KeepTail(L, t, from) ==
    LET p == Place(L, t, from)
        n == L.next[p]
    IN  IF n # NULL
          THEN [L EXCEPT !.next[p] = t, !.next[t] = n, !.prev[n] = t, !.prev[t] = p]
          ELSE [L EXCEPT !.next[p] = t, !.prev[t] = p, !.next[t] = NULL]

\* The private add_timer(timer, lst_head).
add_timer_after(L, t, from) ==
    LET p == Place(L, t, from)
        n == L.next[p]
    IN  IF n # NULL
          THEN [L EXCEPT !.next[p] = t, !.next[t] = n, !.prev[n] = t, !.prev[t] = p]
          ELSE [L EXCEPT !.next[p] = t, !.prev[t] = p, !.next[t] = NULL, !.tail = t]

\* Before the head a timer is linked, but head is not moved.
add_timer(L, t) ==
    IF L.head = NULL THEN [L EXCEPT !.head = t, !.tail = t]
    ELSE IF L.expire[t] < L.expire[L.head]
           THEN [L EXCEPT !.next[t] = L.head, !.prev[L.head] = t]
           ELSE add_timer_after(L, t, L.head)

\* Slip: a head that is moved is not inserted again.
adjust_timer_DropHead(L, t) ==
    LET n == L.next[t]
    IN  IF n = NULL \/ L.expire[t] < L.expire[n] THEN L
        ELSE IF t = L.head
               THEN [L EXCEPT !.head = n, !.prev[n] = NULL]
               ELSE add_timer_after([L EXCEPT !.next[L.prev[t]] = n, !.prev[n] = L.prev[t]],
                                    t, n)

adjust_timer(L, t) ==
    LET n == L.next[t]
    IN  IF n = NULL \/ L.expire[t] < L.expire[n] THEN L
        ELSE IF t = L.head
               THEN add_timer_after([L EXCEPT !.head = n, !.prev[n] = NULL], t, n)
               ELSE add_timer_after([L EXCEPT !.next[L.prev[t]] = n, !.prev[n] = L.prev[t]],
                                    t, n)

\* A timer in the middle is unlinked, but not deleted.
del_timer(L, t) ==
    LET p == L.prev[t]
        n == L.next[t]
    IN  CASE t = L.head /\ t = L.tail ->
               [L EXCEPT !.head = NULL, !.tail = NULL, !.deleted = @ \cup {t}]
          [] t = L.head /\ t # L.tail ->
               [L EXCEPT !.head = n, !.prev[n] = NULL, !.deleted = @ \cup {t}]
          [] t # L.head /\ t = L.tail ->
               [L EXCEPT !.tail = p, !.next[p] = NULL, !.deleted = @ \cup {t}]
          [] OTHER -> [L EXCEPT !.next[p] = n, !.prev[n] = p]

-----------------------------------------------------------------------------
\* The timers that are found from the head (at most NumTimers steps away).
Onward(L) == [found \in SUBSET Timer |-> found \cup ({L.next[t] : t \in found} \ {NULL})]

Linked(L) ==
    LET more == Onward(L)
        upto[i \in 0 .. NumTimers] == IF i = 0 THEN {L.head} \ {NULL} ELSE more[upto[i - 1]]
    IN  upto[NumTimers]

(***************************************************************************)
(* The list is what lst_timer.h:47 calls it, ascending and doubly linked,  *)
(* from head to tail, and none of its timers has been deleted.             *)
(***************************************************************************)
Sound(L) ==
    /\ L.head = NULL <=> L.tail = NULL
    /\ L.head # NULL => /\ L.prev[L.head] = NULL
                        /\ L.next[L.tail] = NULL
                        /\ L.tail \in Linked(L)
    /\ \A t \in Linked(L) :
          /\ t \notin L.deleted
          /\ L.next[t] # NULL => /\ L.prev[L.next[t]] = t
                                 /\ L.expire[t] <= L.expire[L.next[t]]
===============================================================================
