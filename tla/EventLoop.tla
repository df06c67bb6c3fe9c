------------------------------ MODULE EventLoop -------------------------------
(***************************************************************************)
(* One EventLoop of version3.0 (net/EventLoop.cpp), the thread that runs   *)
(* its loop(), and the other threads that hand it functors or stop it.     *)
(* The loop thread blocks in epoll_wait; another thread puts a functor     *)
(* into pendingFunctors_ under the mutex and then, outside the mutex,      *)
(* writes to an eventfd that the loop's poller watches edge-triggered.     *)
(*                                                                         *)
(* Atomicity.  A critical section of mutex_ is one step; so is a system    *)
(* call.  Everything between two of them is local to its thread, except    *)
(* quit_, a plain bool that is written by one thread and read by another:  *)
(* each access is a step.  callingPendingFunctors_ is only read by the     *)
(* loop's thread (queueInLoop tests isInLoopThread() first).               *)
(*                                                                         *)
(* A definition A_x that follows the comment "Slip" is A with a plausible  *)
(* mistake; no specification uses it.  Putting it in A's place shows that  *)
(* a property notices the mistake.                                         *)
(***************************************************************************)
EXTENDS Naturals, Sequences, FiniteSets, Functions

CONSTANTS Thread,               \* the threads other than the loop's own
          Functor               \* the callbacks, each submitted at most once

VARIABLES
    pendingFunctors,            \* the queue, guarded by mutex_
    functors,                   \* doPendingFunctors' local batch, what is left of it
    calling,                    \* callingPendingFunctors_
    quit,                       \* quit_
    efd,                        \* the eventfd's counter
    edge,                       \* the eventfd was written since epoll last reported it
    io,                         \* another channel of the poller has an event to report
    active,                     \* events of the current round not handled yet
    pc,                         \* where the loop's thread is
    caller,                     \* for each other thread: "idle", or before its "wakeup"
    ran,                        \* history: the functors run, in order
    sent,                       \* history: the functors submitted
    stopping                    \* history: quit() was called

vars == <<pendingFunctors, functors, calling, quit, efd, edge, io, active, pc,
          caller, ran, sent, stopping>>

\* The two kinds of channel: the wakeup eventfd, and every other descriptor.
Event == {"wakeup", "io"}

\* start: before loop(); check: the while condition; poll: epoll_wait;
\* events: between two channels' handlers; handler: inside one; swap:
\* doPendingFunctors before the swap; run: between two functors; cb: inside
\* one; cbwake: a functor's queueInLoop before its wakeup(); expired:
\* handleExpired; exited: loop() has returned.
Place == {"start", "check", "poll", "events", "handler", "swap", "run", "cb",
          "cbwake", "expired", "exited"}

Init == /\ pendingFunctors = <<>> /\ functors = <<>>
        /\ calling = FALSE /\ quit = FALSE
        /\ efd = 0 /\ edge = FALSE /\ io = FALSE /\ active = {}
        /\ pc = "start"
        /\ caller = [t \in Thread |-> "idle"]
        /\ ran = <<>> /\ sent = {} /\ stopping = FALSE

-------------------------------------------------------------------------------
(* The other threads.                                                      *)

\* Slip: the eventfd taken for a semaphore.
Write_Decrements == efd' = efd - 1 /\ edge' = TRUE

\* write(wakeupFd_, 1): the counter grows and epoll has a new edge to report.
Write == efd' = efd + 1 /\ edge' = TRUE

\* Slip: the functor put in front of the queue.
QueueInLoop_Front(t, f) ==
    /\ caller[t] = "idle"
    /\ f \notin sent
    /\ pendingFunctors' = <<f>> \o pendingFunctors
    /\ sent' = sent \cup {f}
    /\ caller' = [caller EXCEPT ![t] = "wakeup"]
    /\ UNCHANGED <<functors, calling, quit, efd, edge, io, active, pc, ran, stopping>>

\* queueInLoop by a thread that is not the loop's: the locked emplace_back.
QueueInLoop(t, f) ==
    /\ caller[t] = "idle"
    /\ f \notin sent
    /\ pendingFunctors' = Append(pendingFunctors, f)
    /\ sent' = sent \cup {f}
    /\ caller' = [caller EXCEPT ![t] = "wakeup"]
    /\ UNCHANGED <<functors, calling, quit, efd, edge, io, active, pc, ran, stopping>>

\* Slip: no wakeup after the assignment.
Quit_NoWakeup(t) ==
    /\ caller[t] = "idle"
    /\ ~stopping
    /\ quit' = TRUE
    /\ stopping' = TRUE
    /\ UNCHANGED <<pendingFunctors, functors, calling, efd, edge, io, active, pc,
                   caller, ran, sent>>

\* quit() by such a thread: the assignment.  A loop has one owner, which calls
\* quit() once (~EventLoopThread).
Quit(t) ==
    /\ caller[t] = "idle"
    /\ ~stopping
    /\ quit' = TRUE
    /\ stopping' = TRUE
    /\ caller' = [caller EXCEPT ![t] = "wakeup"]
    /\ UNCHANGED <<pendingFunctors, functors, calling, efd, edge, io, active, pc,
                   ran, sent>>

\* The wakeup() that ends both.
Wakeup(t) ==
    /\ caller[t] = "wakeup"
    /\ Write
    /\ caller' = [caller EXCEPT ![t] = "idle"]
    /\ UNCHANGED <<pendingFunctors, functors, calling, quit, io, active, pc, ran,
                   sent, stopping>>

\* A peer sends something on another descriptor of this poller.
Arrive ==
    /\ io' = TRUE
    /\ UNCHANGED <<pendingFunctors, functors, calling, quit, efd, edge, active, pc,
                   caller, ran, sent, stopping>>

-------------------------------------------------------------------------------
(* The loop's thread: loop() itself.                                       *)

\* looping_ = true; quit_ = false: a quit() that came earlier is forgotten.
Begin ==
    /\ pc = "start"
    /\ quit' = FALSE
    /\ pc' = "check"
    /\ UNCHANGED <<pendingFunctors, functors, calling, efd, edge, io, active, caller,
                   ran, sent, stopping>>

\* Slip: the read of the plain bool hoisted out of the loop.
Check_Hoisted ==
    /\ pc = "check"
    /\ pc' = "poll"
    /\ UNCHANGED <<pendingFunctors, functors, calling, quit, efd, edge, io, active,
                   caller, ran, sent, stopping>>

Check ==
    /\ pc = "check"
    /\ pc' = IF quit THEN "exited" ELSE "poll"
    /\ UNCHANGED <<pendingFunctors, functors, calling, quit, efd, edge, io, active,
                   caller, ran, sent, stopping>>

\* What epoll_wait reports: an edge whose eventfd can still be read, and
\* events on other descriptors.  With nothing to report poll() does not return,
\* not even after its ten seconds.
Ready == {e \in Event : \/ e = "wakeup" /\ edge /\ efd > 0
                        \/ e = "io" /\ io}

Poll ==
    /\ pc = "poll"
    /\ Ready # {}
    /\ active' = Ready
    /\ edge' = FALSE
    /\ io' = FALSE
    /\ pc' = "events"
    /\ UNCHANGED <<pendingFunctors, functors, calling, quit, efd, caller, ran, sent,
                   stopping>>

\* handleRead of the wakeup channel: the read empties the counter.
HandleRead ==
    /\ pc = "events"
    /\ "wakeup" \in active
    /\ active' = active \ {"wakeup"}
    /\ efd' = 0
    /\ UNCHANGED <<pendingFunctors, functors, calling, quit, edge, io, pc, caller, ran,
                   sent, stopping>>

HandleEvents ==
    /\ pc = "events"
    /\ "io" \in active
    /\ active' = active \ {"io"}
    /\ pc' = "handler"
    /\ UNCHANGED <<pendingFunctors, functors, calling, quit, efd, edge, io, caller,
                   ran, sent, stopping>>

EventsDone ==
    /\ pc = "events"
    /\ active = {}
    /\ calling' = TRUE
    /\ pc' = "swap"
    /\ UNCHANGED <<pendingFunctors, functors, quit, efd, edge, io, active, caller, ran,
                   sent, stopping>>

\* Slip: the queue copied, not swapped.
Swap_Copies ==
    /\ pc = "swap"
    /\ functors' = pendingFunctors
    /\ pc' = "run"
    /\ UNCHANGED <<pendingFunctors, calling, quit, efd, edge, io, active, caller, ran,
                   sent, stopping>>

\* The locked swap of doPendingFunctors.
Swap ==
    /\ pc = "swap"
    /\ functors' = pendingFunctors
    /\ pendingFunctors' = <<>>
    /\ pc' = "run"
    /\ UNCHANGED <<calling, quit, efd, edge, io, active, caller, ran, sent, stopping>>

RunFunctor ==
    /\ pc = "run"
    /\ functors # <<>>
    /\ ran' = Append(ran, Head(functors))
    /\ functors' = Tail(functors)
    /\ pc' = "cb"
    /\ UNCHANGED <<pendingFunctors, calling, quit, efd, edge, io, active, caller, sent,
                   stopping>>

BatchDone ==
    /\ pc = "run"
    /\ functors = <<>>
    /\ calling' = FALSE
    /\ pc' = "expired"
    /\ UNCHANGED <<pendingFunctors, functors, quit, efd, edge, io, active, caller, ran,
                   sent, stopping>>

\* handleExpired closes connections; it queues nothing.
HandleExpired ==
    /\ pc = "expired"
    /\ pc' = "check"
    /\ UNCHANGED <<pendingFunctors, functors, calling, quit, efd, edge, io, active,
                   caller, ran, sent, stopping>>

-------------------------------------------------------------------------------
(* What a handler or a functor may call on its own loop.                   *)

InCallback == pc \in {"handler", "cb"}

Return ==
    /\ InCallback
    /\ pc' = IF pc = "handler" THEN "events" ELSE "run"
    /\ UNCHANGED <<pendingFunctors, functors, calling, quit, efd, edge, io, active,
                   caller, ran, sent, stopping>>

\* Slip: only other threads wake the loop up.
QueueFromLoop_NoWakeup(f) ==
    /\ InCallback
    /\ f \notin sent
    /\ pendingFunctors' = Append(pendingFunctors, f)
    /\ sent' = sent \cup {f}
    /\ UNCHANGED <<functors, calling, quit, efd, edge, io, active, pc, caller, ran,
                   stopping>>

\* queueInLoop by the loop's own thread: it only wakes itself up when the batch
\* being run was swapped out already.
QueueFromLoop(f) ==
    /\ InCallback
    /\ f \notin sent
    /\ pendingFunctors' = Append(pendingFunctors, f)
    /\ sent' = sent \cup {f}
    /\ pc' = IF calling THEN "cbwake" ELSE pc
    /\ UNCHANGED <<functors, calling, quit, efd, edge, io, active, caller, ran, stopping>>

WakeupSelf ==
    /\ pc = "cbwake"
    /\ Write
    /\ pc' = "cb"
    /\ UNCHANGED <<pendingFunctors, functors, calling, quit, io, active, caller, ran,
                   sent, stopping>>

\* runInLoop by the loop's own thread: the functor runs at once.
RunInLoop(f) ==
    /\ InCallback
    /\ f \notin sent
    /\ ran' = Append(ran, f)
    /\ sent' = sent \cup {f}
    /\ UNCHANGED <<pendingFunctors, functors, calling, quit, efd, edge, io, active, pc,
                   caller, stopping>>

\* quit() by the loop's own thread: no wakeup is needed.
QuitFromLoop ==
    /\ InCallback
    /\ ~stopping
    /\ quit' = TRUE
    /\ stopping' = TRUE
    /\ UNCHANGED <<pendingFunctors, functors, calling, efd, edge, io, active, pc,
                   caller, ran, sent>>

-------------------------------------------------------------------------------
\* The steps the loop's thread takes by itself ...
LoopStep == \/ Begin \/ Check \/ Poll \/ HandleRead \/ HandleEvents \/ EventsDone
            \/ Swap \/ RunFunctor \/ BatchDone \/ HandleExpired
            \/ Return \/ WakeupSelf

\* ... and the calls a callback may or may not make.
CallbackStep == \/ \E f \in Functor : QueueFromLoop(f) \/ RunInLoop(f)
                \/ QuitFromLoop

OtherStep == \/ \E t \in Thread : \/ \E f \in Functor : QueueInLoop(t, f)
                                  \/ Quit(t)
                                  \/ Wakeup(t)
             \/ Arrive

Next == LoopStep \/ CallbackStep \/ OtherStep

Spec == Init /\ [][Next]_vars

(***************************************************************************)
(* The operating system runs every thread that can run: the loop's thread  *)
(* goes on while it is not blocked in epoll_wait, callbacks return, and a  *)
(* thread that queued a functor gets to its wakeup().  Nobody has to queue *)
(* anything, and no descriptor has to become ready.                        *)
(***************************************************************************)
Fairness == WF_vars(LoopStep) /\ \A t \in Thread : WF_vars(Wakeup(t))

FairSpec == Spec /\ Fairness
-------------------------------------------------------------------------------
TypeOK ==
    /\ pendingFunctors \in Seq(Functor)
    /\ functors \in Seq(Functor)
    /\ calling \in BOOLEAN /\ quit \in BOOLEAN /\ edge \in BOOLEAN /\ io \in BOOLEAN
    /\ efd \in Nat
    /\ active \in SUBSET Event
    /\ pc \in Place
    /\ caller \in [Thread -> {"idle", "wakeup"}]
    /\ ran \in Seq(Functor)
    /\ sent \in SUBSET Functor
    /\ stopping \in BOOLEAN

\* epoll_wait will return because of the eventfd.
Signalled == edge /\ efd > 0

\* Another thread has still to write to the eventfd.
WakeupComing == \E t \in Thread : caller[t] = "wakeup"

(***************************************************************************)
(* No lost wakeup.  From a round's swap to the next return of epoll_wait,  *)
(* and before the first round, a functor that waits in pendingFunctors_ is *)
(* announced: the eventfd is readable with an unreported edge, or a write  *)
(* is on its way.                                                          *)
(* It is about the gap between the unlock and wakeup() in queueInLoop, the *)
(* edge-triggered registration, and the test of callingPendingFunctors_.   *)
(***************************************************************************)
BeforePoll == pc \in {"start", "run", "cb", "cbwake", "expired", "check", "poll"}

NoLostWakeup ==
    BeforePoll /\ pendingFunctors # <<>> =>
        Signalled \/ WakeupComing \/ pc = "cbwake"

(***************************************************************************)
(* The same for quit(): a loop that is about to block, or is blocked, with *)
(* quit_ set is going to be woken up.                                      *)
(***************************************************************************)
NoDeafQuit == pc = "poll" /\ quit => Signalled \/ WakeupComing

(***************************************************************************)
(* Functors run only out of their batch, and batches partition the queue:  *)
(* what was run, what is left of the batch and what is pending are, put    *)
(* together, the submitted functors, each one once.                        *)
(***************************************************************************)
ExactlyOnce ==
    LET all == ran \o functors \o pendingFunctors
    IN  Range(all) = sent /\ Len(all) = Cardinality(sent)

(***************************************************************************)
(* A loop that has begun and is told to quit() returns from loop(), even   *)
(* when no descriptor ever becomes ready again.  (Begin erases an earlier  *)
(* quit(), hence the condition on pc.)                                     *)
(***************************************************************************)
QuitReturns == quit /\ pc # "start" ~> pc = "exited"

(***************************************************************************)
(* The loop implements its contract, with the fairness above: functors run *)
(* in queue order, once, and all of them unless quit() is called.          *)
(***************************************************************************)
Contract == INSTANCE LoopContract WITH waiting <- functors \o pendingFunctors,
                                       done <- ran
ImplementsContract == Contract!Spec
===============================================================================
