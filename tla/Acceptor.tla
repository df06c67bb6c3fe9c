------------------------------- MODULE Acceptor --------------------------------
(***************************************************************************)
(* How version3.0 starts and accepts: the main thread starts the loops of  *)
(* the pool one by one (EventLoopThread, EventLoopThreadPool), registers   *)
(* the listener, edge-triggered, and at every event of it accepts until    *)
(* nothing is left (Server::handNewConn), dealing the connections to the   *)
(* loops in turn.                                                          *)
(*                                                                         *)
(* Abstractions.  Of a loop there is only the queue of newEvent functors   *)
(* and whether it runs: EventLoop shows that queued functors do run.  What *)
(* becomes of a connection that is served is in Connection; here it is     *)
(* closed some time.  Descriptors are numbered from the first one that     *)
(* accept can return.  A call of the system may fail when it likes.        *)
(* Nobody makes the main loop quit, so the end of the program is left out. *)
(*                                                                         *)
(* A definition A_x that follows the comment "Slip" is A with a plausible  *)
(* mistake; no specification uses it.                                      *)
(***************************************************************************)
EXTENDS Naturals, Sequences, FiniteSets, FiniteSetsExt, Functions

CONSTANTS Client,               \* peers; each connects once
          NumThreads,           \* numThreads_
          NumFds,               \* descriptors the process may have open
          MaxFds                \* MAXFDS: connections are below it

ASSUME SizesAssumption ==
    /\ NumThreads \in Nat \ {0}
    /\ NumFds \in Nat \ {0}
    /\ MaxFds \in Nat \ {0}

Thread == 0 .. NumThreads - 1
Fd == 1 .. NumFds

VARIABLES
    main,                       \* where the main thread is
    thread,                     \* an EventLoopThread: "none", "born" (loop_ is NULL),
                                \* "ready" (loop_ is set) or "looping"
    loops, next,                \* loops_ and next_ of the pool
    backlog, edge,              \* connections the kernel has for the listener, and
                                \* whether there is one that epoll has not reported
    events, last, armed,        \* events_, lastEvents_ (each EPOLLIN or 0) of the listener's
                                \* channel, and what the kernel has for it
    cut,                        \* accept failed in the last event of the listener
    at, fdOf, loopOf,           \* of a client: how far it came, its descriptor, its loop
    open,                       \* descriptors in use
    queue                       \* newEvent functors pending on each loop

pool == <<thread, loops, next>>
listener == <<backlog, edge, events, last, armed, cut>>
clients == <<at, fdOf, loopOf, open>>
vars == <<main, pool, listener, clients, queue>>

Init == /\ main = "start"
        /\ thread = [t \in Thread |-> "none"]
        /\ loops = <<>>
        /\ next = 0
        /\ backlog = <<>>
        /\ edge = FALSE
        /\ events = FALSE
        /\ last = FALSE
        /\ armed = FALSE
        /\ cut = FALSE
        /\ at = [c \in Client |-> "away"]
        /\ fdOf = [c \in Client |-> 0]
        /\ loopOf = [c \in Client |-> 0]
        /\ open = {}
        /\ queue = [t \in Thread |-> <<>>]

-----------------------------------------------------------------------------
(* EventLoopThread and EventLoopThreadPool.                                *)

Published(t) == thread[t] \in {"ready", "looping"}

StartThread ==
    /\ main = "start"
    /\ Len(loops) < NumThreads
    /\ thread' = [thread EXCEPT ![Len(loops)] = "born"]
    /\ main' = "test"
    /\ UNCHANGED <<loops, next, listener, clients, queue>>

\* Slip: startLoop does not look at loop_ before it returns it.
MayReturn_Always(t) == TRUE

\* while (loop_ == NULL) cond_.wait()
MayReturn(t) == Published(t)

Test ==
    /\ main = "test"
    /\ IF MayReturn(Len(loops))
         THEN main' = "start" /\ loops' = Append(loops, Len(loops))
         ELSE main' = "asleep" /\ UNCHANGED loops
    /\ UNCHANGED <<thread, next, listener, clients, queue>>

\* A condition variable may return without a signal.
Spurious ==
    /\ main = "asleep"
    /\ main' = "test"
    /\ UNCHANGED <<pool, listener, clients, queue>>

\* threadFunc: loop_ = &loop; cond_.signal()
Publish(t) ==
    /\ thread[t] = "born"
    /\ thread' = [thread EXCEPT ![t] = "ready"]
    /\ main' = IF main = "asleep" THEN "test" ELSE main
    /\ UNCHANGED <<loops, next, listener, clients, queue>>

BeginLoop(t) ==
    /\ thread[t] = "ready"
    /\ thread' = [thread EXCEPT ![t] = "looping"]
    /\ UNCHANGED <<main, loops, next, listener, clients, queue>>

\* The end of Server::start.
Listen ==
    /\ main = "start"
    /\ Len(loops) = NumThreads
    /\ main' = "poll"
    /\ events' = TRUE /\ last' = TRUE /\ armed' = TRUE
    /\ edge' = (backlog # <<>>)
    /\ UNCHANGED <<pool, backlog, cut, clients, queue>>

-----------------------------------------------------------------------------
(* Peers.                                                                  *)

Connect(c) ==
    /\ at[c] = "away"
    /\ at' = [at EXCEPT ![c] = "backlog"]
    /\ backlog' = Append(backlog, c)
    /\ edge' = (edge \/ armed)
    /\ UNCHANGED <<main, pool, events, last, armed, cut, fdOf, loopOf, open, queue>>

-----------------------------------------------------------------------------
(* Server::handNewConn, called by the channel of the listener.             *)

\* poll, and Channel::handleEvents, which clears events_ first.
Poll ==
    /\ main = "poll"
    /\ edge
    /\ edge' = FALSE
    /\ events' = FALSE
    /\ cut' = FALSE
    /\ main' = "accept"
    /\ UNCHANGED <<pool, backlog, last, armed, clients, queue>>

Free == Fd \ open

\* accept returns the lowest number that is free.
Accepting(c, fd) ==
    /\ main = "accept"
    /\ backlog # <<>> /\ c = Head(backlog)
    /\ Free # {} /\ fd = Min(Free)
    /\ backlog' = Tail(backlog)

\* Slip: the round stops before the last loop.
NextLoop_Short == IF next + 1 < NumThreads - 1 THEN next + 1 ELSE 0

\* Slip: next_ never comes back to the first loop.
NextLoop_NoWrap == next + 1

\* The pool's getNextLoop.
NextLoop == (next + 1) % NumThreads


TooMany(fd) == fd >= MaxFds

\* Slip: the functor is only queued behind others.
Submit_Behind(q, c) == IF q = <<>> THEN q ELSE Append(q, c)

\* loop->queueInLoop of newEvent.
Submit(q, c) == Append(q, c)

\* Slip: a descriptor that is refused is not closed.
OpenAfterRefusal_Kept(fd) == open \cup {fd}

OpenAfterRefusal(fd) == open

\* The connection has a loop and a descriptor; its newEvent is queued.
HandOver(c, fd) ==
    /\ Accepting(c, fd)
    /\ ~TooMany(fd)
    /\ next' = NextLoop
    /\ at' = [at EXCEPT ![c] = "queued"]
    /\ fdOf' = [fdOf EXCEPT ![c] = fd]
    /\ loopOf' = [loopOf EXCEPT ![c] = loops[next + 1]]
    /\ open' = open \cup {fd}
    /\ queue' = [queue EXCEPT ![loops[next + 1]] = Submit(@, c)]
    /\ UNCHANGED <<main, thread, loops, edge, events, last, armed, cut>>

\* accept_fd >= MAXFDS: closed again, after the round has moved on.
Refuse(c, fd) ==
    /\ Accepting(c, fd)
    /\ TooMany(fd)
    /\ next' = NextLoop
    /\ at' = [at EXCEPT ![c] = "refused"]
    /\ open' = OpenAfterRefusal(fd)
    /\ UNCHANGED <<main, thread, loops, edge, events, last, armed, cut, fdOf, loopOf,
                   queue>>

\* setSocketNonBlocking fails: handNewConn returns, the descriptor stays open, and
\* events_ is still 0.
NonBlockFails(c, fd) ==
    /\ Accepting(c, fd)
    /\ ~TooMany(fd)
    /\ next' = NextLoop
    /\ at' = [at EXCEPT ![c] = "leaked"]
    /\ fdOf' = [fdOf EXCEPT ![c] = fd]
    /\ open' = open \cup {fd}
    /\ main' = "conn"
    /\ UNCHANGED <<thread, loops, edge, events, last, armed, cut, loopOf, queue>>

\* Slip: one connection is accepted for each event.
Drained_Once ==
    /\ main = "accept"
    /\ events' = TRUE
    /\ main' = "conn"
    /\ UNCHANGED <<pool, backlog, edge, last, armed, cut, clients, queue>>

\* The loop over accept ends: nothing is left.
Drained ==
    /\ main = "accept"
    /\ backlog = <<>>
    /\ events' = TRUE
    /\ main' = "conn"
    /\ UNCHANGED <<pool, backlog, edge, last, armed, cut, clients, queue>>

\* accept fails for want of descriptors or memory, and leaves the backlog as it is.
AcceptFails ==
    /\ main = "accept"
    /\ backlog # <<>>
    /\ events' = TRUE
    /\ cut' = TRUE
    /\ main' = "conn"
    /\ UNCHANGED <<pool, backlog, edge, last, armed, clients, queue>>

\* handThisConn: EpollPoller::modfd, which only calls epoll_ctl when events_ has changed.
HandThisConn ==
    /\ main = "conn"
    /\ main' = "poll"
    /\ last' = events
    /\ armed' = IF last = events THEN armed ELSE events
    /\ edge' = IF last = events THEN edge ELSE events /\ backlog # <<>>
    /\ UNCHANGED <<pool, backlog, events, cut, clients, queue>>

-----------------------------------------------------------------------------
(* The loops of the pool.                                                  *)

NewEvent(t) ==
    /\ thread[t] = "looping"
    /\ queue[t] # <<>>
    /\ at' = [at EXCEPT ![Head(queue[t])] = "served"]
    /\ queue' = [queue EXCEPT ![t] = Tail(@)]
    /\ UNCHANGED <<main, pool, listener, fdOf, loopOf, open>>

CloseConn(c) ==
    /\ at[c] = "served"
    /\ at' = [at EXCEPT ![c] = "closed"]
    /\ open' = open \ {fdOf[c]}
    /\ UNCHANGED <<main, pool, listener, fdOf, loopOf, queue>>

-----------------------------------------------------------------------------
Accept(c) == \E fd \in Fd : HandOver(c, fd) \/ Refuse(c, fd) \/ NonBlockFails(c, fd)

HandNewConn == \/ Drained
               \/ AcceptFails
               \/ \E c \in Client : Accept(c)

MainStep == StartThread \/ Test \/ Listen \/ Poll \/ HandNewConn \/ HandThisConn
ThreadStep(t) == Publish(t) \/ BeginLoop(t) \/ NewEvent(t)

Next == \/ MainStep
        \/ Spurious
        \/ \E t \in Thread : ThreadStep(t)
        \/ \E c \in Client : Connect(c) \/ CloseConn(c)

Spec == Init /\ [][Next]_vars

\* Threads are scheduled.  Peers, failures and spurious returns need not happen.
FairSpec == Spec /\ WF_vars(MainStep) /\ \A t \in Thread : WF_vars(ThreadStep(t))

-----------------------------------------------------------------------------
(* Properties.                                                             *)

TypeOK ==
    /\ main \in {"start", "test", "asleep", "poll", "accept", "conn"}
    /\ thread \in [Thread -> {"none", "born", "ready", "looping"}]
    /\ loops \in Seq(Thread) /\ Len(loops) <= NumThreads
    /\ next \in Thread
    /\ backlog \in Seq(Client)
    /\ {edge, events, last, armed, cut} \subseteq BOOLEAN
    /\ at \in [Client -> {"away", "backlog", "queued", "served", "refused", "leaked",
                          "closed"}]
    /\ fdOf \in [Client -> Fd \cup {0}]
    /\ loopOf \in [Client -> Thread]
    /\ open \subseteq Fd
    /\ queue \in [Thread -> Seq(Client)]

(***************************************************************************)
(* No thread uses a loop before it is made: startLoop only returns a loop  *)
(* that its thread has published, whatever wakes it up, and connections    *)
(* are only dealt out when all the loops are there, so that getNextLoop    *)
(* stays within loops_.                                                    *)
(***************************************************************************)
LoopsPublished ==
    /\ \A i \in 1 .. Len(loops) : Published(loops[i])
    /\ main \in {"poll", "accept", "conn"} => Len(loops) = NumThreads

Leaked == {c \in Client : at[c] = "leaked"}

(***************************************************************************)
(* The listener is never deaf: when the main loop polls, the listener is   *)
(* registered for input, and if connections wait, epoll has an event of it *)
(* to report.  Only a failed call may break this: accept ending the drain  *)
(* of the edge-triggered listener early, or a descriptor that could not be *)
(* made non-blocking, after which events_ stays 0.                         *)
(***************************************************************************)
ListenerHears ==
    main = "poll" /\ Leaked = {} =>
        armed /\ (backlog # <<>> => edge \/ cut)

(***************************************************************************)
(* The descriptors in use are those of the connections that are queued,    *)
(* served or leaked, each its own and below MAXFDS: handNewConn leaks none *)
(* on its other ways out.                                                  *)
(***************************************************************************)
Holding == {c \in Client : at[c] \in {"queued", "served", "leaked"}}

DescriptorsAccounted ==
    /\ open = {fdOf[c] : c \in Holding}
    /\ Cardinality(open) = Cardinality(Holding)
    /\ \A fd \in open : fd < MaxFds

(***************************************************************************)
(* As long as nobody is turned away, the numbers of connections that the   *)
(* loops were given differ by one at most (next_ goes round all of them).  *)
(***************************************************************************)
Given(t) == {c \in Client : at[c] \in {"queued", "served", "closed"} /\ loopOf[c] = t}

Balanced ==
    (\A c \in Client : at[c] \notin {"refused", "leaked"}) =>
        \A t, u \in Thread : Cardinality(Given(t)) <= Cardinality(Given(u)) + 1

(***************************************************************************)
(* Every peer that connects comes to be served by a loop, or is turned     *)
(* away, unless some call fails: also a peer that comes while the loops    *)
(* are started, while others are accepted, or before its loop runs.        *)
(***************************************************************************)
EveryPeerAnswered ==
    \A c \in Client :
        at[c] = "backlog" ~> at[c] \in {"served", "closed", "refused"} \/ cut \/ Leaked # {}
===============================================================================
