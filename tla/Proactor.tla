------------------------------- MODULE Proactor --------------------------------
(***************************************************************************)
(* The server of version2.0: the main thread reads and writes all sockets  *)
(* (server.cpp), the threads of the pool parse requests and prepare the    *)
(* answers (threadpool.h, http_conn.cpp), and what keeps them apart is     *)
(* that the registration of a connection is one-shot.  Signals come as     *)
(* bytes through a pipe, and each connection has a timer in TimerList.     *)
(*                                                                         *)
(* Abstractions.  What a client sends comes in pieces, "part" or "end",    *)
(* where an end completes a request; what it asks for is left to chance.   *)
(* An answer takes two writes when the client is slow.  The log, which the *)
(* program keeps synchronously, is left out.  The tables users and         *)
(* users_timer are full of zeros at first, as the pages of a large new[]   *)
(* are; descriptor 0 is the standard input and no socket.  Time does not   *)
(* go back, and there are descriptors for all who connect.                 *)
(*                                                                         *)
(* A definition A_x that follows the comment "Slip" is A with a plausible  *)
(* mistake; no specification uses it.                                      *)
(***************************************************************************)
EXTENDS TimerList, Integers, Sequences, FiniteSets, FiniteSetsExt, Functions

CONSTANTS NumFds,               \* the highest descriptor for a connection
          Worker,               \* the threads of the pool
          MaxUsers,             \* MAX_FD, the limit on connections
          MaxRequests,          \* m_max_requests of the pool
          Signal,               \* the signals that come, among "ALRM" and "TERM"
          MaxPieces,            \* bound: pieces that one client sends
          MaxTime               \* bound: the clock, in time slots

ASSUME SizesAssumption ==
    /\ {NumFds, MaxUsers} \subseteq Nat \ {0}
    /\ {NumTimers, MaxRequests, MaxPieces, MaxTime} \subseteq Nat
    /\ MaxUsers <= NumFds

Stdin == 0
Fd == 0 .. NumFds
Pipe == NumFds + 1              \* pipefd[0]
Listener == NumFds + 2          \* listenfd
Lasts == 1                      \* 3 * TIMESLOT, in the clock's unit

VARIABLES
    main, batch,                \* the main thread: in epoll_wait or with events
    stop_server, timeout,
    open,                       \* descriptors of the process in Fd
    reg,                        \* what epoll waits for: "in", "out", "off" (reported), "none"
    net,                        \* of a socket: unread pieces, fin, and how many it sent
    arrivals, waiting, bell,    \* connections made, those in the listener's backlog, and an
                                \* unreported edge of it
    pipe, pipeBell,             \* signals in the pipe, an unreported edge of it
    sockfd, user_count,         \* m_sockfd of users[], m_user_count
    http,                       \* the rest of an http_conn
    queue, sem, worker,         \* m_workqueue, m_queuestat, the request of each thread
    refused,                    \* requests that append did not take
    timers, timerOf, now        \* timer_lst, timer of users_timer[], the clock

kernel == <<open, reg, net, waiting, bell>>
signals == <<pipe, pipeBell, stop_server, timeout>>
users == <<sockfd, user_count, http>>
pool == <<queue, sem, worker, refused>>
clock == <<timers, timerOf, now>>
vars == <<main, batch, arrivals, kernel, signals, users, pool, clock>>

Idle == -1

NewNet == [in |-> <<>>, fin |-> FALSE, sent |-> 0]

\* http_conn::init: rest is what was read and not parsed, left bytes_to_send;
\* stuck when do_request has found no file for a whole request.
NewHttp == [rest |-> <<>>, left |-> 0, linger |-> FALSE, stuck |-> FALSE]

Init == /\ main = "poll" /\ batch = {}
        /\ stop_server = FALSE /\ timeout = FALSE
        /\ open = {Stdin}
        /\ reg = [f \in Fd |-> "none"]
        /\ net = [f \in Fd |-> NewNet]
        /\ arrivals = 0 /\ waiting = 0 /\ bell = FALSE
        /\ pipe = {} /\ pipeBell = FALSE
        /\ sockfd = [f \in Fd \cup {Pipe} |-> 0]
        /\ user_count = 0
        /\ http = [f \in Fd |-> NewHttp]
        /\ queue = <<>> /\ sem = 0
        /\ worker = [w \in Worker |-> Idle]
        /\ refused = {}
        /\ timers = NoTimers
        /\ timerOf = [f \in Fd \cup {Pipe} |-> NULL]
        /\ now = 0

-----------------------------------------------------------------------------
(* Clients, signals, and the clock.                                        *)

Client == {f \in Fd : reg[f] # "none"}          \* sockets that are open

Connect ==
    /\ arrivals < NumTimers
    /\ arrivals' = arrivals + 1
    /\ waiting' = waiting + 1
    /\ bell' = TRUE
    /\ UNCHANGED <<main, batch, open, reg, net, signals, users, pool, clock>>

PeerStep(f, new) ==
    /\ f \in Client
    /\ net' = [net EXCEPT ![f] = new]
    /\ UNCHANGED <<main, batch, arrivals, open, reg, waiting, bell, signals, users, pool,
                   clock>>

Send(f) ==
    /\ ~net[f].fin /\ net[f].sent < MaxPieces
    /\ \E p \in {"part", "end"} :
          PeerStep(f, [net[f] EXCEPT !.in = Append(@, p), !.sent = @ + 1])

Shut(f) == ~net[f].fin /\ PeerStep(f, [net[f] EXCEPT !.fin = TRUE])

\* sig_handler.  There is one alarm, of set_events, and one request to stop.
Raise(s) ==
    /\ s \notin pipe
    /\ pipe' = pipe \cup {s}
    /\ pipeBell' = TRUE
    /\ UNCHANGED <<main, batch, arrivals, kernel, stop_server, timeout, users, pool, clock>>

TimePasses ==
    /\ now < MaxTime
    /\ now' = now + 1
    /\ UNCHANGED <<main, batch, arrivals, kernel, signals, users, pool, timers, timerOf>>

-----------------------------------------------------------------------------
(* epoll_wait.  Every registration has EPOLLRDHUP.                         *)

Event(f) ==
    [fd |-> f, hup |-> net[f].fin,
     in |-> reg[f] = "in" /\ (net[f].in # <<>> \/ net[f].fin),
     out |-> reg[f] = "out"]

Special(f) == [fd |-> f, hup |-> FALSE, in |-> TRUE, out |-> FALSE]

\* What must be reported now, and what may be when the client has read enough.
Due == {f \in Fd : \/ reg[f] = "in" /\ (net[f].in # <<>> \/ net[f].fin)
                   \/ reg[f] = "out" /\ net[f].fin}
Writable == {f \in Fd : reg[f] = "out"}

Rung == {f \in {Listener, Pipe} : IF f = Pipe THEN pipeBell ELSE bell}

Reports(fs) == {Event(f) : f \in fs} \cup {Special(f) : f \in Rung}

\* Slip: modfd forgets EPOLLONESHOT.
AfterReport_Armed(f) == reg[f]

AfterReport(f) == "off"

Poll ==
    /\ main = "poll" /\ ~stop_server
    /\ main' = "events"
    /\ \E room \in SUBSET Writable :
          /\ Due \cup room \cup Rung # {}
          /\ batch' = Reports(Due \cup room)
          /\ reg' = [f \in Fd |-> IF f \in Due \cup room THEN AfterReport(f) ELSE reg[f]]
    /\ bell' = FALSE /\ pipeBell' = FALSE
    /\ UNCHANGED <<arrivals, open, net, waiting, pipe, stop_server, timeout, users, pool,
                   clock>>

\* The order of the tests in Server::start.
Branch(e) == IF e.fd = Listener THEN "listen"
             ELSE IF e.hup THEN "close"
             ELSE IF e.in THEN "read"
             ELSE IF e.out THEN "write"
             ELSE IF e.fd = Pipe /\ e.in THEN "signal"
             ELSE "none"

Handling(e, b) ==
    /\ main = "events"
    /\ e \in batch
    /\ Branch(e) = b
    /\ batch' = batch \ {e}

-----------------------------------------------------------------------------
(* Server::deal_listen_event: one accept for each event.                   *)

\* add_client, and http_conn::init.
AddClient(e, f) ==
    /\ Handling(e, "listen")
    /\ user_count < MaxUsers
    /\ f \in Fd \ open /\ \A g \in Fd \ open : f <= g
    /\ waiting' = waiting - 1
    /\ open' = open \cup {f}
    /\ reg' = [reg EXCEPT ![f] = "in"]
    /\ net' = [net EXCEPT ![f] = NewNet]
    /\ sockfd' = [sockfd EXCEPT ![f] = f]
    /\ user_count' = user_count + 1
    /\ http' = [http EXCEPT ![f] = NewHttp]
    /\ LET t == arrivals - waiting + 1
       IN  /\ timers' = add_timer([timers EXCEPT !.expire[t] = now + Lasts], t)
           /\ timerOf' = [timerOf EXCEPT ![f] = t]
    /\ UNCHANGED <<main, arrivals, bell, signals, pool, now>>

Busy(e) ==
    /\ Handling(e, "listen")
    /\ user_count >= MaxUsers
    /\ waiting' = waiting - 1
    /\ UNCHANGED <<main, arrivals, open, reg, net, bell, signals, users, pool, clock>>

-----------------------------------------------------------------------------
(* Events of connections.                                                  *)

\* http_conn::close_conn of users[i]: it closes its m_sockfd, and close takes a descriptor
\* out of epoll (removefd does not).  init will clear the http_conn for the next connection;
\* it is cleared here already.
Closes(i) ==
    IF sockfd[i] = -1 THEN UNCHANGED <<open, reg, net, users>>
    ELSE /\ open' = open \ {sockfd[i]}
         /\ reg' = [reg EXCEPT ![sockfd[i]] = "none"]
         /\ sockfd' = [sockfd EXCEPT ![i] = -1]
         /\ user_count' = user_count - 1
         /\ net' = [net EXCEPT ![sockfd[i]] = NewNet]
         /\ http' = [http EXCEPT ![sockfd[i]] = NewHttp]

\* The timer stays in the list.
CloseConn(e) ==
    /\ Handling(e, "close")
    /\ Closes(e.fd)
    /\ UNCHANGED <<main, arrivals, waiting, bell, signals, pool, clock>>

\* deal_read_event and deal_write_event end in one of these.
Adjust(i) ==
    /\ timers' = adjust_timer([timers EXCEPT !.expire[timerOf[i]] = now + Lasts], timerOf[i])
    /\ UNCHANGED <<timerOf, now>>

Drop(i) ==
    /\ Closes(i)
    /\ timers' = IF timerOf[i] = NULL THEN timers ELSE del_timer(timers, timerOf[i])
    /\ UNCHANGED <<timerOf, now>>

\* Slip: the queue has no limit.
Full_Never == FALSE

\* The test of threadpool::append.
Full == Len(queue) > MaxRequests

\* http_conn::read empties the socket.
DealRead(e) ==
    /\ Handling(e, "read")
    /\ e.fd # Pipe /\ ~net[e.fd].fin
    /\ http' = [http EXCEPT ![e.fd].rest = @ \o net[e.fd].in]
    /\ net' = [net EXCEPT ![e.fd].in = <<>>]
    /\ IF Full
         THEN refused' = refused \cup {e.fd} /\ UNCHANGED <<queue, sem>>
         ELSE queue' = Append(queue, e.fd) /\ sem' = sem + 1 /\ UNCHANGED refused
    /\ Adjust(e.fd)
    /\ UNCHANGED <<main, arrivals, open, reg, waiting, bell, signals, sockfd, user_count,
                   worker>>

\* recv fails, or it says 0: the client has shut down, or the buffer is full.
DealReadFails(e) ==
    /\ Handling(e, "read")
    /\ e.fd # Pipe
    /\ Drop(e.fd)
    /\ UNCHANGED <<main, arrivals, waiting, bell, signals, pool>>

\* http_conn::write: writev until nothing is left, or until it would block.
Fits(f) == Min({1, http[f].left})

DealWrite(e) ==
    /\ Handling(e, "write")
    /\ LET f == e.fd
           left == http[f].left - Fits(f)
       IN  /\ left > 0 \/ http[f].linger
           /\ http' = [http EXCEPT ![f] = IF left > 0 THEN [@ EXCEPT !.left = left]
                                                      ELSE NewHttp]
           /\ reg' = [reg EXCEPT ![f] = IF left > 0 THEN "out" ELSE "in"]
           /\ Adjust(f)
    /\ UNCHANGED <<main, arrivals, open, net, waiting, bell, signals, sockfd, user_count,
                   pool>>

\* All is sent and the connection is not kept, or writev fails.
DealWriteEnds(e) ==
    /\ Handling(e, "write")
    /\ \/ http[e.fd].left <= Fits(e.fd) /\ ~http[e.fd].linger
       \/ net[e.fd].fin
    /\ Drop(e.fd)
    /\ UNCHANGED <<main, arrivals, waiting, bell, signals, pool>>

\* The pipe's end is read like a connection, that of users[pipefd[0]], whose descriptor is
\* 0, no socket, or -1, so that read fails and it is closed; unless the test for
\* signals comes first: then deal_sig_event.
HandlePipe(e) ==
    /\ Handling(e, Branch(e))
    /\ e.fd = Pipe
    /\ IF Branch(e) = "signal"
         THEN /\ pipe' = {}
              /\ timeout' = (timeout \/ "ALRM" \in pipe)
              /\ stop_server' = (stop_server \/ "TERM" \in pipe)
              /\ UNCHANGED <<open, reg, net, users>>
         ELSE Closes(Pipe) /\ UNCHANGED <<pipe, timeout, stop_server>>
    /\ UNCHANGED <<main, arrivals, waiting, bell, pipeBell, pool, clock>>

\* timer_handler is left out: HandlePipe never sets timeout.
EventsDone ==
    /\ main = "events"
    /\ batch = {}
    /\ main' = "poll"
    /\ UNCHANGED <<batch, arrivals, kernel, signals, users, pool, clock>>

-----------------------------------------------------------------------------
(* The threads of the pool: threadpool::run and http_conn::process.        *)

Take(w) ==
    /\ worker[w] = Idle
    /\ sem > 0
    /\ sem' = sem - 1
    /\ queue' = Tail(queue)
    /\ worker' = [worker EXCEPT ![w] = Head(queue)]
    /\ UNCHANGED <<main, batch, arrivals, kernel, signals, users, refused, clock>>

Ends(f) == {i \in 1 .. Len(http[f].rest) : http[f].rest[i] = "end"}
AfterEnd(f) == SubSeq(http[f].rest, Min(Ends(f)) + 1, Len(http[f].rest))

\* Slip: an incomplete request is not waited for again.
Wanted_OnlyOut(want) == IF want = "in" THEN "off" ELSE want

Wanted(want) == want

\* process, with new for the http_conn; modfd is the last thing it does.
Process(w, f, new, want) ==
    /\ worker[w] = f
    /\ worker' = [worker EXCEPT ![w] = Idle]
    /\ http' = [http EXCEPT ![f] = new]
    /\ reg' = [reg EXCEPT ![f] = IF @ = "none" THEN @ ELSE Wanted(want)]
    /\ UNCHANGED <<main, batch, arrivals, open, net, waiting, bell, signals, sockfd,
                   user_count, queue, sem, refused, clock>>

\* process_read: no request is complete.
Incomplete(w, f) ==
    /\ Ends(f) = {}
    /\ Process(w, f, [http[f] EXCEPT !.rest = <<>>], "in")

\* A file, or an error answer for something that is not one.
Complete(w, f) ==
    /\ Ends(f) # {}
    /\ \E keep \in BOOLEAN :
          Process(w, f, [http[f] EXCEPT !.rest = AfterEnd(f), !.left = 2, !.linger = keep],
                  "out")

\* A bad first line is answered before the request ends.  One without a blank is
\* left out: it ends the process, by a write through what strpbrk returns (NULL).
BadRequest(w, f) ==
    /\ ~http[f].stuck
    /\ Process(w, f, [http[f] EXCEPT !.rest = <<>>, !.left = 2], "out")

\* do_request finds no file and says NO_REQUEST; so may parse_content, whose result is
\* undefined.
NoFile(w, f) ==
    /\ Ends(f) # {}
    /\ Process(w, f, [http[f] EXCEPT !.rest = AfterEnd(f), !.stuck = TRUE], "in")

-----------------------------------------------------------------------------
DealListen(e) == Busy(e) \/ \E f \in Fd : AddClient(e, f)

HandleEvent(e) == \/ DealListen(e)
                  \/ CloseConn(e)
                  \/ DealRead(e)
                  \/ DealReadFails(e)
                  \/ DealWrite(e)
                  \/ DealWriteEnds(e)
                  \/ HandlePipe(e)

MainStep == Poll \/ EventsDone \/ \E e \in batch : HandleEvent(e)

ProcessAny(w, f) == \/ Incomplete(w, f)
                    \/ Complete(w, f)
                    \/ BadRequest(w, f)
                    \/ NoFile(w, f)

WorkerStep(w) == Take(w) \/ \E f \in Fd : ProcessAny(w, f)

Environment == \/ Connect
               \/ TimePasses
               \/ \E f \in Fd : Send(f) \/ Shut(f)
               \/ \E s \in Signal : Raise(s)

Next == MainStep \/ Environment \/ \E w \in Worker : WorkerStep(w)

Spec == Init /\ [][Next]_vars

\* The threads are scheduled; clients and signals do as they like.
FairSpec == Spec /\ WF_vars(MainStep) /\ \A w \in Worker : WF_vars(WorkerStep(w))

-----------------------------------------------------------------------------
(* Properties.                                                             *)

TypeOK ==
    /\ main \in {"poll", "events"}
    /\ batch \in SUBSET [fd : Fd \cup {Pipe, Listener}, hup : BOOLEAN, in : BOOLEAN,
                         out : BOOLEAN]
    /\ {stop_server, timeout, bell, pipeBell} \subseteq BOOLEAN
    /\ open \subseteq Fd
    /\ reg \in [Fd -> {"in", "out", "off", "none"}]
    /\ \A f \in Fd : /\ net[f].in \in Seq({"part", "end"})
                     /\ http[f].rest \in Seq({"part", "end"})
                     /\ http[f].left \in 0 .. 2
    /\ waiting \in 0 .. arrivals
    /\ pipe \subseteq Signal
    /\ sockfd \in [Fd \cup {Pipe} -> Fd \cup {-1}]
    /\ user_count \in -1 .. MaxUsers
    /\ queue \in Seq(Fd) /\ Len(queue) <= MaxRequests + 1
    /\ sem = Len(queue)
    /\ worker \in [Worker -> Fd \cup {Idle}]
    /\ timerOf \in [Fd \cup {Pipe} -> Timer \cup {NULL}]
    /\ now \in 0 .. MaxTime

(***************************************************************************)
(* One at a time: a connection is either waited for by epoll, or in the    *)
(* events of the main thread, or queued once, or with one thread of the    *)
(* pool; never in two places, where two threads would use its buffers      *)
(* together, and never nowhere, where it would be forgotten, unless the    *)
(* pool refused it (server.cpp:160 does not look at what append returns).  *)
(* A closed one is nowhere.  http/README.md and the one-shot registration. *)
(***************************************************************************)
Places(f) ==
    Cardinality({e \in batch : e.fd = f})
        + Cardinality({i \in DOMAIN queue : queue[i] = f})
        + Cardinality({w \in Worker : worker[w] = f})
        + (IF reg[f] \in {"in", "out"} THEN 1 ELSE 0)

OneAtATime ==
    \A f \in Fd : Places(f) = IF f \in Client \ refused THEN 1 ELSE 0

(***************************************************************************)
(* The timers stay an ascending, doubly linked list without deleted nodes, *)
(* whatever connections come, are heard of, and go: also those that go on  *)
(* a hang-up and leave their timer behind, and those that take over their  *)
(* descriptor.                                                             *)
(***************************************************************************)
TimersSound == Sound(timers)

(***************************************************************************)
(* Every open connection has a timer of its own in the list: none was lost *)
(* when another one was moved or removed, or when a descriptor got a new   *)
(* connection.                                                             *)
(***************************************************************************)
EveryoneTimed ==
    /\ \A f \in Client : timerOf[f] \in Linked(timers)
    /\ \A f, g \in Client : timerOf[f] = timerOf[g] => f = g

(***************************************************************************)
(* A signal that is in the pipe is handled: server.cpp:103 calls the last  *)
(* branch of the loop over the events the one for signals.                 *)
(***************************************************************************)
SignalsHandled == "TERM" \in pipe ~> stop_server
===============================================================================
