------------------------------ MODULE Connection -------------------------------
(***************************************************************************)
(* The life of connections in version3.0, from accept in the main thread   *)
(* (Server.cpp) to close in the destructor of HttpData, over the loops of  *)
(* the pool: each has a poller with its tables fd2chan_ and fd2http_ and   *)
(* its timers.  An HttpData lives as long as a shared_ptr refers to it:    *)
(* req_info, a local variable of the main thread, until handNewConn has    *)
(* queued its newEvent; a queued newEvent; fd2http_; or a timer node.  Its *)
(* destructor, which runs in the thread that has let go of it last, closes *)
(* the descriptor, which accept may then give to a new connection on       *)
(* another loop.                                                           *)
(*                                                                         *)
(* Abstractions.  What a request says is left to chance: parsing what was  *)
(* read asks for more, fails, or succeeds; and the page that handleError   *)
(* sends is left out.  How long a timeout is does not matter, only whether *)
(* it has passed.  Deleted timer nodes are left out: they refer to         *)
(* nothing.  epoll may refuse to add a descriptor, not to modify one.  A   *)
(* functor and the wakeup that announces it are one step: EventLoop shows  *)
(* that none is missed.  A peer interferes between any two steps of a      *)
(* loop, and a handler is several steps: reading and parsing, writing, and *)
(* handleConn.                                                             *)
(*                                                                         *)
(* A definition A_x that follows the comment "Slip" is A with a plausible  *)
(* mistake; no specification uses it.  Putting it in A's place shows that  *)
(* a property notices the mistake.                                         *)
(***************************************************************************)
EXTENDS Naturals, Sequences, FiniteSets, Functions

CONSTANTS Conn,                 \* connections, each made once by its peer
          NumLoops,             \* numThreads_, the loops of the pool
          NumFds,               \* descriptors that accept may return
          None

ASSUME SizesAssumption == NumLoops \in Nat \ {0} /\ NumFds \in Nat \ {0}
ASSUME NoneAssumption == None \notin Conn

Loop == 0 .. NumLoops - 1
Fd == 1 .. NumFds

VARIABLES
    life,                       \* of the HttpData: "fresh", "open", "disconnected" (handleClose
                                \* has set its connectionState_ to H_DISCONNECTED) or "closed"
    fdOf, loopOf,               \* its fd_ and its loop_
    http,                       \* st (connectionState_ until then), error (error_), out (outBuffer_
                                \* is not empty), events and last (of its channel)
    timer,                      \* live: nodes that refer to it; linked: timer_ refers to
                                \* one of them; due: its time has come
    sock,                       \* the socket: rx (unread data), fin (the peer has shut its
                                \* side down), rst, room (what is written fits)
    ep,                         \* its entry in the kernel's epoll: in, mask, edge
    fd2chan, fd2http,           \* the tables of each loop's poller
    queue, batch,               \* the newEvent functors pending on each loop, and those it
                                \* is running
    bell,                       \* its eventfd has something to report
    next,                       \* next_, the pool's round robin
    reqInfo,                    \* req_info, while handNewConn has one
    pc,                         \* where each loop is
    active,                     \* events of the round: pairs of connection and revents
    cur                         \* the connection being handled, its revents and the phase

tables == <<fd2chan, fd2http>>
main == <<next, reqInfo>>
loops == <<queue, batch, bell, pc, active, cur>>
vars == <<life, fdOf, loopOf, http, timer, sock, ep, tables, main, loops>>

Flags == {"IN", "OUT", "ONESHOT"}               \* EPOLLET is always there
Revents == {"IN", "OUT", "ERR", "HUP"}

NoCur == [c |-> None, rev |-> {}, phase |-> "none"]
NoTimer == [live |-> 0, linked |-> FALSE, due |-> FALSE]
NoEntry == [in |-> FALSE, mask |-> {}, edge |-> FALSE]
NewHttp == [st |-> "CONNECTED", error |-> FALSE, out |-> FALSE, events |-> {}, last |-> {}]
NewSock == [rx |-> FALSE, fin |-> FALSE, rst |-> FALSE, room |-> TRUE]

Init == /\ life = [c \in Conn |-> "fresh"]
        /\ fdOf = [c \in Conn |-> 0]
        /\ loopOf = [c \in Conn |-> 0]
        /\ http = [c \in Conn |-> NewHttp]
        /\ timer = [c \in Conn |-> NoTimer]
        /\ sock = [c \in Conn |-> NewSock]
        /\ ep = [c \in Conn |-> NoEntry]
        /\ fd2chan = [l \in Loop |-> [f \in Fd |-> None]]
        /\ fd2http = [l \in Loop |-> [f \in Fd |-> None]]
        /\ queue = [l \in Loop |-> <<>>]
        /\ batch = [l \in Loop |-> <<>>]
        /\ bell = [l \in Loop |-> FALSE]
        /\ next = 0
        /\ reqInfo = None
        /\ pc = [l \in Loop |-> "poll"]
        /\ active = [l \in Loop |-> {}]
        /\ cur = [l \in Loop |-> NoCur]

-------------------------------------------------------------------------------
(* The kernel.                                                             *)

\* The HttpData of a connection exists, and its descriptor is open.
Alive(c) == life[c] \in {"open", "disconnected"}

\* What epoll can report of a connection under its mask.  A disarmed one-shot
\* entry reports nothing, not even an error.
ReadyFor(s, mask) ==
    IF mask = {} THEN {}
    ELSE {e \in Revents : \/ e = "IN"  /\ "IN" \in mask /\ (s.rx \/ s.fin \/ s.rst)
                          \/ e = "OUT" /\ "OUT" \in mask /\ (s.room \/ s.rst)
                          \/ e \in {"ERR", "HUP"} /\ s.rst}

\* A change of the socket puts it on the ready list if its mask covers it.
Notice(c, s) == [ep EXCEPT ![c].edge = @ \/ (ep[c].in /\ ReadyFor(s, ep[c].mask) # {})]

Reportable(c) == ep[c].in /\ ep[c].edge /\ ReadyFor(sock[c], ep[c].mask) # {}

\* The peer sends, shuts its side down, resets, or reads what was sent to it.
PeerStep(c, s) == /\ Alive(c)
                  /\ s # sock[c]
                  /\ sock' = [sock EXCEPT ![c] = s]
                  /\ ep' = Notice(c, s)
                  /\ UNCHANGED <<life, fdOf, loopOf, http, timer, tables, main, loops>>

Sending(c) == ~sock[c].fin /\ ~sock[c].rst
Send(c) == Sending(c) /\ PeerStep(c, [sock[c] EXCEPT !.rx = TRUE])
Shut(c) == Sending(c) /\ PeerStep(c, [sock[c] EXCEPT !.fin = TRUE])
Reset(c) == PeerStep(c, [sock[c] EXCEPT !.rst = TRUE])
Drain(c) == ~sock[c].rst /\ PeerStep(c, [sock[c] EXCEPT !.room = TRUE])

\* The connection's timeout passes.
Lapse(c) ==
    /\ timer[c].live > 0
    /\ ~timer[c].due
    /\ timer' = [timer EXCEPT ![c].due = TRUE]
    /\ UNCHANGED <<life, fdOf, loopOf, http, sock, ep, tables, main, loops>>

-------------------------------------------------------------------------------
(* Objects.                                                                *)

Queued(c) == \E l \in Loop : c \in Range(queue[l]) \cup Range(batch[l])

Held(c) == \/ reqInfo = c
           \/ Queued(c)
           \/ \E l \in Loop, f \in Fd : fd2http[l][f] = c
           \/ timer[c].live > 0

\* ~HttpData of what this step has let go of: close(fd_), which also takes the
\* descriptor out of epoll.  lf and e are what the step makes of life and ep.
Destruct(lf, e) ==
    /\ life' = [c \in Conn |-> IF Alive(c) /\ ~Held(c)' THEN "closed" ELSE lf[c]]
    /\ http' = [c \in Conn |-> IF life'[c] = "closed" THEN NewHttp ELSE http[c]]
    /\ sock' = [c \in Conn |-> IF life'[c] = "closed" THEN NewSock ELSE sock[c]]
    /\ ep' = [c \in Conn |-> IF life'[c] = "closed" THEN NoEntry ELSE e[c]]

\* Slips: seperateTimer forgets the node without emptying it, or does not ask
\* whether there is one; and addTimer leaves the node out of the queue.
SeperateTimer_KeepsNode(t) == [t EXCEPT !.linked = FALSE]
SeperateTimer_Blindly(t) == [live |-> t.live - 1, linked |-> FALSE, due |-> FALSE]
AddTimer_NotPushed(t) == t

\* seperateTimer and addTimer.
SeperateTimer(t) == IF t.linked THEN [live |-> t.live - 1, linked |-> FALSE, due |-> FALSE]
                    ELSE t
AddTimer(t) == [live |-> t.live + 1, linked |-> TRUE, due |-> t.due]

\* epoll_ctl: an entry with a new mask, on the ready list if it has something.
Armed(c, mask) == [in |-> TRUE, mask |-> mask, edge |-> ReadyFor(sock[c], mask) # {}]

\* Slips: one of the tables keeps the closed connection.
DropTables_KeepsHttp(l, c) ==
    /\ fd2chan' = [fd2chan EXCEPT ![l][fdOf[c]] = None]
    /\ UNCHANGED fd2http
DropTables_KeepsChan(l, c) ==
    /\ fd2http' = [fd2http EXCEPT ![l][fdOf[c]] = None]
    /\ UNCHANGED fd2chan

\* delfd takes the connection out of both tables of its poller.
DropTables(l, c) ==
    /\ fd2chan' = [fd2chan EXCEPT ![l][fdOf[c]] = None]
    /\ fd2http' = [fd2http EXCEPT ![l][fdOf[c]] = None]

HandleClose(l, c) ==
    /\ DropTables(l, c)
    /\ Destruct([life EXCEPT ![c] = "disconnected"], [ep EXCEPT ![c] = NoEntry])

-------------------------------------------------------------------------------
(* The main thread accepts a connection: the lowest free descriptor, the   *)
(* next loop, and a newEvent functor for it; and then req_info ends.       *)

UsedFds == {fdOf[c] : c \in {d \in Conn : Alive(d)}}

Accept(c) ==
    /\ reqInfo = None
    /\ reqInfo' = c
    /\ life[c] = "fresh"
    /\ \E f \in Fd \ UsedFds :
           /\ \A g \in Fd \ UsedFds : f <= g
           /\ fdOf' = [fdOf EXCEPT ![c] = f]
    /\ life' = [life EXCEPT ![c] = "open"]
    /\ loopOf' = [loopOf EXCEPT ![c] = next]
    /\ next' = (next + 1) % NumLoops
    /\ queue' = [queue EXCEPT ![next] = Append(@, c)]
    /\ bell' = [bell EXCEPT ![next] = TRUE]
    /\ UNCHANGED <<http, timer, sock, ep, tables, batch, pc, active, cur>>

\* The loop may have run newEvent by now, and even have closed the connection.
LetGo ==
    /\ reqInfo # None
    /\ reqInfo' = None
    /\ UNCHANGED <<fdOf, loopOf, timer, tables, next, loops>>
    /\ Destruct(life, ep)

-------------------------------------------------------------------------------
(* The steps of a loop.                                                    *)

\* poll: what the kernel reports, by the channel that fd2chan_ has for the
\* descriptor.  Without any channel, the eventfd's included, it waits again.
Poll(l) ==
    LET ready == {c \in Conn : life[c] = "open" /\ loopOf[c] = l /\ Reportable(c)}
        found == {c \in ready : fd2chan[l][fdOf[c]] # None}
    IN /\ pc[l] = "poll"
       /\ ready # {} \/ bell[l]
       /\ active' = [active EXCEPT ![l] = {[c   |-> fd2chan[l][fdOf[c]],
                                            rev |-> ReadyFor(sock[c], ep[c].mask)] : c \in found}]
       /\ http' = [c \in Conn |-> IF \E a \in active'[l] : a.c = c
                                  THEN [http[c] EXCEPT !.events = {}] ELSE http[c]]
       /\ ep' = [c \in Conn |-> IF c \notin ready THEN ep[c]
                                ELSE [ep[c] EXCEPT !.edge = FALSE,
                                                   !.mask = IF "ONESHOT" \in @ THEN {} ELSE @]]
       /\ bell' = [bell EXCEPT ![l] = FALSE]
       /\ pc' = [pc EXCEPT ![l] = IF found # {} \/ bell[l] THEN "events" ELSE "poll"]
       /\ UNCHANGED <<life, fdOf, loopOf, timer, sock, tables, queue, batch, main, cur>>

\* handleEvents does nothing with an error or a hang-up: no errorHandler_ is set.
Ignored(rev) == ("HUP" \in rev /\ "IN" \notin rev) \/ "ERR" \in rev

AfterRead(rev) == IF "OUT" \in rev THEN "write" ELSE "conn"

HandleEvents(l) ==
    /\ pc[l] = "events"
    /\ cur[l] = NoCur
    /\ \E a \in active[l] :
           /\ active' = [active EXCEPT ![l] = @ \ {a}]
           /\ http' = [http EXCEPT ![a.c].events = {}]
           /\ cur' = [cur EXCEPT ![l] = IF Ignored(a.rev) THEN NoCur
                          ELSE [c |-> a.c, rev |-> a.rev,
                                phase |-> IF "IN" \in a.rev THEN "read" ELSE AfterRead(a.rev)]]
    /\ UNCHANGED <<life, fdOf, loopOf, timer, sock, ep, tables, queue, batch, bell, main, pc>>

\* What a handler of the current connection leaves alone.
Handling(l, phase) ==
    /\ cur[l].phase = phase
    /\ UNCHANGED <<fdOf, loopOf, queue, batch, bell, main, pc, active>>

\* What reading and parsing can come to: whether it failed, and what of the
\* request was found: part of it, all of it, or all of it and more.
Error(h) == [http |-> [h EXCEPT !.error = TRUE], phase |-> "failed"]
Again(h) == [http |-> h, phase |-> "again"]
Done(h, phase) == [http |-> [h EXCEPT !.out = TRUE], phase |-> phase]

Parsed(h) == {Error(h), Again(h), Done(h, "ok"), Done(h, "more")}

ReadResults(h, s) ==
    IF h.st = "DISCONNECTING" THEN {Again(h)}
    ELSE IF s.rst THEN {Error(h)}
    ELSE IF ~s.fin THEN Parsed(h)
    ELSE LET d == [h EXCEPT !.st = "DISCONNECTING"]
         IN IF s.rx THEN Parsed(d) ELSE {Again(d)}

\* handleRead as far as its loop goes.
HandleRead(l) ==
    LET c == cur[l].c
    IN /\ Handling(l, "read")
       /\ \E r \in ReadResults(http[c], sock[c]) :
              /\ http' = [http EXCEPT ![c] = r.http]
              /\ cur' = [cur EXCEPT ![l].phase = IF r.phase = "failed" THEN AfterRead(cur[l].rev)
                                                 ELSE r.phase]
       /\ sock' = [sock EXCEPT ![c].rx = FALSE]
       /\ UNCHANGED <<life, timer, ep, tables>>

\* What writing the out buffer can come to: nothing, part or all of it sent.
Written(h, s) ==
    IF h.error \/ ~h.out THEN {[http |-> h, sock |-> s]}
    ELSE IF s.rst THEN {[http |-> [h EXCEPT !.error = TRUE, !.events = {"OUT"}], sock |-> s]}
    ELSE LET full == [http |-> [h EXCEPT !.events = @ \cup {"OUT"}],
                      sock |-> [s EXCEPT !.room = FALSE]]
             sent == [http |-> [h EXCEPT !.out = FALSE], sock |-> s]
         IN IF s.room THEN {full, sent} ELSE {full}

\* The rest of handleRead: it writes, and resets what it has finished, or asks
\* for more input.
Reply(l, phase) ==
    LET c == cur[l].c
        done == phase \in {"ok", "more"}
    IN /\ Handling(l, phase)
       /\ \E w \in Written(http[c], sock[c]) :
              LET h == w.http
                  ok == ~h.error
              IN /\ http' = [http EXCEPT ![c] =
                                 IF ok /\ ~done THEN [h EXCEPT !.events = @ \cup {"IN"}] ELSE h]
                 /\ sock' = [sock EXCEPT ![c] = w.sock]
                 /\ timer' = [timer EXCEPT ![c] = IF ok /\ done THEN SeperateTimer(@) ELSE @]
                 /\ cur' = [cur EXCEPT ![l].phase =
                                IF ok /\ phase = "more" /\ h.st # "DISCONNECTING" THEN "read"
                                ELSE AfterRead(cur[l].rev)]
       /\ UNCHANGED <<life, ep, tables>>

HandleWrite(l) ==
    LET c == cur[l].c
    IN /\ Handling(l, "write")
       /\ \E w \in Written(http[c], sock[c]) : /\ http' = [http EXCEPT ![c] = w.http]
                                               /\ sock' = [sock EXCEPT ![c] = w.sock]
       /\ cur' = [cur EXCEPT ![l].phase = "conn"]
       /\ UNCHANGED <<life, timer, ep, tables>>

\* handleConn, the end of every handled event.  A connection goes on with the
\* events it waits for and a new timer; one that is only closing waits for
\* room; any other is closed.

\* Slips: input before output, and a one-shot registration every time.
Wanted_InFirst(events) == IF "IN" \in events \/ events = {} THEN {"IN"} ELSE events
Wanted_OneShot(events) == {"ONESHOT"} \cup (IF events = {} THEN {"IN"}
                               ELSE IF {"IN", "OUT"} \subseteq events THEN {"OUT"} ELSE events)

Wanted(events) == IF events = {} THEN {"IN"}
                  ELSE IF {"IN", "OUT"} \subseteq events THEN {"OUT"} ELSE events

GoesOn(h) == ~h.error /\ h.st = "CONNECTED"

\* Slip: closing does not wait for room.
Lingers_Never(h) == FALSE

Lingers(h) == ~h.error /\ h.st = "DISCONNECTING" /\ "OUT" \in h.events

\* modfd: a new timer, and epoll_ctl if the events differ from the last ones.
ModFd(c, events) ==
    /\ timer' = [timer EXCEPT ![c] = AddTimer(SeperateTimer(@))]
    /\ http' = [http EXCEPT ![c].events = events, ![c].last = events]
    /\ ep' = [ep EXCEPT ![c] = IF events = http[c].last THEN @ ELSE Armed(c, events)]

Rearm(l) ==
    LET c == cur[l].c
    IN /\ Handling(l, "conn")
       /\ GoesOn(http[c])
       /\ ModFd(c, Wanted(http[c].events))
       /\ cur' = [cur EXCEPT ![l] = NoCur]
       /\ UNCHANGED <<life, sock, tables>>

Linger(l) ==
    LET c == cur[l].c
    IN /\ Handling(l, "conn")
       /\ Lingers(http[c])
       /\ timer' = [timer EXCEPT ![c] = SeperateTimer(@)]
       /\ http' = [http EXCEPT ![c].events = {"OUT"}]
       /\ cur' = [cur EXCEPT ![l] = NoCur]
       /\ UNCHANGED <<life, sock, ep, tables>>

Close(l) ==
    LET c == cur[l].c
    IN /\ Handling(l, "conn")
       /\ ~GoesOn(http[c]) /\ ~Lingers(http[c])
       /\ timer' = [timer EXCEPT ![c] = SeperateTimer(@)]
       /\ HandleClose(l, c)
       /\ cur' = [cur EXCEPT ![l] = NoCur]

\* Slip: the functors run, and timers expire, between two events of a round.
EventsDone_Early(l) == pc[l] = "events" /\ cur[l] = NoCur

EventsDone(l) == pc[l] = "events" /\ cur[l] = NoCur /\ active[l] = {}

\* doPendingFunctors takes the queue and runs its functors one by one.
Swap(l) ==
    /\ EventsDone(l)
    /\ batch' = [batch EXCEPT ![l] = queue[l]]
    /\ queue' = [queue EXCEPT ![l] = <<>>]
    /\ pc' = [pc EXCEPT ![l] = "functors"]
    /\ UNCHANGED <<life, fdOf, loopOf, http, timer, sock, ep, tables, bell, main, active, cur>>

\* newEvent: a timer, the tables, and the poller, which may refuse.
NewEvent(l) ==
    /\ pc[l] = "functors"
    /\ batch[l] # <<>>
    /\ batch' = [batch EXCEPT ![l] = Tail(@)]
    /\ LET c == Head(batch[l])
           events == {"IN", "ONESHOT"}
       IN /\ http' = [http EXCEPT ![c].events = events, ![c].last = events]
          /\ timer' = [timer EXCEPT ![c] = AddTimer(@)]
          /\ fd2http' = [fd2http EXCEPT ![l][fdOf[c]] = c]
          /\ \E added \in BOOLEAN :
                 /\ fd2chan' = [fd2chan EXCEPT ![l][fdOf[c]] = IF added THEN c ELSE None]
                 /\ ep' = [ep EXCEPT ![c] = IF added THEN Armed(c, events) ELSE @]
    /\ UNCHANGED <<life, fdOf, loopOf, sock, queue, bell, main, pc, active, cur>>

BatchDone(l) ==
    /\ pc[l] = "functors"
    /\ batch[l] = <<>>
    /\ pc' = [pc EXCEPT ![l] = "expired"]
    /\ UNCHANGED <<life, fdOf, loopOf, http, timer, sock, ep, tables, queue, batch, bell, main,
                   active, cur>>

\* handleExpired pops every node whose time has come: ~TimerNode closes what it
\* refers to.
Expired(l) == {c \in Conn : life[c] = "open" /\ loopOf[c] = l /\ timer[c].due}

HandleExpired(l) ==
    /\ pc[l] = "expired"
    /\ UNCHANGED <<fdOf, loopOf, queue, batch, bell, main, pc, active, cur>>
    /\ \E c \in Expired(l) :
           /\ timer' = [timer EXCEPT ![c] = [live |-> @.live - 1, linked |-> FALSE, due |-> FALSE]]
           /\ HandleClose(l, c)

ExpiredDone(l) ==
    /\ pc[l] = "expired"
    /\ Expired(l) = {}
    /\ pc' = [pc EXCEPT ![l] = "poll"]
    /\ UNCHANGED <<life, fdOf, loopOf, http, timer, sock, ep, tables, queue, batch, bell, main,
                   active, cur>>

-------------------------------------------------------------------------------
LoopStep(l) == \/ Poll(l)
               \/ HandleEvents(l)
               \/ HandleRead(l)
               \/ \E phase \in {"again", "ok", "more"} : Reply(l, phase)
               \/ HandleWrite(l)
               \/ Rearm(l)
               \/ Linger(l)
               \/ Close(l)
               \/ Swap(l)
               \/ NewEvent(l)
               \/ BatchDone(l)
               \/ HandleExpired(l)
               \/ ExpiredDone(l)

Peer(c) == Send(c) \/ Shut(c) \/ Reset(c) \/ Drain(c)

Next == \/ \E c \in Conn : Accept(c) \/ Peer(c) \/ Lapse(c)
        \/ LetGo
        \/ \E l \in Loop : LoopStep(l)

Spec == Init /\ [][Next]_vars

\* The main thread and each loop, which runs in a thread of its own, take their
\* next step when they have one; time passes; a peer reads, in the end, what was
\* written to it; and a response is finite, so that one of its writes is the last.
FairSpec == /\ Spec
            /\ WF_vars(LetGo)
            /\ \A l \in Loop : WF_vars(LoopStep(l))
            /\ \A c \in Conn : WF_vars(Drain(c)) /\ WF_vars(Lapse(c))
            /\ \A l \in Loop, c \in Conn : SF_vars(HandleWrite(l) /\ http[c].out /\ ~http'[c].out)

-------------------------------------------------------------------------------
\* The loop of c still has it, or is going to.
Open(c) == life[c] = "open"

\* A loop is in the middle of an event of c, or will come to it in this round.
Busy(c) == \E l \in Loop : cur[l].c = c \/ \E a \in active[l] : a.c = c

\* Linger has let it go: without a timer, and without telling the poller.
Stranded(c) == Open(c) /\ http[c].st = "DISCONNECTING" /\ ~Busy(c)

\* epoll_ctl did not accept c: the connection only has its timer.
Refused(c) == Open(c) /\ ~Queued(c) /\ ~ep[c].in

Phases == {"none", "read", "again", "ok", "more", "write", "conn"}

TypeOK ==
    /\ life \in [Conn -> {"fresh", "open", "disconnected", "closed"}]
    /\ fdOf \in [Conn -> 0 .. NumFds]
    /\ loopOf \in [Conn -> Loop]
    /\ http \in [Conn -> [st : {"CONNECTED", "DISCONNECTING"}, error : BOOLEAN,
                          out : BOOLEAN, events : SUBSET Flags, last : SUBSET Flags]]
    /\ timer \in [Conn -> [live : Nat, linked : BOOLEAN, due : BOOLEAN]]
    /\ sock \in [Conn -> [rx : BOOLEAN, fin : BOOLEAN, rst : BOOLEAN, room : BOOLEAN]]
    /\ ep \in [Conn -> [in : BOOLEAN, mask : SUBSET Flags, edge : BOOLEAN]]
    /\ fd2chan \in [Loop -> [Fd -> Conn \cup {None}]]
    /\ fd2http \in [Loop -> [Fd -> Conn \cup {None}]]
    /\ queue \in [Loop -> Seq(Conn)]
    /\ batch \in [Loop -> Seq(Conn)]
    /\ bell \in [Loop -> BOOLEAN]
    /\ next \in Loop
    /\ reqInfo \in Conn \cup {None}
    /\ pc \in [Loop -> {"poll", "events", "functors", "expired"}]
    /\ active \in [Loop -> SUBSET [c : Conn, rev : SUBSET Revents]]
    /\ cur \in [Loop -> [c : Conn \cup {None}, rev : SUBSET Revents, phase : Phases]]

(***************************************************************************)
(* A connection has at most one timer node that still refers to it, and    *)
(* its timer_ finds that node: seperateTimer runs before addTimer on every *)
(* path, so no forgotten node can close a connection in use.               *)
(***************************************************************************)
OneTimer == \A c \in Conn : /\ timer[c].live <= 1
                            /\ timer[c].linked <=> timer[c].live = 1
                            /\ timer[c].due => timer[c].live = 1

(***************************************************************************)
(* What a loop finds under a descriptor, in its tables or in its epoll, is *)
(* the open connection that owns the descriptor and belongs to the loop,   *)
(* although the main thread gives a descriptor that one loop has closed to *)
(* a connection of another: delfd comes before close(fd_).                 *)
(***************************************************************************)
TablesAgree ==
    /\ \A l \in Loop, f \in Fd : \A c \in {fd2chan[l][f], fd2http[l][f]} \ {None} :
           Open(c) /\ fdOf[c] = f /\ loopOf[c] = l
    /\ \A c \in Conn : ep[c].in => fd2chan[loopOf[c]][fdOf[c]] = c
    /\ \A c, d \in Conn : Alive(c) /\ Alive(d) /\ fdOf[c] = fdOf[d] => c = d

(***************************************************************************)
(* A connection that handleClose has given up is destructed in that step,  *)
(* its descriptor closed, as neither a timer node nor a table nor a queue  *)
(* still holds it; or else the main thread has not let go of it since it   *)
(* was accepted, and will destruct it.                                     *)
(***************************************************************************)
NothingLingers == \A c \in Conn : life[c] = "disconnected" => reqInfo = c

(***************************************************************************)
(* handleEvents only calls handlers that are bound to living connections:  *)
(* none that is active or being handled is given up before its turn is     *)
(* over.                                                                   *)
(***************************************************************************)
HandlersAlive ==
    \A l \in Loop : /\ cur[l] # NoCur => Open(cur[l].c) /\ loopOf[cur[l].c] = l
                    /\ \A a \in active[l] : Open(a.c) /\ loopOf[a.c] = l

(***************************************************************************)
(* An open connection is either about to be registered or handled, or its  *)
(* timer watches it, even if epoll refused it or handleEvents ignored its  *)
(* error.  The exception is a connection whose peer has shut its side      *)
(* down before a response was sent: handleConn leaves it without a timer.  *)
(***************************************************************************)
Watched == \A c \in Conn : Open(c) => \/ Queued(c) \/ Busy(c)
                                      \/ timer[c].live = 1
                                      \/ Stranded(c)

(***************************************************************************)
(* Between its events, the poller waits for what a connection needs: room  *)
(* while a response is pending, and else a request; or it has something to *)
(* report, after which it will.  lastEvents_ never makes modfd skip a      *)
(* change that matters, nor does the one-shot registration stay disarmed.  *)
(***************************************************************************)
InterestMatches ==
    \A c \in Conn : Open(c) /\ ep[c].in /\ ~Busy(c) /\ http[c].st = "CONNECTED" /\ ~sock[c].rst
                        => \/ (IF http[c].out THEN "OUT" ELSE "IN") \in ep[c].mask
                           \/ Reportable(c)

(***************************************************************************)
(* A connection is not closed with a response still to be sent, unless an  *)
(* error or its timeout ended it.                                          *)
(***************************************************************************)
NoTruncation ==
    [][\A c \in Conn : Open(c) /\ ~Open(c)' /\ http[c].out
                           => http[c].error \/ timer[c].due]_vars

(***************************************************************************)
(* What a peer sends is read, although the registration is edge-triggered  *)
(* and at first one-shot, unless the connection is refused by epoll, reset *)
(* or closed.                                                              *)
(***************************************************************************)
RequestsRead == \A c \in Conn : (Open(c) /\ sock[c].rx) ~> \/ ~Open(c) \/ ~sock[c].rx
                                                          \/ sock[c].rst \/ Refused(c)

\* README.md of version3.0 says, line 5, that timers close requests that time
\* out: once the time has come, the connection is closed.
TimeoutCloses == \A c \in Conn : timer[c].due ~> ~timer[c].due

\* And line 245: the data of an HttpData has been sent before its resources are
\* released.  A response that is pending when the peer shuts its side down is
\* sent, then, if the peer goes on reading.
PendingSent == \A c \in Conn : (Stranded(c) /\ http[c].out) ~> ~http[c].out \/ sock[c].rst

===============================================================================
