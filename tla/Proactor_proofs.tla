--------------------------- MODULE Proactor_proofs -----------------------------
(***************************************************************************)
(* Theorems about Proactor: the one-shot registration keeps the main       *)
(* thread and the pool apart; and about HttpWrite, what a connection of    *)
(* it sends next when writev takes less than it is offered, for answers of *)
(* every size.                                                             *)
(***************************************************************************)
EXTENDS Proactor, HttpWrite, SequenceLemmas, FiniteSetTheorems

LEMMA Descriptors ==
    /\ Stdin \in Fd /\ Pipe \notin Fd /\ Listener \notin Fd /\ Pipe # Listener
    /\ Pipe # -1 /\ -1 \notin Fd /\ Idle \notin Fd /\ Listener # Pipe
BY SizesAssumption DEF Stdin, Fd, Pipe, Listener, Idle

-------------------------------------------------------------------------------
(* The invariant.                                                          *)

Typing == /\ main \in {"poll", "events"}
          /\ open \subseteq Fd
          /\ reg \in [Fd -> {"in", "out", "off", "none"}]
          /\ sockfd \in [Fd \cup {Pipe} -> Fd \cup {-1}]
          /\ queue \in Seq(Fd) /\ sem = Len(queue)
          /\ worker \in [Worker -> Fd \cup {Idle}]
          /\ refused \subseteq Fd

\* The events of a round: one for a descriptor, and those of the pipe and the listener are
\* readable and no hang-ups.
Events == /\ \A e \in batch : /\ e.fd \in Fd \cup {Pipe, Listener}
                              /\ e.fd \in {Pipe, Listener} => e.in /\ ~e.hup
          /\ \A e, d \in batch : e.fd = d.fd => e = d
          /\ main = "poll" => batch = {}

Workers == \A v, w \in Worker : worker[v] = worker[w] => v = w \/ worker[v] = Idle

\* A connection closes its own descriptor, and the event of the pipe that of no connection.
Sockets == /\ \A f \in Fd : reg[f] # "none" => f \in open /\ sockfd[f] = f
           /\ sockfd[Pipe] \in {Stdin, -1}
           /\ sockfd[Pipe] = Stdin => Stdin \in open /\ reg[Stdin] = "none"

InBatch(f) == \E e \in batch : e.fd = f
InQueue(f) == f \in Range(queue)
AtWork(f) == \E w \in Worker : worker[w] = f
Armed(f) == reg[f] \in {"in", "out"}
Counted(f) == reg[f] # "none" /\ f \notin refused

\* Of the four at most one holds, and one does for those who count.
Exactly(b, q, w, a, counted) ==
    /\ counted <=> b \/ q \/ w \/ a
    /\ ~(b /\ q) /\ ~(b /\ w) /\ ~(b /\ a) /\ ~(q /\ w) /\ ~(q /\ a) /\ ~(w /\ a)

One(f) == /\ Exactly(InBatch(f), InQueue(f), AtWork(f), Armed(f), Counted(f))
          /\ f \in refused => reg[f] = "off"

IInv == /\ Typing
        /\ Events
        /\ IsInjective(queue)
        /\ Workers
        /\ Sockets
        /\ \A f \in Fd : One(f)

-------------------------------------------------------------------------------
(* What does not concern a connection leaves it where it is.               *)

LEMMA Stays ==
    ASSUME NEW f \in Fd, One(f),
           InBatch(f)' <=> InBatch(f), InQueue(f)' <=> InQueue(f),
           AtWork(f)' <=> AtWork(f), reg'[f] = reg[f],
           (f \in refused') <=> (f \in refused)
    PROVE  One(f)'
<1>1. (Armed(f)' <=> Armed(f)) /\ (Counted(f)' <=> Counted(f))
  BY DEF Armed, Counted
<1> QED BY <1>1 DEF One, Exactly

LEMMA Init0 == Init => IInv
<1> SUFFICES ASSUME Init PROVE IInv
  OBVIOUS
<1>1. Typing
  <2>1. queue \in Seq(Fd) /\ sem = Len(queue)
    BY EmptySeq DEF Init
  <2> QED BY <2>1, Descriptors DEF Init, Typing, Stdin
<1>2. Events /\ Workers /\ Sockets
  BY Descriptors DEF Init, Events, Workers, Sockets, Stdin, Idle
<1>3. IsInjective(queue) /\ Range(queue) = {}
  <2>1. queue = <<>> /\ DOMAIN queue = {}
    BY EmptySeq DEF Init
  <2> QED BY <2>1 DEF IsInjective, Range
<1>4. ASSUME NEW f \in Fd PROVE One(f)
  <2>1. ~InBatch(f) /\ ~InQueue(f) /\ ~AtWork(f) /\ ~Armed(f) /\ ~Counted(f)
    BY <1>3, Descriptors DEF Init, InBatch, InQueue, AtWork, Armed, Counted, Idle
  <2> QED BY <2>1 DEF One, Exactly, Init
<1> QED BY <1>1, <1>2, <1>3, <1>4 DEF IInv

LEMMA InvStutters == IInv /\ UNCHANGED vars => IInv'
<1> SUFFICES ASSUME IInv, UNCHANGED vars PROVE IInv'
  OBVIOUS
<1>0. UNCHANGED <<main, batch, open, reg, sockfd, queue, sem, worker, refused>>
  BY DEF vars, kernel, users, pool
<1>1. Typing' /\ Events' /\ Workers' /\ Sockets'
  BY <1>0 DEF IInv, Typing, Events, Workers, Sockets
<1>2. IsInjective(queue)'
  BY <1>0 DEF IInv, IsInjective
<1>3. ASSUME NEW f \in Fd PROVE One(f)'
  BY <1>0, Stays DEF IInv, InBatch, InQueue, AtWork
<1> QED BY <1>1, <1>2, <1>3 DEF IInv

\* Clients, signals and the clock.
LEMMA EnvironmentStep == IInv /\ Environment => IInv'
<1> SUFFICES ASSUME IInv, Environment PROVE IInv'
  OBVIOUS
<1>0. UNCHANGED <<main, batch, open, reg, sockfd, queue, sem, worker, refused>>
  BY DEF Environment, Connect, TimePasses, Send, Shut, PeerStep, Raise, kernel, users, pool
<1>1. Typing' /\ Events' /\ Workers' /\ Sockets'
  BY <1>0 DEF IInv, Typing, Events, Workers, Sockets
<1>2. IsInjective(queue)'
  BY <1>0 DEF IInv, IsInjective
<1>3. ASSUME NEW f \in Fd PROVE One(f)'
  BY <1>0, Stays DEF IInv, InBatch, InQueue, AtWork
<1> QED BY <1>1, <1>2, <1>3 DEF IInv

-------------------------------------------------------------------------------
(* The main thread.                                                        *)

LEMMA PollStep == IInv /\ Poll => IInv'
<1> SUFFICES ASSUME IInv, Poll PROVE IInv'
  OBVIOUS
<1>0. UNCHANGED <<open, sockfd, queue, sem, worker, refused>> /\ main' = "events"
  BY DEF Poll, users, pool
<1>1. PICK told \in SUBSET Fd :
          /\ \A f \in told : reg[f] \in {"in", "out"}
          /\ batch' = Reports(told)
          /\ reg' = [f \in Fd |-> IF f \in told THEN "off" ELSE reg[f]]
  <2>1. PICK room \in SUBSET Writable :
            /\ batch' = Reports(Due \cup room)
            /\ reg' = [f \in Fd |-> IF f \in Due \cup room THEN "off" ELSE reg[f]]
    BY DEF Poll, AfterReport
  <2>2. Due \cup room \in SUBSET Fd /\ \A f \in Due \cup room : reg[f] \in {"in", "out"}
    BY DEF Due, Writable
  <2> QED BY <2>1, <2>2
<1>2. batch = {}
  BY DEF Poll, IInv, Events
<1>3. \A e \in batch' : \/ e.fd \in told /\ e = Event(e.fd)
                        \/ e.fd \in {Pipe, Listener} /\ e = Special(e.fd)
  BY <1>1 DEF Reports, Rung, Event, Special
<1>4. \A f \in told : InBatch(f)'
  <2> SUFFICES ASSUME NEW f \in told PROVE InBatch(f)'
    OBVIOUS
  <2>1. Event(f) \in batch' /\ Event(f).fd = f
    BY <1>1 DEF Reports, Event
  <2> QED BY <2>1 DEF InBatch
<1>5. Events'
  <2>1. \A e \in batch' : e.fd \in {Pipe, Listener} => e.in /\ ~e.hup
    BY <1>1, <1>3, Descriptors DEF Special
  <2>2. \A e, d \in batch' : e.fd = d.fd => e = d
    BY <1>1, <1>3, Descriptors
  <2> QED BY <1>0, <1>1, <1>3, <2>1, <2>2 DEF Events
<1>6. Typing'
  BY <1>0, <1>1 DEF IInv, Typing
<1>7. Workers' /\ Sockets'
  BY <1>0, <1>1, Descriptors DEF IInv, Typing, Workers, Sockets
<1>8. IsInjective(queue)'
  BY <1>0 DEF IInv, IsInjective
<1>9. ASSUME NEW f \in Fd PROVE One(f)'
  <2>0. One(f) /\ ~InBatch(f) /\ (InQueue(f)' <=> InQueue(f)) /\ (AtWork(f)' <=> AtWork(f))
    BY <1>0, <1>2 DEF IInv, InBatch, InQueue, AtWork
  <2>1. CASE f \in told
    <3>1. Armed(f) /\ ~Armed(f)' /\ reg'[f] = "off" /\ (Counted(f)' <=> Counted(f))
      BY <1>0, <1>1, <2>1 DEF Armed, Counted
    <3>2. InBatch(f)'
      BY <1>4, <2>1
    <3> QED BY <1>0, <2>0, <3>1, <3>2 DEF One, Exactly
  <2>2. CASE f \notin told
    <3>1. reg'[f] = reg[f]
      BY <1>1, <2>2
    <3>2. ~InBatch(f)'
      BY <1>3, <2>2, Descriptors DEF InBatch
    <3> QED BY <1>0, <2>0, <3>1, <3>2, Stays
  <2> QED BY <2>1, <2>2
<1> QED BY <1>5, <1>6, <1>7, <1>8, <1>9 DEF IInv

LEMMA EventsDoneStep == IInv /\ EventsDone => IInv'
<1> SUFFICES ASSUME IInv, EventsDone PROVE IInv'
  OBVIOUS
<1>0. UNCHANGED <<batch, open, reg, sockfd, queue, sem, worker, refused>> /\ main' = "poll"
  BY DEF EventsDone, kernel, users, pool
<1>1. Typing' /\ Events' /\ Workers' /\ Sockets'
  BY <1>0 DEF EventsDone, IInv, Typing, Events, Workers, Sockets
<1>2. IsInjective(queue)'
  BY <1>0 DEF IInv, IsInjective
<1>3. ASSUME NEW f \in Fd PROVE One(f)'
  BY <1>0, Stays DEF IInv, InBatch, InQueue, AtWork
<1> QED BY <1>1, <1>2, <1>3 DEF IInv

\* An event that is handled leaves the batch, and nothing else does.
LEMMA Handled ==
    ASSUME Events, NEW e, NEW b, Handling(e, b), main' = main
    PROVE  /\ Events'
           /\ e.fd \in Fd \cup {Pipe, Listener} /\ InBatch(e.fd) /\ ~InBatch(e.fd)'
           /\ \A f : f # e.fd => (InBatch(f)' <=> InBatch(f))
           /\ b = Branch(e)
<1>1. main = "events" /\ e \in batch /\ batch' = batch \ {e} /\ b = Branch(e)
  BY DEF Handling
<1> QED BY <1>1 DEF Events, InBatch

\* The branches that are only for connections.
LEMMA ForConnections ==
    ASSUME Events, NEW e, NEW b \in {"close", "read", "write"}, Handling(e, b),
           b = "read" => e.fd # Pipe
    PROVE  e.fd \in Fd
<1>1. e \in batch /\ b = Branch(e)
  BY DEF Handling
<1>2. e.fd \in Fd \cup {Pipe, Listener} /\ (e.fd \in {Pipe, Listener} => e.in /\ ~e.hup)
  BY <1>1 DEF Events
<1> QED BY <1>1, <1>2, Descriptors DEF Branch

LEMMA BusyStep == ASSUME IInv, NEW e, Busy(e) PROVE IInv'
<1>0. /\ Handling(e, "listen")
      /\ UNCHANGED <<main, open, reg, sockfd, queue, sem, worker, refused>>
  BY DEF Busy, users, pool
<1>1. Events' /\ e.fd = Listener /\ \A f : f # e.fd => (InBatch(f)' <=> InBatch(f))
  BY <1>0, Handled DEF IInv, Branch
<1>2. Typing' /\ Workers' /\ Sockets' /\ IsInjective(queue)'
  BY <1>0 DEF IInv, Typing, Workers, Sockets, IsInjective
<1>3. ASSUME NEW f \in Fd PROVE One(f)'
  BY <1>0, <1>1, Descriptors, Stays DEF IInv, InQueue, AtWork
<1> QED BY <1>1, <1>2, <1>3 DEF IInv

LEMMA AddClientStep == ASSUME IInv, NEW e, NEW f \in Fd, AddClient(e, f) PROVE IInv'
<1>0. /\ Handling(e, "listen") /\ f \notin open
      /\ open' = open \cup {f}
      /\ reg' = [reg EXCEPT ![f] = "in"]
      /\ sockfd' = [sockfd EXCEPT ![f] = f]
      /\ UNCHANGED <<main, queue, sem, worker, refused>>
  BY DEF AddClient, pool
<1>1. Events' /\ e.fd = Listener /\ \A g : g # e.fd => (InBatch(g)' <=> InBatch(g))
  BY <1>0, Handled DEF IInv, Branch
<1>2. Typing' /\ Workers' /\ IsInjective(queue)'
  BY <1>0 DEF IInv, Typing, Workers, IsInjective
<1>3. reg'[f] = "in" /\ \A g \in Fd \ {f} : reg'[g] = reg[g]
  BY <1>0 DEF IInv, Typing
<1>4. Sockets'
  BY <1>0, <1>3, Descriptors DEF IInv, Typing, Sockets
<1>5. ASSUME NEW g \in Fd PROVE One(g)'
  <2>0. One(g) /\ (InBatch(g)' <=> InBatch(g)) /\ (InQueue(g)' <=> InQueue(g))
               /\ (AtWork(g)' <=> AtWork(g))
    BY <1>0, <1>1, Descriptors DEF IInv, InQueue, AtWork
  <2>1. CASE g = f
    <3>1. reg[f] = "none"
      BY <1>0 DEF IInv, Sockets
    <3>2. f \notin refused /\ ~Armed(f) /\ ~Counted(f) /\ Armed(f)' /\ Counted(f)'
      BY <1>0, <1>3, <2>0, <2>1, <3>1 DEF One, Armed, Counted
    <3> QED BY <1>0, <2>0, <2>1, <3>2 DEF One, Exactly
  <2>2. CASE g # f
    BY <1>0, <1>3, <2>0, <2>2, Stays
  <2> QED BY <2>1, <2>2
<1> QED BY <1>1, <1>2, <1>4, <1>5 DEF IInv

\* The end of a connection, for an event of its own.
LEMMA ConnectionEnds ==
    ASSUME IInv, NEW e, NEW b \in {"close", "read", "write"}, Handling(e, b),
           b = "read" => e.fd # Pipe,
           Closes(e.fd), UNCHANGED <<main, queue, sem, worker, refused>>
    PROVE  IInv'
<1>1. PICK f \in Fd : f = e.fd
  BY ForConnections DEF IInv
<1>2. Events' /\ InBatch(f) /\ ~InBatch(f)' /\ \A g : g # f => (InBatch(g)' <=> InBatch(g))
  BY <1>1, Handled DEF IInv
<1>3. /\ reg[f] # "none" /\ f \notin refused /\ sockfd[f] = f
      /\ ~InQueue(f) /\ ~AtWork(f) /\ ~Armed(f)
  BY <1>2 DEF IInv, One, Exactly, Counted, Sockets
<1>4. /\ open' = open \ {f}
      /\ reg' = [reg EXCEPT ![f] = "none"]
      /\ sockfd' = [sockfd EXCEPT ![f] = -1]
  BY <1>1, <1>3, Descriptors DEF Closes
<1>5. Typing' /\ Workers' /\ IsInjective(queue)'
  BY <1>4 DEF IInv, Typing, Workers, IsInjective
<1>6. reg'[f] = "none" /\ \A g \in Fd \ {f} : reg'[g] = reg[g]
  BY <1>4 DEF IInv, Typing
<1>7. Sockets'
  <2>1. sockfd'[Pipe] = sockfd[Pipe] /\ \A g \in Fd \ {f} : sockfd'[g] = sockfd[g]
    BY <1>4, Descriptors DEF IInv, Typing
  <2> QED BY <1>3, <1>4, <1>6, <2>1, Descriptors DEF IInv, Sockets
<1>8. ASSUME NEW g \in Fd PROVE One(g)'
  <2>0. One(g) /\ (InQueue(g)' <=> InQueue(g)) /\ (AtWork(g)' <=> AtWork(g))
    BY DEF IInv, InQueue, AtWork
  <2>1. CASE g = f
    BY <1>2, <1>3, <1>6, <2>0, <2>1 DEF One, Exactly, Armed, Counted
  <2>2. CASE g # f
    BY <1>2, <1>6, <2>0, <2>2, Stays
  <2> QED BY <2>1, <2>2
<1> QED BY <1>2, <1>5, <1>7, <1>8 DEF IInv

LEMMA CloseConnStep == ASSUME IInv, NEW e, CloseConn(e) PROVE IInv'
<1>1. Handling(e, "close") /\ Closes(e.fd) /\ UNCHANGED <<main, queue, sem, worker, refused>>
  BY DEF CloseConn, pool
<1> QED BY <1>1, ConnectionEnds

LEMMA DealReadFailsStep == ASSUME IInv, NEW e, DealReadFails(e) PROVE IInv'
<1>1. /\ Handling(e, "read") /\ e.fd # Pipe /\ Closes(e.fd)
      /\ UNCHANGED <<main, queue, sem, worker, refused>>
  BY DEF DealReadFails, Drop, pool
<1> QED BY <1>1, ConnectionEnds

LEMMA DealWriteEndsStep == ASSUME IInv, NEW e, DealWriteEnds(e) PROVE IInv'
<1>1. Handling(e, "write") /\ Closes(e.fd) /\ UNCHANGED <<main, queue, sem, worker, refused>>
  BY DEF DealWriteEnds, Drop, pool
<1> QED BY <1>1, ConnectionEnds

\* What was read goes to the queue, or nowhere when it is full.
LEMMA DealReadStep == ASSUME IInv, NEW e, DealRead(e) PROVE IInv'
<1>0. /\ Handling(e, "read") /\ e.fd # Pipe
      /\ UNCHANGED <<main, open, reg, sockfd, worker>>
      /\ IF Full THEN refused' = refused \cup {e.fd} /\ UNCHANGED <<queue, sem>>
                 ELSE queue' = Append(queue, e.fd) /\ sem' = sem + 1 /\ UNCHANGED refused
  BY DEF DealRead
<1>1. PICK f \in Fd : f = e.fd
  BY <1>0, ForConnections DEF IInv
<1>2. Events' /\ InBatch(f) /\ ~InBatch(f)' /\ \A g : g # f => (InBatch(g)' <=> InBatch(g))
  BY <1>0, <1>1, Handled DEF IInv
<1>3. /\ reg[f] = "off" /\ f \notin refused /\ f \notin Range(queue)
      /\ ~AtWork(f) /\ ~Armed(f)
  BY <1>2 DEF IInv, Typing, One, Exactly, Counted, Armed, InQueue
<1>4. Workers' /\ Sockets'
  BY <1>0 DEF IInv, Workers, Sockets
<1>5. CASE Full
  <2>1. refused' = refused \cup {f} /\ UNCHANGED <<queue, sem>>
    BY <1>0, <1>1, <1>5
  <2>2. Typing' /\ IsInjective(queue)'
    BY <1>0, <2>1 DEF IInv, Typing, IsInjective
  <2>3. ASSUME NEW g \in Fd PROVE One(g)'
    <3>0. One(g) /\ (InQueue(g)' <=> InQueue(g)) /\ (AtWork(g)' <=> AtWork(g))
      BY <1>0, <2>1 DEF IInv, InQueue, AtWork
    <3>1. CASE g = f
      BY <1>0, <1>2, <1>3, <2>1, <3>0, <3>1 DEF One, Exactly, Armed, Counted, InQueue
    <3>2. CASE g # f
      BY <1>0, <1>2, <2>1, <3>0, <3>2, Stays
    <3> QED BY <3>1, <3>2
  <2> QED BY <1>2, <1>4, <2>2, <2>3 DEF IInv
<1>6. CASE ~Full
  <2>1. queue' = Append(queue, f) /\ sem' = sem + 1 /\ UNCHANGED refused
    BY <1>0, <1>1, <1>6
  <2>2. queue \in Seq(Fd) /\ IsInjective(queue)
    BY DEF IInv, Typing
  <2>3. queue' \in Seq(Fd) /\ Len(queue') = Len(queue) + 1
    BY <2>1, <2>2, AppendProperties
  <2>4. Typing'
    BY <1>0, <2>1, <2>3 DEF IInv, Typing
  <2>5. IsInjective(queue)' /\ Range(queue') = Range(queue) \cup {f}
    BY <1>3, <2>1, <2>2, InjectiveAppend, RangeAppend
  <2>6. ASSUME NEW g \in Fd PROVE One(g)'
    <3>0. One(g) /\ (AtWork(g)' <=> AtWork(g))
      BY <1>0, <2>1 DEF IInv, AtWork
    <3>1. CASE g = f
      <4>1. InQueue(f)'
        BY <2>5 DEF InQueue
      <4> QED BY <1>0, <1>2, <1>3, <2>1, <3>0, <3>1, <4>1 DEF One, Exactly, Armed, Counted
    <3>2. CASE g # f
      <4>1. InQueue(g)' <=> InQueue(g)
        BY <2>5, <3>2 DEF InQueue
      <4> QED BY <1>0, <1>2, <2>1, <3>0, <3>2, <4>1, Stays
    <3> QED BY <3>1, <3>2
  <2> QED BY <1>2, <1>4, <2>4, <2>5, <2>6 DEF IInv
<1> QED BY <1>5, <1>6

\* A write that goes on, or the end of one on a connection that is kept, rearms.
LEMMA DealWriteStep == ASSUME IInv, NEW e, DealWrite(e) PROVE IInv'
<1>0. /\ Handling(e, "write")
      /\ UNCHANGED <<main, open, sockfd, queue, sem, worker, refused>>
      /\ \E new \in {"in", "out"} : reg' = [reg EXCEPT ![e.fd] = new]
  BY DEF DealWrite, pool
<1>1. PICK f \in Fd : f = e.fd
  BY <1>0, ForConnections DEF IInv
<1>2. Events' /\ InBatch(f) /\ ~InBatch(f)' /\ \A g : g # f => (InBatch(g)' <=> InBatch(g))
  BY <1>0, <1>1, Handled DEF IInv
<1>3. reg'[f] \in {"in", "out"} /\ \A g \in Fd \ {f} : reg'[g] = reg[g]
  BY <1>0, <1>1 DEF IInv, Typing
<1>4. reg[f] # "none" /\ f \notin refused /\ ~InQueue(f) /\ ~AtWork(f)
  BY <1>2 DEF IInv, One, Exactly, Counted
<1>5. Typing' /\ Workers' /\ IsInjective(queue)'
  BY <1>0, <1>1 DEF IInv, Typing, Workers, IsInjective
<1>6. Sockets'
  BY <1>0, <1>3, <1>4, Descriptors DEF IInv, Sockets
<1>7. ASSUME NEW g \in Fd PROVE One(g)'
  <2>0. One(g) /\ (InQueue(g)' <=> InQueue(g)) /\ (AtWork(g)' <=> AtWork(g))
    BY <1>0 DEF IInv, InQueue, AtWork
  <2>1. CASE g = f
    <3>1. Armed(f)' /\ Counted(f)'
      BY <1>0, <1>3, <1>4 DEF Armed, Counted
    <3> QED BY <1>0, <1>2, <1>4, <2>0, <2>1, <3>1 DEF One, Exactly
  <2>2. CASE g # f
    BY <1>0, <1>2, <1>3, <2>0, <2>2, Stays
  <2> QED BY <2>1, <2>2
<1> QED BY <1>2, <1>5, <1>6, <1>7 DEF IInv

\* The pipe's event takes the standard input with it, or nothing.
LEMMA HandlePipeStep == ASSUME IInv, NEW e, HandlePipe(e) PROVE IInv'
<1>0. /\ Handling(e, Branch(e)) /\ e.fd = Pipe
      /\ UNCHANGED <<main, queue, sem, worker, refused>>
      /\ UNCHANGED <<open, reg, sockfd>> \/ Closes(Pipe)
  BY DEF HandlePipe, pool, users
<1>1. Events' /\ \A g \in Fd : InBatch(g)' <=> InBatch(g)
  BY <1>0, Handled, Descriptors DEF IInv
<1>2. \/ UNCHANGED <<open, reg, sockfd>>
      \/ /\ sockfd[Pipe] = Stdin
         /\ open' = open \ {Stdin}
         /\ reg' = [reg EXCEPT ![Stdin] = "none"]
         /\ sockfd' = [sockfd EXCEPT ![Pipe] = -1]
  <2>1. sockfd[Pipe] \in {Stdin, -1} /\ Stdin # -1
    BY Descriptors DEF IInv, Sockets
  <2> QED BY <1>0, <2>1 DEF Closes, users
<1>3. UNCHANGED reg
  BY <1>2, Descriptors DEF IInv, Typing, Sockets
<1>4. Typing' /\ Workers' /\ IsInjective(queue)'
  BY <1>0, <1>2, <1>3, Descriptors DEF IInv, Typing, Workers, IsInjective
<1>5. Sockets'
  BY <1>2, <1>3, Descriptors DEF IInv, Typing, Sockets
<1>6. ASSUME NEW g \in Fd PROVE One(g)'
  BY <1>0, <1>1, <1>3, Stays DEF IInv, InQueue, AtWork
<1> QED BY <1>1, <1>4, <1>5, <1>6 DEF IInv

-------------------------------------------------------------------------------
(* The pool.                                                               *)

LEMMA TakeStep == ASSUME IInv, NEW w \in Worker, Take(w) PROVE IInv'
<1>0. /\ worker[w] = Idle /\ sem > 0 /\ sem' = sem - 1
      /\ queue' = Tail(queue)
      /\ worker' = [worker EXCEPT ![w] = Head(queue)]
      /\ UNCHANGED <<main, batch, open, reg, sockfd, refused>>
  BY DEF Take, kernel, users
<1>1. queue \in Seq(Fd) /\ IsInjective(queue) /\ queue # <<>>
  BY <1>0, EmptySeq DEF IInv, Typing
<1>2. PICK f \in Fd : f = Head(queue)
  BY <1>1, SplitHead
<1>3. /\ queue' \in Seq(Fd) /\ Len(queue) = Len(queue') + 1
      /\ Range(queue) = {f} \cup Range(queue')
      /\ IsInjective(queue') /\ f \notin Range(queue')
  BY <1>0, <1>1, <1>2, SplitHead, InjectiveTail
<1>4. worker'[w] = f /\ \A v \in Worker \ {w} : worker'[v] = worker[v]
  BY <1>0, <1>2 DEF IInv, Typing
<1>5. Typing'
  <2>1. Len(queue') \in Nat
    BY <1>3, LenProperties
  <2>2. sem' = Len(queue')
    BY <1>0, <1>3, <2>1 DEF IInv, Typing
  <2> QED BY <1>0, <1>2, <1>3, <2>2 DEF IInv, Typing
<1>6. /\ InQueue(f) /\ ~InQueue(f)' /\ \A g : g # f => (InQueue(g)' <=> InQueue(g))
      /\ AtWork(f)'
  BY <1>3, <1>4 DEF InQueue, AtWork
<1>7. /\ \A g \in Fd \ {f} : AtWork(g)' <=> AtWork(g)
      /\ \A v \in Worker : worker[v] # f
  <2>1. ~AtWork(f)
    BY <1>6 DEF IInv, One, Exactly
  <2> QED BY <1>0, <1>4, <2>1, Descriptors DEF AtWork
<1>8. Workers'
  BY <1>4, <1>7 DEF IInv, Workers
<1>9. Events' /\ Sockets' /\ IsInjective(queue)'
  BY <1>0, <1>3 DEF IInv, Events, Sockets
<1>10. ASSUME NEW g \in Fd PROVE One(g)'
  <2>0. One(g) /\ (InBatch(g)' <=> InBatch(g))
    BY <1>0 DEF IInv, InBatch
  <2>1. CASE g = f
    <3>1. (Armed(f)' <=> Armed(f)) /\ (Counted(f)' <=> Counted(f))
      BY <1>0 DEF Armed, Counted
    <3> QED BY <1>0, <1>6, <2>0, <2>1, <3>1 DEF One, Exactly
  <2>2. CASE g # f
    BY <1>0, <1>6, <1>7, <2>0, <2>2, Stays
  <2> QED BY <2>1, <2>2
<1> QED BY <1>5, <1>8, <1>9, <1>10 DEF IInv

LEMMA ProcessStep ==
    ASSUME IInv, NEW w \in Worker, NEW f \in Fd, NEW new, NEW want \in {"in", "out"},
           Process(w, f, new, want)
    PROVE  IInv'
<1>0. /\ worker[w] = f
      /\ worker' = [worker EXCEPT ![w] = Idle]
      /\ reg' = [reg EXCEPT ![f] = IF @ = "none" THEN @ ELSE want]
      /\ UNCHANGED <<main, batch, open, sockfd, queue, sem, refused>>
  BY DEF Process, Wanted
<1>1. AtWork(f) /\ worker'[w] = Idle /\ \A v \in Worker \ {w} : worker'[v] = worker[v]
  BY <1>0 DEF IInv, Typing, AtWork
<1>2. ~AtWork(f)' /\ \A g \in Fd \ {f} : AtWork(g)' <=> AtWork(g)
  BY <1>0, <1>1, Descriptors DEF IInv, Workers, AtWork
<1>3. reg[f] # "none" /\ f \notin refused /\ ~InQueue(f) /\ ~InBatch(f)
  BY <1>1 DEF IInv, One, Exactly, Counted
<1>4. reg'[f] = want /\ \A g \in Fd \ {f} : reg'[g] = reg[g]
  BY <1>0, <1>3 DEF IInv, Typing
<1>5. Typing' /\ Events' /\ IsInjective(queue)'
  BY <1>0 DEF IInv, Typing, Events, IsInjective
<1>6. Workers'
  BY <1>1 DEF IInv, Workers
<1>7. Sockets'
  BY <1>0, <1>3, <1>4, Descriptors DEF IInv, Sockets
<1>8. ASSUME NEW g \in Fd PROVE One(g)'
  <2>0. One(g) /\ (InQueue(g)' <=> InQueue(g)) /\ (InBatch(g)' <=> InBatch(g))
    BY <1>0 DEF IInv, InQueue, InBatch
  <2>1. CASE g = f
    <3>1. Armed(f)' /\ Counted(f)'
      BY <1>0, <1>3, <1>4 DEF Armed, Counted
    <3> QED BY <1>0, <1>2, <1>3, <2>0, <2>1, <3>1 DEF One, Exactly
  <2>2. CASE g # f
    BY <1>0, <1>2, <1>4, <2>0, <2>2, Stays
  <2> QED BY <2>1, <2>2
<1> QED BY <1>5, <1>6, <1>7, <1>8 DEF IInv

-------------------------------------------------------------------------------
LEMMA NextStep == IInv /\ [Next]_vars => IInv'
<1> SUFFICES ASSUME IInv, [Next]_vars PROVE IInv'
  OBVIOUS
<1>1. ASSUME NEW e \in batch, HandleEvent(e) PROVE IInv'
  <2>1. CASE DealListen(e)
    BY <2>1, BusyStep, AddClientStep DEF DealListen
  <2> QED BY <1>1, <2>1, CloseConnStep, DealReadStep, DealReadFailsStep, DealWriteStep,
             DealWriteEndsStep, HandlePipeStep DEF HandleEvent
<1>2. ASSUME NEW w \in Worker, NEW f \in Fd, ProcessAny(w, f) PROVE IInv'
  <2>1. \E new, want : want \in {"in", "out"} /\ Process(w, f, new, want)
    BY <1>2 DEF ProcessAny, Incomplete, Complete, BadRequest, NoFile
  <2> QED BY <2>1, ProcessStep
<1>3. CASE MainStep
  BY <1>1, <1>3, PollStep, EventsDoneStep DEF MainStep
<1>4. ASSUME NEW w \in Worker, WorkerStep(w) PROVE IInv'
  BY <1>2, <1>4, TakeStep DEF WorkerStep
<1> QED BY <1>3, <1>4, EnvironmentStep, InvStutters DEF Next

THEOREM Invariant == Spec => []IInv
BY Init0, NextStep, PTL DEF Spec

LEMMA AtMostOne ==
    ASSUME NEW S, \A x, y \in S : x = y
    PROVE  /\ (\E x \in S : TRUE) => Cardinality(S) = 1
           /\ ~(\E x \in S : TRUE) => Cardinality(S) = 0
<1>1. CASE S = {}
  BY <1>1, FS_EmptySet
<1>2. CASE S # {}
  <2>1. PICK x \in S : S = {x}
    BY <1>2
  <2>2. Cardinality({x}) = 1
    BY FS_Singleton
  <2> QED BY <2>1, <2>2
<1> QED BY <1>1, <1>2

(***************************************************************************)
(* A connection is in one place at a time, whatever the descriptors,       *)
(* threads and limits are: no two threads of server.cpp and threadpool.h   *)
(* use its buffers together, and none is forgotten but by a full queue.    *)
(***************************************************************************)
THEOREM OnePlace == Spec => []OneAtATime
<1>1. IInv => OneAtATime
  <2> SUFFICES ASSUME IInv, NEW f \in Fd
               PROVE  Places(f) = IF f \in Client \ refused THEN 1 ELSE 0
    BY DEF OneAtATime
  <2> DEFINE B == {e \in batch : e.fd = f}
             Q == {i \in DOMAIN queue : queue[i] = f}
             W == {w \in Worker : worker[w] = f}
  <2>1. Cardinality(B) = IF InBatch(f) THEN 1 ELSE 0
    <3>1. (\A x, y \in B : x = y) /\ (InBatch(f) <=> \E x \in B : TRUE)
      BY DEF IInv, Events, InBatch
    <3> QED BY <3>1, AtMostOne
  <2>2. Cardinality(Q) = IF InQueue(f) THEN 1 ELSE 0
    <3>1. (\A x, y \in Q : x = y) /\ (InQueue(f) <=> \E x \in Q : TRUE)
      BY DEF IInv, IsInjective, InQueue, Range
    <3> QED BY <3>1, AtMostOne
  <2>3. Cardinality(W) = IF AtWork(f) THEN 1 ELSE 0
    <3>1. (\A x, y \in W : x = y) /\ (AtWork(f) <=> \E x \in W : TRUE)
      BY Descriptors DEF IInv, Workers, AtWork
    <3> QED BY <3>1, AtMostOne
  <2>4. Places(f) = Cardinality(B) + Cardinality(Q) + Cardinality(W)
                        + (IF Armed(f) THEN 1 ELSE 0)
    BY DEF Places, Armed
  <2> HIDE DEF B, Q, W
  <2>5. Exactly(InBatch(f), InQueue(f), AtWork(f), Armed(f), f \in Client \ refused)
    BY DEF IInv, One, Counted, Client, Exactly
  <2> QED BY <2>1, <2>2, <2>3, <2>4, <2>5 DEF Exactly
<1> QED BY <1>1, Invariant, PTL

-------------------------------------------------------------------------------
(* Types.  The server's variables one kind at a time.                      *)

Flags == {stop_server, timeout, bell, pipeBell} \subseteq BOOLEAN

Piece == {"part", "end"}
NetType == [in : Seq(Piece), fin : BOOLEAN, sent : Nat]
HttpType == [rest : Seq(Piece), left : 0 .. 2, linger : BOOLEAN, stuck : BOOLEAN]

Contents == net \in [Fd -> NetType] /\ http \in [Fd -> HttpType]

EventType == [fd : Fd \cup {Pipe, Listener}, hup : BOOLEAN, in : BOOLEAN, out : BOOLEAN]

\* An edge of the listener that is not reported, and an event of it that is not handled
\* yet, each mean one connection to accept.
Backlog == /\ arrivals \in 0 .. NumTimers /\ waiting \in 0 .. arrivals
           /\ bell => waiting >= 1
           /\ InBatch(Listener) => waiting >= 1
           /\ bell /\ InBatch(Listener) => waiting >= 2

\* The event of the pipe is counted as the end of a connection.
Users == /\ user_count = Cardinality(Client) - (IF sockfd[Pipe] = Stdin THEN 0 ELSE 1)
         /\ user_count <= MaxUsers

Rest == /\ pipe \subseteq Signal
        /\ timerOf \in [Fd \cup {Pipe} -> Timer \cup {NULL}]
        /\ now \in 0 .. MaxTime
        /\ Len(queue) <= MaxRequests + 1

LEMMA FlagsStep == Flags /\ [Next]_vars => Flags'
<1> SUFFICES ASSUME Flags, [Next]_vars PROVE Flags'
  OBVIOUS
<1>1. ASSUME NEW e, HandleEvent(e) PROVE Flags'
  <2>1. CASE HandlePipe(e)
    BY <2>1 DEF HandlePipe, Flags
  <2> QED BY <1>1, <2>1 DEF HandleEvent, DealListen, AddClient, Busy, CloseConn, DealRead,
             DealReadFails, DealWrite, DealWriteEnds, signals, Flags
<1>2. CASE Poll \/ EventsDone
  BY <1>2 DEF Poll, EventsDone, kernel, signals, Flags
<1>3. CASE Environment
  BY <1>3 DEF Environment, Connect, TimePasses, Send, Shut, PeerStep, Raise, kernel, signals,
              Flags
<1>4. ASSUME NEW w, WorkerStep(w) PROVE Flags'
  BY <1>4 DEF WorkerStep, Take, ProcessAny, Incomplete, Complete, BadRequest, NoFile, Process,
              kernel, signals, Flags
<1>5. CASE UNCHANGED vars
  BY <1>5 DEF vars, kernel, signals, Flags
<1> QED BY <1>1, <1>2, <1>3, <1>4, <1>5 DEF Next, MainStep

LEMMA ClosingContents ==
    ASSUME Typing, Contents, NEW i \in Fd \cup {Pipe}, Closes(i)
    PROVE  Contents'
<1>1. NewNet \in NetType /\ NewHttp \in HttpType
  BY EmptySeq DEF NewNet, NewHttp, NetType, HttpType
<1>2. CASE sockfd[i] = -1
  BY <1>2 DEF Closes, Contents, users
<1>3. CASE sockfd[i] # -1
  <2>1. sockfd[i] \in Fd
    BY <1>3 DEF Typing
  <2>2. /\ net' = [net EXCEPT ![sockfd[i]] = NewNet]
        /\ http' = [http EXCEPT ![sockfd[i]] = NewHttp]
    BY <1>3 DEF Closes
  <2> QED BY <1>1, <2>1, <2>2 DEF Contents
<1> QED BY <1>2, <1>3

LEMMA LeastOf ==
    ASSUME NEW n \in Nat
    PROVE  Min({1, n}) \in {1, n} /\ Min({1, n}) <= n
<1>1. \E x \in {1, n} : \A y \in {1, n} : x <= y
  BY LeastMember
<1> QED BY <1>1 DEF Min

LEMMA WriteContents == ASSUME IInv, Contents, NEW e, DealWrite(e) PROVE Contents'
<1>1. PICK f \in Fd : f = e.fd
  BY ForConnections DEF DealWrite, IInv
<1> DEFINE left == http[f].left - Fits(f)
<1>2. left \in 0 .. 2
  <2>1. http[f].left \in 0 .. 2
    BY DEF Contents, HttpType
  <2>2. Fits(f) \in {1, http[f].left} /\ Fits(f) <= http[f].left
    BY <2>1, LeastOf DEF Fits
  <2> QED BY <2>1, <2>2
<1>3. net' = net /\ http' = [http EXCEPT ![f] = IF left > 0 THEN [@ EXCEPT !.left = left]
                                                           ELSE NewHttp]
  BY <1>1 DEF DealWrite
<1> HIDE DEF left
<1>4. NewHttp \in HttpType /\ [http[f] EXCEPT !.left = left] \in HttpType
  <2>1. http[f] \in HttpType
    BY DEF Contents
  <2> QED BY <1>2, <2>1, EmptySeq DEF NewHttp, HttpType
<1> QED BY <1>3, <1>4 DEF Contents

LEMMA ReadContents == ASSUME IInv, Contents, NEW e, DealRead(e) PROVE Contents'
<1>1. PICK f \in Fd : f = e.fd
  BY ForConnections DEF DealRead, IInv
<1>2. net[f] \in NetType /\ http[f] \in HttpType
  BY DEF Contents
<1>3. http[f].rest \o net[f].in \in Seq(Piece)
  BY <1>2, ConcatProperties DEF NetType, HttpType
<1>4. /\ [http[f] EXCEPT !.rest = http[f].rest \o net[f].in] \in HttpType
      /\ [net[f] EXCEPT !.in = <<>>] \in NetType
  BY <1>2, <1>3, EmptySeq DEF NetType, HttpType
<1>5. /\ http' = [http EXCEPT ![f] = [http[f] EXCEPT !.rest = http[f].rest \o net[f].in]]
      /\ net' = [net EXCEPT ![f] = [net[f] EXCEPT !.in = <<>>]]
  BY <1>1 DEF DealRead
<1> QED BY <1>4, <1>5 DEF Contents

LEMMA AfterEndType ==
    ASSUME NEW f \in Fd, http[f].rest \in Seq(Piece), Ends(f) # {}
    PROVE  AfterEnd(f) \in Seq(Piece)
<1> DEFINE s == http[f].rest
<1>1. Len(s) \in Nat /\ \A i \in 1 .. Len(s) : s[i] \in Piece
  BY LenProperties, ElementOfSeq
<1>2. Ends(f) \in SUBSET Nat
  BY <1>1 DEF Ends
<1>3. \E x \in Ends(f) : \A y \in Ends(f) : x <= y
  BY <1>2, LeastMember
<1>4. Min(Ends(f)) \in Ends(f)
  BY <1>3 DEF Min
<1>5. Min(Ends(f)) + 1 \in Int /\ \A i \in Min(Ends(f)) + 1 .. Len(s) : s[i] \in Piece
  BY <1>1, <1>2, <1>4
<1> QED BY <1>1, <1>5, SubSeqProperties DEF AfterEnd

LEMMA ProcessContents ==
    ASSUME Contents, NEW w, NEW f \in Fd, ProcessAny(w, f) PROVE Contents'
<1>1. http[f] \in HttpType /\ http[f].rest \in Seq(Piece) /\ <<>> \in Seq(Piece)
  BY EmptySeq DEF Contents, HttpType
<1>2. Ends(f) # {} => AfterEnd(f) \in Seq(Piece)
  BY <1>1, AfterEndType
<1>3. \E new \in HttpType : http' = [http EXCEPT ![f] = new]
  <2>1. CASE Incomplete(w, f)
    BY <1>1, <2>1 DEF Incomplete, Process, HttpType
  <2>2. CASE Complete(w, f)
    <3>1. PICK keep \in BOOLEAN :
              http' = [http EXCEPT ![f] = [http[f] EXCEPT !.rest = AfterEnd(f), !.left = 2,
                                                          !.linger = keep]]
      BY <2>2 DEF Complete, Process
    <3>2. AfterEnd(f) \in Seq(Piece) /\ 2 \in 0 .. 2
      BY <1>2, <2>2 DEF Complete
    <3>3. [http[f] EXCEPT !.rest = AfterEnd(f), !.left = 2, !.linger = keep] \in HttpType
      BY <1>1, <3>2 DEF HttpType
    <3> QED BY <3>1, <3>3
  <2>3. CASE BadRequest(w, f)
    <3>1. http' = [http EXCEPT ![f] = [http[f] EXCEPT !.rest = <<>>, !.left = 2]]
      BY <2>3 DEF BadRequest, Process
    <3>2. \A h \in HttpType, s \in Seq(Piece), n \in 0 .. 2 :
              [h EXCEPT !.rest = s, !.left = n] \in HttpType
      BY DEF HttpType
    <3>3. 2 \in 0 .. 2
      OBVIOUS
    <3>4. [http[f] EXCEPT !.rest = <<>>, !.left = 2] \in HttpType
      BY <1>1, <3>2, <3>3
    <3> QED BY <3>1, <3>4
  <2>4. CASE NoFile(w, f)
    BY <1>1, <1>2, <2>4 DEF NoFile, Process, HttpType
  <2> QED BY <2>1, <2>2, <2>3, <2>4 DEF ProcessAny
<1>4. net' = net
  BY DEF ProcessAny, Incomplete, Complete, BadRequest, NoFile, Process
<1> QED BY <1>3, <1>4 DEF Contents

LEMMA PeerContents ==
    ASSUME Contents, NEW f \in Fd, Send(f) \/ Shut(f) PROVE Contents'
<1>1. net[f] \in NetType
  BY DEF Contents
<1>2. \E new \in NetType : net' = [net EXCEPT ![f] = new]
  <2>1. CASE Shut(f)
    BY <1>1, <2>1 DEF Shut, PeerStep, NetType
  <2>2. CASE Send(f)
    <3>1. PICK p \in Piece : PeerStep(f, [net[f] EXCEPT !.in = Append(@, p), !.sent = @ + 1])
      BY <2>2 DEF Send, Piece
    <3>2. Append(net[f].in, p) \in Seq(Piece) /\ net[f].sent + 1 \in Nat
      BY <1>1, AppendProperties DEF NetType
    <3> QED BY <1>1, <3>1, <3>2 DEF PeerStep, NetType
  <2> QED BY <2>1, <2>2
<1>3. http' = http
  BY DEF Send, Shut, PeerStep, users
<1> QED BY <1>2, <1>3 DEF Contents

LEMMA ContentsStep == IInv /\ Contents /\ [Next]_vars => Contents'
<1> SUFFICES ASSUME IInv, Contents, [Next]_vars PROVE Contents'
  OBVIOUS
<1>1. ASSUME NEW e, HandleEvent(e) PROVE Contents'
  <2>1. CASE CloseConn(e) \/ DealReadFails(e) \/ DealWriteEnds(e)
    <3>1. e.fd \in Fd /\ Closes(e.fd)
      BY <2>1, ForConnections DEF IInv, CloseConn, DealReadFails, DealWriteEnds, Drop
    <3> QED BY <3>1, ClosingContents DEF IInv
  <2>2. CASE HandlePipe(e)
    <3>1. UNCHANGED <<net, http>> \/ Closes(Pipe)
      BY <2>2 DEF HandlePipe, users
    <3>2. CASE UNCHANGED <<net, http>>
      BY <3>2 DEF Contents
    <3> QED BY <3>1, <3>2, ClosingContents DEF IInv
  <2>3. ASSUME NEW f \in Fd, AddClient(e, f) PROVE Contents'
    <3>1. NewNet \in NetType /\ NewHttp \in HttpType
      BY EmptySeq DEF NewNet, NewHttp, NetType, HttpType
    <3>2. net' = [net EXCEPT ![f] = NewNet] /\ http' = [http EXCEPT ![f] = NewHttp]
      BY <2>3 DEF AddClient
    <3> QED BY <3>1, <3>2 DEF Contents
  <2>4. CASE Busy(e)
    BY <2>4 DEF Busy, users, Contents
  <2> QED BY <1>1, <2>1, <2>2, <2>3, <2>4, ReadContents, WriteContents
          DEF HandleEvent, DealListen
<1>2. CASE Poll \/ EventsDone
  BY <1>2 DEF Poll, EventsDone, kernel, users, Contents
<1>3. CASE Environment
  <2>1. CASE \E f \in Fd : Send(f) \/ Shut(f)
    BY <2>1, PeerContents
  <2>2. CASE ~\E f \in Fd : Send(f) \/ Shut(f)
    BY <1>3, <2>2 DEF Environment, Connect, TimePasses, Raise, kernel, users, Contents
  <2> QED BY <2>1, <2>2
<1>4. ASSUME NEW w, WorkerStep(w) PROVE Contents'
  <2>1. CASE Take(w)
    BY <2>1 DEF Take, kernel, users, Contents
  <2> QED BY <1>4, <2>1, ProcessContents DEF WorkerStep
<1>5. CASE UNCHANGED vars
  BY <1>5 DEF vars, kernel, users, Contents
<1> QED BY <1>1, <1>2, <1>3, <1>4, <1>5 DEF Next, MainStep

LEMMA EventTypes ==
    Contents /\ batch \subseteq EventType /\ [Next]_vars => (batch \subseteq EventType)'
<1> SUFFICES ASSUME Contents, batch \subseteq EventType, [Next]_vars
             PROVE  batch' \subseteq EventType
  OBVIOUS
<1>1. CASE Poll
  <2>1. \A f \in Fd : Event(f) \in EventType
    BY DEF Contents, NetType, Event, EventType
  <2>2. \A f \in Rung : Special(f) \in EventType
    BY DEF Rung, Special, EventType
  <2>3. PICK fs \in SUBSET Fd : batch' = Reports(fs)
    BY <1>1 DEF Poll, Due, Writable
  <2> QED BY <2>1, <2>2, <2>3 DEF Reports
<1>2. ASSUME NEW e, HandleEvent(e) PROVE batch' \subseteq batch
  BY <1>2 DEF HandleEvent, DealListen, AddClient, Busy, CloseConn, DealRead, DealReadFails,
              DealWrite, DealWriteEnds, HandlePipe, Handling
<1>3. CASE EventsDone \/ Environment \/ \E w \in Worker : WorkerStep(w)
  BY <1>3 DEF EventsDone, Environment, Connect, TimePasses, Send, Shut, PeerStep, Raise,
              WorkerStep, Take, ProcessAny, Incomplete, Complete, BadRequest, NoFile, Process
<1>4. CASE UNCHANGED vars
  BY <1>4 DEF vars
<1> QED BY <1>1, <1>2, <1>3, <1>4 DEF Next, MainStep

\* Accepting takes one connection from the backlog, and the event with it.
LEMMA Accepted ==
    ASSUME IInv, Backlog, NEW e, Handling(e, "listen"), waiting' = waiting - 1,
           UNCHANGED <<main, arrivals, bell>>
    PROVE  Backlog' /\ waiting >= 1
<1>1. InBatch(Listener) /\ ~InBatch(Listener)'
  <2>1. e.fd = Listener
    BY DEF Handling, Branch
  <2> QED BY <2>1, Handled DEF IInv
<1> QED BY <1>1 DEF Backlog

LEMMA BacklogKept ==
    ASSUME Backlog, UNCHANGED <<arrivals, waiting, bell>>, InBatch(Listener)' => InBatch(Listener)
    PROVE  Backlog'
BY DEF Backlog

LEMMA BacklogStep == IInv /\ Backlog /\ [Next]_vars => Backlog'
<1> SUFFICES ASSUME IInv, Backlog, [Next]_vars PROVE Backlog'
  OBVIOUS
<1>1. CASE Poll
  <2>1. UNCHANGED <<arrivals, waiting>> /\ bell' = FALSE
    BY <1>1 DEF Poll
  <2>2. InBatch(Listener)' => bell
    <3>1. PICK fs \in SUBSET Fd : batch' = Reports(fs)
      BY <1>1 DEF Poll, Due, Writable
    <3>2. \A d \in batch' : d.fd = Listener => bell
      BY <3>1, Descriptors DEF Reports, Event, Special, Rung
    <3> QED BY <3>2 DEF InBatch
  <2> QED BY <2>1, <2>2 DEF Backlog
<1>2. ASSUME NEW e, HandleEvent(e) PROVE Backlog'
  <2>1. CASE DealListen(e)
    <3>1. Handling(e, "listen") /\ waiting' = waiting - 1 /\ UNCHANGED <<main, arrivals, bell>>
      BY <2>1 DEF DealListen, AddClient, Busy
    <3> QED BY <3>1, Accepted
  <2>2. CASE ~DealListen(e)
    <3>1. UNCHANGED <<arrivals, waiting, bell>> /\ batch' \subseteq batch
      BY <1>2, <2>2 DEF HandleEvent, CloseConn, DealRead, DealReadFails, DealWrite,
                        DealWriteEnds, HandlePipe, Handling
    <3> QED BY <3>1, BacklogKept DEF InBatch
  <2> QED BY <2>1, <2>2
<1>3. CASE Connect
  <2>1. /\ arrivals' = arrivals + 1 /\ arrivals < NumTimers /\ waiting' = waiting + 1
        /\ InBatch(Listener)' <=> InBatch(Listener)
    BY <1>3 DEF Connect, InBatch
  <2> QED BY <2>1, SizesAssumption DEF Backlog
<1>4. CASE EventsDone \/ (Environment /\ ~Connect) \/ \E w \in Worker : WorkerStep(w)
  <2>1. UNCHANGED <<arrivals, waiting, bell, batch>>
    BY <1>4 DEF EventsDone, Environment, TimePasses, Send, Shut, PeerStep, Raise, WorkerStep,
                Take, ProcessAny, Incomplete, Complete, BadRequest, NoFile, Process, kernel
  <2> QED BY <2>1, BacklogKept DEF InBatch
<1>5. CASE UNCHANGED vars
  <2>1. UNCHANGED <<arrivals, waiting, bell, batch>>
    BY <1>5 DEF vars, kernel
  <2> QED BY <2>1, BacklogKept DEF InBatch
<1> QED BY <1>1, <1>2, <1>3, <1>4, <1>5 DEF Next, MainStep

\* A set of descriptors that gains or loses one.
LEMMA CountClients ==
    /\ IsFiniteSet(Client) /\ Cardinality(Client) \in Nat
    /\ \A f : /\ Cardinality(Client \cup {f}) = IF f \in Client THEN Cardinality(Client)
                                                  ELSE Cardinality(Client) + 1
              /\ Cardinality(Client \ {f}) = IF f \in Client THEN Cardinality(Client) - 1
                                                ELSE Cardinality(Client)
<1>1. IsFiniteSet(Fd)
  BY SizesAssumption, FS_Interval DEF Fd
<1>2. IsFiniteSet(Client)
  BY <1>1, FS_Subset DEF Client
<1> QED BY <1>2, FS_CardinalityType, FS_AddElement, FS_RemoveElement

LEMMA UsersKept ==
    ASSUME Users, \A f \in Fd : reg'[f] = "none" <=> reg[f] = "none",
           UNCHANGED <<sockfd, user_count>>
    PROVE  Users'
<1>1. Client' = Client
  BY DEF Client
<1> QED BY <1>1 DEF Users

LEMMA UsersEnd ==
    ASSUME IInv, Users, NEW e, CloseConn(e) \/ DealReadFails(e) \/ DealWriteEnds(e)
    PROVE  Users'
<1>1. PICK b \in {"close", "read", "write"} :
          Handling(e, b) /\ (b = "read" => e.fd # Pipe) /\ Closes(e.fd)
  BY DEF CloseConn, DealReadFails, DealWriteEnds, Drop
<1>2. PICK f \in Fd : f = e.fd
  BY <1>1, ForConnections DEF IInv
<1>3. reg[f] # "none" /\ sockfd[f] = f
  <2>1. InBatch(f)
    BY <1>1, <1>2 DEF Handling, InBatch
  <2> QED BY <2>1 DEF IInv, One, Exactly, Counted, Sockets
<1>4. /\ reg' = [reg EXCEPT ![f] = "none"] /\ sockfd' = [sockfd EXCEPT ![f] = -1]
      /\ user_count' = user_count - 1
  BY <1>1, <1>2, <1>3, Descriptors DEF Closes
<1>5. Client' = Client \ {f} /\ f \in Client /\ sockfd'[Pipe] = sockfd[Pipe]
  BY <1>3, <1>4, Descriptors DEF IInv, Typing, Client
<1>6. Cardinality(Client') = Cardinality(Client) - 1 /\ Cardinality(Client) \in Nat
  BY <1>5, CountClients
<1> QED BY <1>4, <1>5, <1>6, SizesAssumption DEF Users

LEMMA UsersStep == IInv /\ Users /\ [Next]_vars => Users'
<1> SUFFICES ASSUME IInv, Users, [Next]_vars PROVE Users'
  OBVIOUS
<1>1. ASSUME NEW e, HandleEvent(e) PROVE Users'
  <2>1. ASSUME NEW f \in Fd, AddClient(e, f) PROVE Users'
    <3>1. /\ reg' = [reg EXCEPT ![f] = "in"] /\ sockfd' = [sockfd EXCEPT ![f] = f]
          /\ user_count' = user_count + 1 /\ user_count < MaxUsers /\ f \notin open
      BY <2>1 DEF AddClient
    <3>2. Client' = Client \cup {f} /\ f \notin Client /\ sockfd'[Pipe] = sockfd[Pipe]
      BY <3>1, Descriptors DEF IInv, Typing, Sockets, Client
    <3>3. Cardinality(Client') = Cardinality(Client) + 1 /\ Cardinality(Client) \in Nat
      BY <3>2, CountClients
    <3> QED BY <3>1, <3>2, <3>3, SizesAssumption DEF Users
  <2>2. CASE Busy(e) \/ DealRead(e)
    BY <2>2, UsersKept DEF Busy, DealRead, users
  <2>3. CASE DealWrite(e)
    <3>1. PICK f \in Fd : f = e.fd
      BY <2>3, ForConnections DEF DealWrite, IInv
    <3>2. /\ UNCHANGED <<sockfd, user_count>>
          /\ \E new \in {"in", "out"} : reg' = [reg EXCEPT ![f] = new]
      BY <2>3, <3>1 DEF DealWrite
    <3>3. InBatch(f) /\ reg[f] # "none"
      <4>1. InBatch(f)
        BY <2>3, <3>1 DEF DealWrite, Handling, InBatch
      <4> QED BY <4>1 DEF IInv, One, Exactly, Counted
    <3> QED BY <3>2, <3>3, UsersKept DEF IInv, Typing
  <2>4. CASE HandlePipe(e)
    <3>1. CASE UNCHANGED <<reg, sockfd, user_count>>
      BY <3>1, UsersKept
    <3>2. CASE ~UNCHANGED <<reg, sockfd, user_count>>
      <4>1. Closes(Pipe) /\ sockfd[Pipe] = Stdin /\ reg[Stdin] = "none"
        BY <2>4, <3>2 DEF HandlePipe, Closes, users, IInv, Sockets
      <4>2. /\ reg' = [reg EXCEPT ![Stdin] = "none"]
            /\ sockfd' = [sockfd EXCEPT ![Pipe] = -1]
            /\ user_count' = user_count - 1
        BY <4>1, Descriptors DEF Closes
      <4>3. Client' = Client /\ sockfd'[Pipe] # Stdin
        BY <4>1, <4>2, Descriptors DEF IInv, Typing, Client
      <4> QED BY <4>1, <4>2, <4>3, CountClients, SizesAssumption DEF Users
    <3> QED BY <3>1, <3>2
  <2> QED BY <1>1, <2>1, <2>2, <2>3, <2>4, UsersEnd DEF HandleEvent, DealListen
<1>2. CASE Poll
  <2>1. \A f \in Fd : reg'[f] = "none" <=> reg[f] = "none"
    BY <1>2 DEF Poll, AfterReport, Due, Writable
  <2> QED BY <1>2, <2>1, UsersKept DEF Poll, users
<1>3. ASSUME NEW w \in Worker, NEW f \in Fd, ProcessAny(w, f) PROVE Users'
  <2>1. PICK want \in {"in", "out"} :
            reg' = [reg EXCEPT ![f] = IF reg[f] = "none" THEN reg[f] ELSE want]
    BY <1>3 DEF ProcessAny, Incomplete, Complete, BadRequest, NoFile, Process, Wanted
  <2>2. UNCHANGED <<sockfd, user_count>>
    BY <1>3 DEF ProcessAny, Incomplete, Complete, BadRequest, NoFile, Process
  <2> QED BY <2>1, <2>2, UsersKept DEF IInv, Typing
<1>4. CASE EventsDone \/ Environment \/ UNCHANGED vars \/ \E w \in Worker : Take(w)
  <2>1. UNCHANGED <<reg, sockfd, user_count>>
    BY <1>4 DEF EventsDone, Environment, Connect, TimePasses, Send, Shut, PeerStep, Raise, vars,
                Take, kernel, users
  <2> QED BY <2>1, UsersKept
<1> QED BY <1>1, <1>2, <1>3, <1>4 DEF Next, MainStep, WorkerStep

LEMMA RestStep ==
    IInv /\ Backlog /\ Rest /\ [Next]_vars => Rest'
<1> SUFFICES ASSUME IInv, Backlog, Rest, [Next]_vars PROVE Rest'
  OBVIOUS
<1>1. ASSUME NEW e, HandleEvent(e) PROVE Rest'
  <2>1. ASSUME NEW f \in Fd, AddClient(e, f) PROVE Rest'
    <3>1. /\ Handling(e, "listen") /\ waiting' = waiting - 1
          /\ timerOf' = [timerOf EXCEPT ![f] = arrivals - waiting + 1]
          /\ UNCHANGED <<main, arrivals, bell, pipe, now, queue>>
      BY <2>1 DEF AddClient, signals, pool
    <3>2. waiting >= 1
      BY <3>1, Accepted
    <3>3. arrivals - waiting + 1 \in Timer
      BY <3>2, SizesAssumption DEF Backlog, Timer
    <3> QED BY <3>1, <3>3 DEF Rest
  <2>2. CASE DealRead(e)
    <3>1. /\ UNCHANGED <<pipe, timerOf, now>>
          /\ \/ UNCHANGED queue
             \/ ~Full /\ queue' = Append(queue, e.fd)
      BY <2>2 DEF DealRead, Adjust, signals
    <3>2. queue \in Seq(Fd) /\ Len(queue) \in Nat /\ e.fd \in Fd
      BY <2>2, LenProperties, ForConnections DEF DealRead, IInv, Typing
    <3>3. Len(queue') <= MaxRequests + 1
      BY <3>1, <3>2, SizesAssumption, AppendProperties DEF Rest, Full
    <3> QED BY <3>1, <3>3 DEF Rest
  <2>3. CASE HandlePipe(e)
    BY <2>3 DEF HandlePipe, Closes, clock, pool, Rest
  <2> QED BY <1>1, <2>1, <2>2, <2>3 DEF HandleEvent, DealListen, Busy, CloseConn, DealReadFails,
             DealWrite, DealWriteEnds, Drop, Adjust, signals, clock, pool, Rest
<1>2. ASSUME NEW w, Take(w) PROVE Rest'
  <2>1. UNCHANGED <<pipe, timerOf, now>> /\ queue' = Tail(queue) /\ sem > 0
    BY <1>2 DEF Take, signals, clock
  <2>2. queue \in Seq(Fd) /\ queue # <<>>
    BY <2>1, EmptySeq DEF IInv, Typing
  <2>3. Len(queue) = Len(queue') + 1 /\ Len(queue') \in Nat
    BY <2>1, <2>2, SplitHead, LenProperties
  <2> QED BY <2>1, <2>3, SizesAssumption DEF Rest
<1>3. ASSUME NEW w, NEW f, ProcessAny(w, f) PROVE Rest'
  BY <1>3 DEF ProcessAny, Incomplete, Complete, BadRequest, NoFile, Process, signals, clock, Rest
<1>4. CASE Poll \/ EventsDone \/ UNCHANGED vars
  BY <1>4 DEF Poll, EventsDone, vars, signals, clock, pool, Rest
<1>5. CASE TimePasses
  BY <1>5, SizesAssumption DEF TimePasses, signals, pool, Rest
<1>6. CASE Environment /\ ~TimePasses
  BY <1>6 DEF Environment, Connect, Send, Shut, PeerStep, Raise, signals, clock, pool, Rest
<1> QED BY <1>1, <1>2, <1>3, <1>4, <1>5, <1>6 DEF Next, MainStep, WorkerStep

TInv == /\ IInv
        /\ Flags
        /\ Contents
        /\ batch \subseteq EventType
        /\ Backlog
        /\ Users
        /\ Rest

LEMMA TypesInit == Init => TInv
<1> SUFFICES ASSUME Init PROVE TInv
  OBVIOUS
<1>1. Flags /\ batch \subseteq EventType
  BY DEF Init, Flags
<1>2. NewNet \in NetType /\ NewHttp \in HttpType
  BY EmptySeq DEF NewNet, NewHttp, NetType, HttpType
<1>3. Contents
  BY <1>2 DEF Init, Contents
<1>4. Backlog
  BY SizesAssumption DEF Init, Backlog, InBatch
<1>5. Users
  <2>1. Client = {}
    BY DEF Init, Client
  <2>2. Cardinality(Client) = 0
    BY <2>1, FS_EmptySet
  <2>3. sockfd[Pipe] = Stdin /\ user_count = 0
    BY DEF Init, Stdin
  <2>4. 0 <= MaxUsers
    BY SizesAssumption
  <2> QED BY <2>2, <2>3, <2>4 DEF Users
<1>6. Rest
  <2>1. Len(queue) = 0
    BY EmptySeq DEF Init
  <2> QED BY <2>1, SizesAssumption DEF Init, Rest
<1> QED BY <1>1, <1>3, <1>4, <1>5, <1>6, Init0 DEF TInv

LEMMA TypesStep == TInv /\ [Next]_vars => TInv'
BY NextStep, FlagsStep, ContentsStep, EventTypes, BacklogStep, UsersStep, RestStep DEF TInv

(***************************************************************************)
(* The variables keep their types: the queue of the pool never has more    *)
(* than max_requests + 1 requests and the semaphore says how many          *)
(* (threadpool.h), and m_user_count stays between -1, when the pipe was    *)
(* closed as a connection, and MAX_FD.                                     *)
(***************************************************************************)
THEOREM TypeCorrect == Spec => []TypeOK
<1>1. TInv => TypeOK
  <2> SUFFICES ASSUME TInv PROVE TypeOK
    OBVIOUS
  <2>1. \A f \in Fd : /\ net[f].in \in Seq({"part", "end"})
                     /\ http[f].rest \in Seq({"part", "end"})
                     /\ http[f].left \in 0 .. 2
    BY DEF TInv, Contents, NetType, HttpType, Piece
  <2>2. user_count \in -1 .. MaxUsers
    BY CountClients, SizesAssumption DEF TInv, Users
  <2>3. {stop_server, timeout, bell, pipeBell} \subseteq BOOLEAN
    BY DEF TInv, Flags
  <2>4. batch \in SUBSET [fd : Fd \cup {Pipe, Listener}, hup : BOOLEAN, in : BOOLEAN,
                          out : BOOLEAN]
    BY DEF TInv, EventType
  <2>5. waiting \in 0 .. arrivals
    BY DEF TInv, Backlog
  <2>6. /\ pipe \subseteq Signal /\ Len(queue) <= MaxRequests + 1
        /\ timerOf \in [Fd \cup {Pipe} -> Timer \cup {NULL}] /\ now \in 0 .. MaxTime
    BY DEF TInv, Rest
  <2>7. Typing
    BY DEF TInv, IInv
  <2> QED BY <2>1, <2>2, <2>3, <2>4, <2>5, <2>6, <2>7 DEF TypeOK, Typing
<1> QED BY <1>1, TypesInit, TypesStep, PTL DEF Spec

-------------------------------------------------------------------------------
(* The list of timers: what its operations make of a sound list.           *)

\* The links of a list of n timers, s[1] to s[n].
Links(L, n, s) ==
    /\ \A i, j \in 1 .. n : s[i] = s[j] => i = j
    /\ L.head = IF n = 0 THEN NULL ELSE s[1]
    /\ L.tail = IF n = 0 THEN NULL ELSE s[n]
    /\ \A i \in 1 .. n : L.next[s[i]] = IF i = n THEN NULL ELSE s[i + 1]
    /\ \A i \in 1 .. n : L.prev[s[i]] = IF i = 1 THEN NULL ELSE s[i - 1]

Ascending(L, n, s) == \A i, j \in 1 .. n : i < j => L.expire[s[i]] <= L.expire[s[j]]

Undeleted(L, n, s) == \A i \in 1 .. n : s[i] \notin L.deleted

SoundList(L, n, s) == Links(L, n, s) /\ Ascending(L, n, s) /\ Undeleted(L, n, s)

\* Nodes that are not in the list are left alone.
Outside(L, M, T) == \A u \in Timer \ T : M.next[u] = L.next[u] /\ M.prev[u] = L.prev[u]

ListType == [head : Timer \cup {NULL}, tail : Timer \cup {NULL},
             next : [Timer -> Timer \cup {NULL}], prev : [Timer -> Timer \cup {NULL}],
             expire : [Timer -> Nat], deleted : SUBSET Timer]

Latest(L, t) == \A u \in Timer : L.expire[u] <= L.expire[t]

Among(n, s) == {s[i] : i \in 1 .. n}

\* M is the sound list r[1] to r[n] now; of L's links and nodes it changes those of T.
Becomes(L, M, T, n, r) ==
    /\ M \in ListType /\ M.expire = L.expire /\ M.deleted \subseteq L.deleted \cup T
    /\ Outside(L, M, T)
    /\ SoundList(M, n, r)

LEMMA NoTimer == NULL \notin Timer
BY DEF NULL, Timer

\* The loop of add_timer/2 passes by all timers up to the tail, if none expires later.
LEMMA LatestPlace ==
    ASSUME NumTimers \in Nat, NEW L \in ListType, NEW n \in 1 .. NumTimers,
           NEW s \in [1 .. n -> Timer], Links(L, n, s), NEW t \in Timer, Latest(L, t), NEW k \in 1 .. n
    PROVE  Place(L, t, s[k]) = s[n]
<1> DEFINE turn == Pass(L, t)
           place == CHOOSE f : Repeats(turn, s[k], NumTimers, f)
<1>1. turn \in [Timer -> Timer]
  BY DEF Pass, ListType
<1>2. Repeats(turn, s[k], NumTimers, place)
  <2> HIDE DEF turn
  <2>1. \E f : Repeats(turn, s[k], NumTimers, f)
    BY <1>1, Iterated
  <2> QED BY <2>1
<1>3. Place(L, t, s[k]) = place[NumTimers]
  BY DEF Place, Repeats
<1>4. \A i \in 1 .. n : turn[s[i]] = IF i = n THEN s[n] ELSE s[i + 1]
  <2> SUFFICES ASSUME NEW i \in 1 .. n PROVE turn[s[i]] = IF i = n THEN s[n] ELSE s[i + 1]
    OBVIOUS
  <2>1. L.expire[t] \in Nat /\ \A u \in Timer : L.expire[u] \in Nat /\ L.expire[u] <= L.expire[t]
    BY DEF Latest, ListType
  <2>2. L.next[s[i]] = IF i = n THEN NULL ELSE s[i + 1]
    BY DEF Links
  <2>3. i # n => s[i + 1] \in Timer
    OBVIOUS
  <2> QED BY <2>1, <2>2, <2>3, NoTimer DEF Pass
<1> DEFINE T == {i \in 0 .. NumTimers : place[i] = s[IF k + i <= n THEN k + i ELSE n]}
<1>5. 0 .. NumTimers \subseteq T
  <2>1. 0 \in T
    <3> HIDE DEF turn, place
    <3> QED BY <1>2 DEF Repeats
  <2>2. ASSUME NEW i \in 1 .. NumTimers, i - 1 \in T PROVE i \in T
    <3> HIDE DEF turn, place
    <3>1. place[i] = turn[place[i - 1]]
      BY <1>2 DEF Repeats
    <3>2. CASE k + (i - 1) <= n
      <4>1. k + (i - 1) \in 1 .. n /\ place[i - 1] = s[k + (i - 1)] /\ i \in 0 .. NumTimers
        BY <2>2, <3>2
      <4>2. place[i] = IF k + (i - 1) = n THEN s[n] ELSE s[(k + (i - 1)) + 1]
        BY <1>4, <3>1, <4>1
      <4> QED BY <3>2, <4>1, <4>2
    <3>3. CASE ~(k + (i - 1) <= n)
      <4>1. place[i - 1] = s[n] /\ n \in 1 .. n /\ ~(k + i <= n) /\ i \in 0 .. NumTimers
        BY <2>2, <3>3
      <4>2. place[i] = s[n]
        BY <1>4, <3>1, <4>1
      <4> QED BY <4>1, <4>2
    <3> QED BY <3>2, <3>3
  <2> HIDE DEF T
  <2> QED BY <2>1, <2>2, UpTo
<1> HIDE DEF place
<1> QED BY <1>3, <1>5

\* What is found from the head are the timers of the list.
LEMMA LinkedTimers ==
    ASSUME NumTimers \in Nat, NEW L \in ListType, NEW n \in 0 .. NumTimers,
           NEW s \in [1 .. n -> Timer], Links(L, n, s)
    PROVE  Linked(L) = Among(n, s)
<1> DEFINE more == Onward(L)
           first == {L.head} \ {NULL}
           upto == CHOOSE f : Repeats(more, first, NumTimers, f)
           reach(i) == {s[j] : j \in {j \in 1 .. n : j <= i + 1}}
<1>1. more \in [SUBSET Timer -> SUBSET Timer] /\ first \in SUBSET Timer
  BY DEF Onward, ListType
<1>2. Repeats(more, first, NumTimers, upto)
  <2> HIDE DEF more, first
  <2>1. \E f : Repeats(more, first, NumTimers, f)
    BY <1>1, Iterated
  <2> QED BY <2>1
<1>3. Linked(L) = upto[NumTimers]
  BY DEF Linked, Repeats
<1>4. \A i \in Nat : more[reach(i)] = reach(i + 1)
  <2> SUFFICES ASSUME NEW i \in Nat PROVE more[reach(i)] = reach(i + 1)
    OBVIOUS
  <2>1. more[reach(i)] = reach(i) \cup ({L.next[t] : t \in reach(i)} \ {NULL})
    BY DEF Onward
  <2>2. ASSUME NEW u \in reach(i + 1) PROVE u \in more[reach(i)]
    <3>1. PICK j \in 1 .. n : j <= i + 2 /\ u = s[j]
      OBVIOUS
    <3>2. CASE j <= i + 1
      BY <2>1, <3>1, <3>2
    <3>3. CASE ~(j <= i + 1)
      <4>1. j - 1 \in 1 .. n /\ j - 1 <= i + 1 /\ j - 1 # n /\ (j - 1) + 1 = j
        BY <3>1, <3>3
      <4>2. s[j - 1] \in reach(i) /\ L.next[s[j - 1]] = u /\ u \in Timer
        BY <3>1, <4>1 DEF Links
      <4> HIDE DEF reach
      <4> QED BY <2>1, <4>2, NoTimer
    <3> QED BY <3>2, <3>3
  <2>3. ASSUME NEW u \in more[reach(i)] PROVE u \in reach(i + 1)
    <3>1. CASE u \in reach(i)
      BY <3>1
    <3>2. CASE u \notin reach(i)
      <4>1. PICK t \in reach(i) : u = L.next[t] /\ u # NULL
        BY <2>1, <2>3, <3>2
      <4>2. PICK j \in 1 .. n : j <= i + 1 /\ t = s[j]
        OBVIOUS
      <4>3. j # n /\ u = s[j + 1]
        BY <4>1, <4>2 DEF Links
      <4> QED BY <4>2, <4>3
    <3> QED BY <3>1, <3>2
  <2> QED BY <2>2, <2>3
<1>5. first = reach(0)
  <2>1. CASE n = 0
    BY <2>1 DEF Links
  <2>2. CASE n # 0
    <3>1. L.head = s[1] /\ 1 \in 1 .. n
      BY <2>2 DEF Links
    <3>2. \A j \in 1 .. n : j <= 0 + 1 => j = 1
      OBVIOUS
    <3> QED BY <3>1, <3>2, NoTimer
  <2> QED BY <2>1, <2>2
<1> DEFINE T == {i \in 0 .. NumTimers : upto[i] = reach(i)}
<1> HIDE DEF more, first, upto, reach
<1>6. 0 .. NumTimers \subseteq T
  <2>1. 0 \in T
    BY <1>2, <1>5 DEF Repeats
  <2>2. ASSUME NEW i \in 1 .. NumTimers, i - 1 \in T PROVE i \in T
    <3>1. upto[i] = more[upto[i - 1]] /\ i - 1 \in Nat /\ (i - 1) + 1 = i
      BY <1>2 DEF Repeats
    <3>2. more[upto[i - 1]] = reach(i)
      BY <1>4, <2>2, <3>1
    <3> QED BY <3>1, <3>2
  <2> HIDE DEF T
  <2> QED BY <2>1, <2>2, UpTo
<1>7. upto[NumTimers] = reach(NumTimers)
  BY <1>6
<1>8. reach(NumTimers) = Among(n, s)
  BY DEF reach, Among
<1> QED BY <1>3, <1>7, <1>8

-------------------------------------------------------------------------------
\* What an assignment to one field of the list, or of one timer, changes.
LEMMA SetHead ==
    ASSUME NEW L \in ListType, NEW v \in Timer \cup {NULL}
    PROVE  LET M == [L EXCEPT !.head = v]
           IN  /\ M \in ListType /\ M.head = v
               /\ M.tail = L.tail /\ M.next = L.next /\ M.prev = L.prev
               /\ M.expire = L.expire /\ M.deleted = L.deleted
BY DEF ListType

LEMMA SetTail ==
    ASSUME NEW L \in ListType, NEW v \in Timer \cup {NULL}
    PROVE  LET M == [L EXCEPT !.tail = v]
           IN  /\ M \in ListType /\ M.tail = v
               /\ M.head = L.head /\ M.next = L.next /\ M.prev = L.prev
               /\ M.expire = L.expire /\ M.deleted = L.deleted
BY DEF ListType

LEMMA SetNext ==
    ASSUME NEW L \in ListType, NEW p \in Timer, NEW v \in Timer \cup {NULL}
    PROVE  LET M == [L EXCEPT !.next[p] = v]
           IN  /\ M \in ListType /\ M.next = [L.next EXCEPT ![p] = v]
               /\ M.head = L.head /\ M.tail = L.tail /\ M.prev = L.prev
               /\ M.expire = L.expire /\ M.deleted = L.deleted
BY DEF ListType

LEMMA SetPrev ==
    ASSUME NEW L \in ListType, NEW p \in Timer, NEW v \in Timer \cup {NULL}
    PROVE  LET M == [L EXCEPT !.prev[p] = v]
           IN  /\ M \in ListType /\ M.prev = [L.prev EXCEPT ![p] = v]
               /\ M.head = L.head /\ M.tail = L.tail /\ M.next = L.next
               /\ M.expire = L.expire /\ M.deleted = L.deleted
BY DEF ListType

LEMMA SetExpire ==
    ASSUME NEW L \in ListType, NEW p \in Timer, NEW v \in Nat
    PROVE  LET M == [L EXCEPT !.expire[p] = v]
           IN  /\ M \in ListType /\ M.expire = [L.expire EXCEPT ![p] = v]
               /\ M.head = L.head /\ M.tail = L.tail /\ M.next = L.next
               /\ M.prev = L.prev /\ M.deleted = L.deleted
BY DEF ListType

LEMMA Delete ==
    ASSUME NEW L \in ListType, NEW p \in Timer
    PROVE  LET M == [L EXCEPT !.deleted = @ \cup {p}]
           IN  /\ M \in ListType /\ M.deleted = L.deleted \cup {p}
               /\ M.head = L.head /\ M.tail = L.tail /\ M.next = L.next
               /\ M.prev = L.prev /\ M.expire = L.expire
BY DEF ListType

-------------------------------------------------------------------------------
\* A timer that expires last, after the others, and a list without its kth timer.
With(s, n, t) == [i \in 1 .. n + 1 |-> IF i <= n THEN s[i] ELSE t]
Without(s, n, k) == [i \in 1 .. n - 1 |-> IF i < k THEN s[i] ELSE s[i + 1]]

LEMMA AppendLatest ==
    ASSUME NumTimers \in Nat, NEW L \in ListType, NEW n \in 1 .. NumTimers,
           NEW s \in [1 .. n -> Timer], Links(L, n, s), NEW t \in Timer, Latest(L, t),
           \A i \in 1 .. n : s[i] # t, NEW k \in 1 .. n, NEW M, M = add_timer_after(L, t, s[k])
    PROVE  /\ M \in ListType /\ M.expire = L.expire /\ M.deleted = L.deleted
           /\ Outside(L, M, {t, s[n]})
           /\ Links(M, n + 1, With(s, n, t))
<1> DEFINE r == With(s, n, t)
<1>1. Place(L, t, s[k]) = s[n] /\ L.next[s[n]] = NULL /\ s[n] \in Timer /\ s[n] # t
  <2>1. Place(L, t, s[k]) = s[n]
    BY LatestPlace
  <2>2. n \in 1 .. n /\ s[n] \in Timer /\ s[n] # t
    OBVIOUS
  <2>3. L.next[s[n]] = NULL
    BY <2>2 DEF Links
  <2> QED BY <2>1, <2>2, <2>3
<1> DEFINE L1 == [L EXCEPT !.next[s[n]] = t]
           L2 == [L1 EXCEPT !.prev[t] = s[n]]
           L3 == [L2 EXCEPT !.next[t] = NULL]
           L4 == [L3 EXCEPT !.tail = t]
<1>2. M = L4
  BY <1>1 DEF add_timer_after
<1>3. /\ M.head = L.head /\ M.tail = t /\ M.expire = L.expire /\ M.deleted = L.deleted
      /\ M.next = [L.next EXCEPT ![s[n]] = t, ![t] = NULL]
      /\ M.prev = [L.prev EXCEPT ![t] = s[n]]
      /\ M \in ListType
  <2>1. /\ L1 \in ListType /\ L1.next = [L.next EXCEPT ![s[n]] = t]
        /\ L1.head = L.head /\ L1.prev = L.prev /\ L1.expire = L.expire /\ L1.deleted = L.deleted
    BY <1>1, SetNext
  <2> HIDE DEF L1
  <2>2. /\ L2 \in ListType /\ L2.prev = [L.prev EXCEPT ![t] = s[n]] /\ L2.next = L1.next
        /\ L2.head = L.head /\ L2.expire = L.expire /\ L2.deleted = L.deleted
    BY <1>1, <2>1, SetPrev
  <2> HIDE DEF L2
  <2>3. /\ L3 \in ListType /\ L3.prev = L2.prev /\ L3.next = [L1.next EXCEPT ![t] = NULL]
        /\ L3.head = L.head /\ L3.expire = L.expire /\ L3.deleted = L.deleted
    BY <2>2, SetNext
  <2> HIDE DEF L3
  <2>4. /\ L4 \in ListType /\ L4.prev = L2.prev /\ L4.next = L3.next /\ L4.tail = t
        /\ L4.head = L.head /\ L4.expire = L.expire /\ L4.deleted = L.deleted
    BY <2>3, SetTail
  <2> HIDE DEF L4
  <2> QED BY <1>2, <2>1, <2>2, <2>3, <2>4
<1>4. /\ M.next[s[n]] = t /\ M.next[t] = NULL /\ M.prev[t] = s[n]
      /\ \A u \in Timer \ {s[n], t} : M.next[u] = L.next[u]
      /\ \A u \in Timer \ {t} : M.prev[u] = L.prev[u]
  BY <1>1, <1>3 DEF ListType
<1>5. (\A i \in 1 .. n : r[i] = s[i]) /\ r[n + 1] = t /\ n + 1 \in 1 .. n + 1
  BY DEF With
<1> HIDE DEF r
<1>6. \A i \in 1 .. n + 1 : i \in 1 .. n \/ i = n + 1
  OBVIOUS
<1>7. \A i, j \in 1 .. n + 1 : r[i] = r[j] => i = j
  BY <1>5, <1>6 DEF Links
<1>8. \A i \in 1 .. n + 1 : M.next[r[i]] = IF i = n + 1 THEN NULL ELSE r[i + 1]
  <2> SUFFICES ASSUME NEW i \in 1 .. n + 1
               PROVE  M.next[r[i]] = IF i = n + 1 THEN NULL ELSE r[i + 1]
    OBVIOUS
  <2>1. CASE i = n + 1
    BY <1>4, <1>5, <2>1
  <2>2. CASE i = n
    BY <1>4, <1>5, <2>2
  <2>3. CASE i \in 1 .. n - 1
    <3>1. i \in 1 .. n /\ i + 1 \in 1 .. n /\ r[i] = s[i] /\ r[i + 1] = s[i + 1] /\ i # n
      BY <1>5, <2>3
    <3>2. s[i] # s[n] /\ s[i] # t /\ s[i] \in Timer
      BY <3>1 DEF Links
    <3>3. M.next[s[i]] = s[i + 1]
      BY <1>4, <3>1, <3>2 DEF Links
    <3> QED BY <3>1, <3>3
  <2> QED BY <2>1, <2>2, <2>3
<1>9. \A i \in 1 .. n + 1 : M.prev[r[i]] = IF i = 1 THEN NULL ELSE r[i - 1]
  <2> SUFFICES ASSUME NEW i \in 1 .. n + 1
               PROVE  M.prev[r[i]] = IF i = 1 THEN NULL ELSE r[i - 1]
    OBVIOUS
  <2>1. CASE i = n + 1
    BY <1>4, <1>5, <2>1
  <2>2. CASE i \in 1 .. n
    <3>1. r[i] = s[i] /\ s[i] # t /\ s[i] \in Timer /\ (i # 1 => r[i - 1] = s[i - 1])
      BY <1>5, <2>2
    <3>2. M.prev[s[i]] = IF i = 1 THEN NULL ELSE s[i - 1]
      BY <1>4, <2>2, <3>1 DEF Links
    <3> QED BY <3>1, <3>2
  <2> QED BY <2>1, <2>2
<1>10. M.head = r[1] /\ M.tail = r[n + 1]
  BY <1>3, <1>5 DEF Links
<1>11. Links(M, n + 1, r)
  BY <1>7, <1>8, <1>9, <1>10 DEF Links
<1> QED BY <1>3, <1>4, <1>11 DEF r, Outside

\* The neighbours of the kth timer, or the head and the tail, are linked past it.
Bypassed(L, M, n, s, k) ==
    /\ M.head = IF k = 1 THEN s[2] ELSE L.head
    /\ M.tail = IF k = n THEN s[n - 1] ELSE L.tail
    /\ \A u \in Timer \ {s[k]} :
          /\ M.next[u] = IF k > 1 /\ u = s[k - 1] THEN L.next[s[k]] ELSE L.next[u]
          /\ M.prev[u] = IF k < n /\ u = s[k + 1] THEN L.prev[s[k]] ELSE L.prev[u]

LEMMA Cut ==
    ASSUME NEW L, NEW M, NEW n \in Nat, n >= 2, NEW s \in [1 .. n -> Timer], Links(L, n, s),
           NEW k \in 1 .. n, Bypassed(L, M, n, s, k)
    PROVE  Links(M, n - 1, Without(s, n, k))
<1> DEFINE r == Without(s, n, k)
           at(i) == IF i < k THEN i ELSE i + 1
<1>1. \A i \in 1 .. n - 1 : at(i) \in 1 .. n /\ at(i) # k /\ r[i] = s[at(i)]
  BY DEF Without
<1>2. \A i \in 1 .. n - 1 : r[i] \in Timer \ {s[k]}
  BY <1>1 DEF Links
<1>3. \A i, j \in 1 .. n - 1 : r[i] = r[j] => i = j
  <2> SUFFICES ASSUME NEW i \in 1 .. n - 1, NEW j \in 1 .. n - 1, r[i] = r[j] PROVE i = j
    OBVIOUS
  <2>1. at(i) = at(j)
    BY <1>1 DEF Links
  <2> QED BY <2>1
<1>4. r[1] = (IF k = 1 THEN s[2] ELSE s[1]) /\ r[n - 1] = IF k = n THEN s[n - 1] ELSE s[n]
  BY DEF Without
<1>5. M.head = r[1] /\ M.tail = r[n - 1]
  BY <1>4 DEF Links, Bypassed
<1> HIDE DEF r
<1>6. ASSUME NEW i \in 1 .. n - 1
      PROVE  M.next[r[i]] = IF i = n - 1 THEN NULL ELSE r[i + 1]
  <2>1. r[i] = s[at(i)] /\ at(i) \in 1 .. n /\ (i # n - 1 => r[i + 1] = s[at(i + 1)])
    BY <1>1
  <2>2. M.next[r[i]] = IF k > 1 /\ r[i] = s[k - 1] THEN L.next[s[k]] ELSE L.next[r[i]]
    BY <1>2 DEF Bypassed
  <2>3. CASE k > 1 /\ i = k - 1
    <3>1. r[i] = s[k - 1] /\ (i = n - 1 <=> k = n) /\ (i # n - 1 => r[i + 1] = s[k + 1])
      BY <2>1, <2>3
    <3>2. L.next[s[k]] = IF k = n THEN NULL ELSE s[k + 1]
      BY DEF Links
    <3> QED BY <2>2, <2>3, <3>1, <3>2
  <2>4. CASE ~(k > 1 /\ i = k - 1)
    <3>1. ~(k > 1 /\ r[i] = s[k - 1])
      <4>1. k > 1 => k - 1 \in 1 .. n /\ at(i) # k - 1
        BY <2>4
      <4> QED BY <2>1, <4>1 DEF Links
    <3>2. (at(i) = n <=> i = n - 1) /\ (i # n - 1 => at(i + 1) = at(i) + 1)
      BY <2>4
    <3>3. L.next[s[at(i)]] = IF at(i) = n THEN NULL ELSE s[at(i) + 1]
      BY <2>1 DEF Links
    <3> QED BY <2>1, <2>2, <3>1, <3>2, <3>3
  <2> QED BY <2>3, <2>4
<1>7. ASSUME NEW i \in 1 .. n - 1
      PROVE  M.prev[r[i]] = IF i = 1 THEN NULL ELSE r[i - 1]
  <2>1. r[i] = s[at(i)] /\ at(i) \in 1 .. n /\ (i # 1 => r[i - 1] = s[at(i - 1)])
    BY <1>1
  <2>2. M.prev[r[i]] = IF k < n /\ r[i] = s[k + 1] THEN L.prev[s[k]] ELSE L.prev[r[i]]
    BY <1>2 DEF Bypassed
  <2>3. CASE i = k
    <3>1. r[i] = s[k + 1] /\ k < n /\ (i # 1 => r[i - 1] = s[k - 1])
      BY <2>1, <2>3
    <3>2. L.prev[s[k]] = IF k = 1 THEN NULL ELSE s[k - 1]
      BY DEF Links
    <3> QED BY <2>2, <2>3, <3>1, <3>2
  <2>4. CASE i # k
    <3>1. ~(k < n /\ r[i] = s[k + 1])
      <4>1. k < n => k + 1 \in 1 .. n /\ at(i) # k + 1
        BY <2>4
      <4> QED BY <2>1, <4>1 DEF Links
    <3>2. (at(i) = 1 <=> i = 1) /\ (i # 1 => at(i - 1) = at(i) - 1)
      BY <2>4
    <3>3. L.prev[s[at(i)]] = IF at(i) = 1 THEN NULL ELSE s[at(i) - 1]
      BY <2>1 DEF Links
    <3> QED BY <2>1, <2>2, <3>1, <3>2, <3>3
  <2> QED BY <2>3, <2>4
<1> QED BY <1>3, <1>5, <1>6, <1>7 DEF Links, r

-------------------------------------------------------------------------------
\* A new timer that expires last goes to the end of the list.
LEMMA Added ==
    ASSUME NumTimers \in Nat, NEW L \in ListType, NEW n \in 0 .. NumTimers,
           NEW s \in [1 .. n -> Timer], SoundList(L, n, s),
           NEW t \in Timer, \A i \in 1 .. n : s[i] # t, t \notin L.deleted,
           L.next[t] = NULL, L.prev[t] = NULL, Latest(L, t), NEW M, M = add_timer(L, t)
    PROVE  Becomes(L, M, {t} \cup Among(n, s), n + 1, With(s, n, t))
<1>1. (\A i \in 1 .. n : With(s, n, t)[i] = s[i]) /\ With(s, n, t)[n + 1] = t
  BY DEF With
<1>2. \A i \in 1 .. n + 1 : i \in 1 .. n \/ i = n + 1
  OBVIOUS
<1>3. ASSUME M.expire = L.expire, M.deleted = L.deleted
      PROVE  Ascending(M, n + 1, With(s, n, t)) /\ Undeleted(M, n + 1, With(s, n, t))
  <2>1. \A i \in 1 .. n : s[i] \in Timer /\ L.expire[s[i]] <= L.expire[t]
    BY DEF Latest
  <2> QED BY <1>1, <1>2, <1>3, <2>1 DEF SoundList, Ascending, Undeleted
<1>4. CASE n = 0
  <2>1. L.head = NULL
    BY <1>4 DEF SoundList, Links
  <2> DEFINE L1 == [L EXCEPT !.head = t]
             L2 == [L1 EXCEPT !.tail = t]
  <2>2. M = L2
    BY <2>1 DEF add_timer
  <2>3. /\ L1 \in ListType /\ L1.head = t /\ L1.next = L.next /\ L1.prev = L.prev
        /\ L1.expire = L.expire /\ L1.deleted = L.deleted
    BY SetHead
  <2> HIDE DEF L1
  <2>4. /\ M \in ListType /\ M.tail = t /\ M.head = t /\ M.next = L.next /\ M.prev = L.prev
        /\ M.expire = L.expire /\ M.deleted = L.deleted
    BY <2>2, <2>3, SetTail
  <2>5. With(s, n, t)[1] = t
    BY <1>1, <1>4
  <2>6. Links(M, n + 1, With(s, n, t))
    BY <1>4, <2>4, <2>5 DEF Links
  <2> QED BY <1>3, <2>4, <2>6 DEF SoundList, Becomes, Outside, Among
<1>5. CASE n # 0
  <2>1. n \in 1 .. NumTimers /\ 1 \in 1 .. n /\ n \in 1 .. n /\ L.head = s[1] /\ s[1] # NULL
    BY <1>5, NoTimer DEF SoundList, Links
  <2>2. ~(L.expire[t] < L.expire[L.head])
    <3>1. L.expire[s[1]] <= L.expire[t] /\ L.expire[s[1]] \in Nat /\ L.expire[t] \in Nat
      BY <2>1 DEF Latest, ListType
    <3> QED BY <2>1, <3>1
  <2>3. M = add_timer_after(L, t, s[1])
    BY <2>1, <2>2 DEF add_timer
  <2>4. Links(L, n, s)
    BY DEF SoundList
  <2>5. /\ M \in ListType /\ M.expire = L.expire /\ M.deleted = L.deleted
        /\ Outside(L, M, {t, s[n]})
        /\ Links(M, n + 1, With(s, n, t))
    BY <2>1, <2>3, <2>4, AppendLatest
  <2> QED BY <1>3, <2>1, <2>5 DEF SoundList, Becomes, Outside, Among
<1> QED BY <1>4, <1>5

\* A timer that is deleted is no longer in the list.
LEMMA Deleted ==
    ASSUME NEW L \in ListType, NEW n \in Nat, NEW s \in [1 .. n -> Timer],
           SoundList(L, n, s), NEW k \in 1 .. n, NEW M, M = del_timer(L, s[k])
    PROVE  Becomes(L, M, Among(n, s), n - 1, Without(s, n, k))
<1> DEFINE t == s[k]
           r == Without(s, n, k)
<1>0. Links(L, n, s) /\ Ascending(L, n, s) /\ Undeleted(L, n, s) /\ 1 \in 1 .. n /\ n \in 1 .. n
  BY DEF SoundList
<1>1. /\ t \in Timer /\ t # NULL /\ s[1] \in Timer /\ s[n] \in Timer
      /\ L.head = s[1] /\ L.tail = s[n] /\ (t = s[1] <=> k = 1) /\ (t = s[n] <=> k = n)
      /\ L.next[t] = (IF k = n THEN NULL ELSE s[k + 1])
      /\ L.prev[t] = (IF k = 1 THEN NULL ELSE s[k - 1])
      /\ (k # n => s[k + 1] \in Timer) /\ (k # 1 => s[k - 1] \in Timer)
  BY <1>0, NoTimer DEF Links
<1>2. ASSUME M.expire = L.expire, M.deleted \subseteq L.deleted \cup {t}
      PROVE  Ascending(M, n - 1, r) /\ Undeleted(M, n - 1, r)
  <2>1. \A i \in 1 .. n - 1 : \E j \in 1 .. n : r[i] = s[j] /\ j # k
    BY DEF Without
  <2>2. \A i \in 1 .. n - 1 : r[i] \notin L.deleted \cup {t}
    BY <1>0, <2>1 DEF Links, Undeleted
  <2>3. ASSUME NEW i \in 1 .. n - 1, NEW j \in 1 .. n - 1, i < j
        PROVE  L.expire[r[i]] <= L.expire[r[j]]
    <3>1. \E a, b \in 1 .. n : a < b /\ r[i] = s[a] /\ r[j] = s[b]
      BY <2>3 DEF Without
    <3> QED BY <1>0, <3>1 DEF Ascending
  <2> QED BY <1>2, <2>2, <2>3 DEF Ascending, Undeleted
<1> HIDE DEF t, r
<1>3. CASE k = 1 /\ k = n
  <2> DEFINE L1 == [L EXCEPT !.head = NULL]
             L2 == [L1 EXCEPT !.tail = NULL]
             L3 == [L2 EXCEPT !.deleted = @ \cup {t}]
  <2>1. M = L3
    BY <1>1, <1>3 DEF del_timer, t
  <2>2. /\ L1 \in ListType /\ L1.head = NULL /\ L1.next = L.next /\ L1.prev = L.prev
        /\ L1.expire = L.expire /\ L1.deleted = L.deleted
    BY SetHead
  <2> HIDE DEF L1
  <2>3. /\ L2 \in ListType /\ L2.head = NULL /\ L2.tail = NULL /\ L2.next = L.next
        /\ L2.prev = L.prev /\ L2.expire = L.expire /\ L2.deleted = L.deleted
    BY <2>2, SetTail
  <2> HIDE DEF L2
  <2>4. /\ M \in ListType /\ M.head = NULL /\ M.tail = NULL /\ M.next = L.next
        /\ M.prev = L.prev /\ M.expire = L.expire /\ M.deleted = L.deleted \cup {t}
    BY <1>1, <2>1, <2>3, Delete
  <2>5. Links(M, n - 1, r)
    BY <1>3, <2>4 DEF Links
  <2> QED BY <1>2, <2>4, <2>5 DEF SoundList, Becomes, Outside, Among, r, t
<1>4. CASE k = 1 /\ k # n
  <2> DEFINE L1 == [L EXCEPT !.head = s[2]]
             L2 == [L1 EXCEPT !.prev[s[2]] = NULL]
             L3 == [L2 EXCEPT !.deleted = @ \cup {t}]
  <2>0. s[2] \in Timer /\ L.next[t] = s[2] /\ t = L.head /\ t # L.tail
    BY <1>1, <1>4
  <2>1. M = L3
    BY <2>0 DEF del_timer, t
  <2>2. /\ L1 \in ListType /\ L1.head = s[2] /\ L1.tail = L.tail /\ L1.next = L.next
        /\ L1.prev = L.prev /\ L1.expire = L.expire /\ L1.deleted = L.deleted
    BY <2>0, SetHead
  <2> HIDE DEF L1
  <2>3. /\ L2 \in ListType /\ L2.head = s[2] /\ L2.tail = L.tail /\ L2.next = L.next
        /\ L2.prev = [L.prev EXCEPT ![s[2]] = NULL]
        /\ L2.expire = L.expire /\ L2.deleted = L.deleted
    BY <2>0, <2>2, SetPrev
  <2> HIDE DEF L2
  <2>4. /\ M \in ListType /\ M.head = s[2] /\ M.tail = L.tail /\ M.next = L.next
        /\ M.prev = [L.prev EXCEPT ![s[2]] = NULL]
        /\ M.expire = L.expire /\ M.deleted = L.deleted \cup {t}
    BY <1>1, <2>1, <2>3, Delete
  <2>5. \A u \in Timer : M.prev[u] = IF u = s[2] THEN NULL ELSE L.prev[u]
    BY <2>0, <2>4 DEF ListType
  <2>6. Links(M, n - 1, r)
    <3>1. Bypassed(L, M, n, s, k)
      BY <1>1, <1>4, <2>4, <2>5 DEF t, Bypassed
    <3> QED BY <1>0, <1>4, <3>1, Cut DEF r
  <2>7. Outside(L, M, Among(n, s))
    <3>1. 2 \in 1 .. n
      BY <1>4
    <3> QED BY <2>4, <2>5, <3>1 DEF Outside, Among
  <2> QED BY <1>2, <2>4, <2>6, <2>7 DEF SoundList, Becomes, Among, r, t
<1>5. CASE k # 1 /\ k = n
  <2> DEFINE p == s[n - 1]
             L1 == [L EXCEPT !.tail = p]
             L2 == [L1 EXCEPT !.next[p] = NULL]
             L3 == [L2 EXCEPT !.deleted = @ \cup {t}]
  <2>0. p \in Timer /\ L.prev[t] = p /\ t # L.head /\ t = L.tail
    BY <1>1, <1>5
  <2>1. M = L3
    BY <2>0 DEF del_timer, t
  <2> HIDE DEF p
  <2>2. /\ L1 \in ListType /\ L1.tail = p /\ L1.head = L.head /\ L1.next = L.next
        /\ L1.prev = L.prev /\ L1.expire = L.expire /\ L1.deleted = L.deleted
    BY <2>0, SetTail
  <2> HIDE DEF L1
  <2>3. /\ L2 \in ListType /\ L2.tail = p /\ L2.head = L.head /\ L2.prev = L.prev
        /\ L2.next = [L.next EXCEPT ![p] = NULL]
        /\ L2.expire = L.expire /\ L2.deleted = L.deleted
    BY <2>0, <2>2, SetNext
  <2> HIDE DEF L2
  <2>4. /\ M \in ListType /\ M.tail = p /\ M.head = L.head /\ M.prev = L.prev
        /\ M.next = [L.next EXCEPT ![p] = NULL]
        /\ M.expire = L.expire /\ M.deleted = L.deleted \cup {t}
    BY <1>1, <2>1, <2>3, Delete
  <2>5. \A u \in Timer : M.next[u] = IF u = p THEN NULL ELSE L.next[u]
    BY <2>0, <2>4 DEF ListType
  <2>6. Links(M, n - 1, r)
    <3>1. Bypassed(L, M, n, s, k)
      BY <1>1, <1>5, <2>4, <2>5 DEF t, p, Bypassed
    <3> QED BY <1>0, <1>5, <3>1, Cut DEF r
  <2>7. Outside(L, M, Among(n, s))
    <3>1. n - 1 \in 1 .. n
      BY <1>5
    <3> QED BY <2>4, <2>5, <3>1 DEF Outside, Among, p
  <2> QED BY <1>2, <2>4, <2>6, <2>7 DEF SoundList, Becomes, Among, r, t
<1>6. CASE k # 1 /\ k # n
  <2> DEFINE p == s[k - 1]
             q == s[k + 1]
             L1 == [L EXCEPT !.next[p] = q]
             L2 == [L1 EXCEPT !.prev[q] = p]
  <2>0. p \in Timer /\ q \in Timer /\ L.prev[t] = p /\ L.next[t] = q /\ t # L.head /\ t # L.tail
    BY <1>1, <1>6
  <2>1. M = L2
    BY <2>0 DEF del_timer, t
  <2> HIDE DEF p, q
  <2>2. /\ L1 \in ListType /\ L1.tail = L.tail /\ L1.head = L.head
        /\ L1.next = [L.next EXCEPT ![p] = q]
        /\ L1.prev = L.prev /\ L1.expire = L.expire /\ L1.deleted = L.deleted
    BY <2>0, SetNext
  <2> HIDE DEF L1
  <2>3. /\ M \in ListType /\ M.tail = L.tail /\ M.head = L.head
        /\ M.next = [L.next EXCEPT ![p] = q] /\ M.prev = [L.prev EXCEPT ![q] = p]
        /\ M.expire = L.expire /\ M.deleted = L.deleted
    BY <2>0, <2>1, <2>2, SetPrev
  <2>4. \A u \in Timer : /\ M.next[u] = IF u = p THEN q ELSE L.next[u]
                         /\ M.prev[u] = IF u = q THEN p ELSE L.prev[u]
    BY <2>0, <2>3 DEF ListType
  <2>5. Links(M, n - 1, r)
    <3>1. Bypassed(L, M, n, s, k)
      BY <1>6, <2>0, <2>3, <2>4 DEF t, p, q, Bypassed
    <3> QED BY <1>0, <1>6, <3>1, Cut DEF r
  <2>6. Outside(L, M, Among(n, s))
    <3>1. k - 1 \in 1 .. n /\ k + 1 \in 1 .. n
      BY <1>6
    <3> QED BY <2>4, <3>1 DEF Outside, Among, p, q
  <2> QED BY <1>2, <2>3, <2>5, <2>6 DEF SoundList, Becomes, Among, r, t
<1> QED BY <1>3, <1>4, <1>5, <1>6

PutOff(L, t, e) == [L EXCEPT !.expire[t] = e]

\* A timer whose time is put off until after all the others goes to the end of the list.
LEMMA Adjusted ==
    ASSUME NumTimers \in Nat, NEW L0 \in ListType, NEW n \in 0 .. NumTimers,
           NEW s \in [1 .. n -> Timer], SoundList(L0, n, s), NEW k \in 1 .. n,
           NEW e \in Nat, \A u \in Timer : L0.expire[u] <= e,
           NEW L, L = PutOff(L0, s[k], e), NEW M, M = adjust_timer(L, s[k])
    PROVE  \E r \in [1 .. n -> Timer] : /\ Becomes(L, M, Among(n, s), n, r)
                                      /\ Among(n, r) = Among(n, s)
<1> DEFINE t == s[k]
<1>0. /\ Links(L0, n, s) /\ Ascending(L0, n, s) /\ Undeleted(L0, n, s)
      /\ n \in 1 .. NumTimers /\ 1 \in 1 .. n /\ n \in 1 .. n /\ t \in Timer /\ n \in Nat
  BY DEF SoundList
<1>1. /\ L \in ListType /\ L.head = L0.head /\ L.tail = L0.tail /\ L.next = L0.next
      /\ L.prev = L0.prev /\ L.deleted = L0.deleted
      /\ L.expire = [L0.expire EXCEPT ![t] = e]
  BY <1>0, SetExpire DEF PutOff
<1> HIDE DEF t
<1>2. /\ L.expire[t] = e /\ \A u \in Timer \ {t} : L.expire[u] = L0.expire[u]
      /\ \A u \in Timer : L.expire[u] <= e /\ L.expire[u] \in Nat
  BY <1>0, <1>1 DEF ListType
<1>3. Links(L, n, s) /\ Undeleted(L, n, s) /\ Latest(L, t)
  <2>1. Links(L, n, s)
    BY <1>0, <1>1 DEF Links
  <2>2. Undeleted(L, n, s)
    BY <1>0, <1>1 DEF Undeleted
  <2>3. Latest(L, t)
    BY <1>2 DEF Latest
  <2> QED BY <2>1, <2>2, <2>3
<1>4. /\ L.head = s[1] /\ L.tail = s[n] /\ (t = s[1] <=> k = 1)
      /\ L.next[t] = (IF k = n THEN NULL ELSE s[k + 1])
      /\ L.prev[t] = (IF k = 1 THEN NULL ELSE s[k - 1])
      /\ (k # n => s[k + 1] \in Timer) /\ (k # 1 => s[k - 1] \in Timer)
  BY <1>0, <1>3 DEF Links, t
<1>5. CASE k = n
  <2>1. M = L
    BY <1>4, <1>5 DEF adjust_timer, t
  <2>2. ASSUME NEW i \in 1 .. n, NEW j \in 1 .. n, i < j
        PROVE  L.expire[s[i]] <= L.expire[s[j]]
    <3>1. L0.expire[s[i]] <= L0.expire[s[j]] /\ i # k /\ s[i] # t
      BY <1>0, <1>5, <2>2 DEF Ascending, Links, t
    <3>2. CASE j = k
      BY <1>2, <3>2 DEF t
    <3>3. CASE j # k
      <4>1. s[j] # t
        BY <1>0, <3>3 DEF Links, t
      <4> QED BY <1>2, <3>1, <4>1
    <3> QED BY <3>2, <3>3
  <2>3. SoundList(L, n, s)
    BY <1>3, <2>2 DEF SoundList, Ascending
  <2> QED BY <1>1, <2>1, <2>3 DEF Outside, Becomes, Among, t
<1>6. CASE k # n
  <2> DEFINE q == s[k + 1]
             K == Without(s, n, k)
  <2>0. /\ q \in Timer /\ q # NULL /\ L.next[t] = q /\ L.expire[q] \in Nat
        /\ ~(L.expire[t] < L.expire[q])
    BY <1>2, <1>4, <1>6, NoTimer
  <2>1. PICK L2 : /\ L2 \in ListType /\ L2.expire = L.expire /\ L2.deleted = L.deleted
                  /\ Bypassed(L, L2, n, s, k) /\ Outside(L, L2, Among(n, s))
                  /\ M = add_timer_after(L2, t, q)
    <3>1. CASE k = 1
      <4> DEFINE L1 == [L EXCEPT !.head = q]
                 L2 == [L1 EXCEPT !.prev[q] = NULL]
      <4>1. M = add_timer_after(L2, t, q)
        <5>1. L.next[t] = q /\ t = L.head /\ ~(q = NULL \/ L.expire[t] < L.expire[q])
          BY <1>4, <2>0, <3>1
        <5>2. M = adjust_timer(L, t)
          BY DEF t
        <5> HIDE DEF q
        <5> QED BY <5>1, <5>2 DEF adjust_timer
      <4> HIDE DEF q
      <4>2. /\ L1 \in ListType /\ L1.head = q /\ L1.tail = L.tail /\ L1.next = L.next
            /\ L1.prev = L.prev /\ L1.expire = L.expire /\ L1.deleted = L.deleted
        BY <1>1, <2>0, SetHead
      <4> HIDE DEF L1
      <4>3. /\ L2 \in ListType /\ L2.head = q /\ L2.tail = L.tail /\ L2.next = L.next
            /\ L2.prev = [L.prev EXCEPT ![q] = NULL]
            /\ L2.expire = L.expire /\ L2.deleted = L.deleted
        <5>1. NULL \in Timer \cup {NULL}
          OBVIOUS
        <5>2. q \in Timer /\ L1 \in ListType
          BY <2>0, <4>2
        <5>3. /\ L2 \in ListType /\ L2.prev = [L1.prev EXCEPT ![q] = NULL]
              /\ L2.head = L1.head /\ L2.tail = L1.tail /\ L2.next = L1.next
              /\ L2.expire = L1.expire /\ L2.deleted = L1.deleted
          BY <5>1, <5>2, SetPrev
        <5> HIDE DEF L2
        <5> QED BY <4>2, <5>3
      <4> HIDE DEF L2
      <4>4. \A u \in Timer : L2.prev[u] = IF u = q THEN NULL ELSE L.prev[u]
        BY <1>1, <2>0, <4>3 DEF ListType
      <4>5. Bypassed(L, L2, n, s, k)
        BY <1>4, <1>6, <3>1, <4>3, <4>4 DEF Bypassed, t, q
      <4>6. Outside(L, L2, Among(n, s))
        <5>1. k + 1 \in 1 .. n
          BY <1>6
        <5> QED BY <4>3, <4>4, <5>1 DEF Outside, Among, q
      <4> QED BY <4>1, <4>3, <4>5, <4>6
    <3>2. CASE k # 1
      <4> DEFINE p == s[k - 1]
                 L1 == [L EXCEPT !.next[p] = q]
                 L2 == [L1 EXCEPT !.prev[q] = p]
      <4>0. p \in Timer /\ L.prev[t] = p
        BY <1>4, <3>2
      <4>1. M = add_timer_after(L2, t, q)
        <5>1. L.next[t] = q /\ t # L.head /\ ~(q = NULL \/ L.expire[t] < L.expire[q])
          BY <1>4, <2>0, <3>2
        <5>2. M = adjust_timer(L, t)
          BY DEF t
        <5> HIDE DEF q, p
        <5> QED BY <4>0, <5>1, <5>2 DEF adjust_timer
      <4> HIDE DEF q, p
      <4>2. /\ L1 \in ListType /\ L1.head = L.head /\ L1.tail = L.tail /\ L1.prev = L.prev
            /\ L1.next = [L.next EXCEPT ![p] = q]
            /\ L1.expire = L.expire /\ L1.deleted = L.deleted
        BY <1>1, <2>0, <4>0, SetNext
      <4> HIDE DEF L1
      <4>3. /\ L2 \in ListType /\ L2.head = L.head /\ L2.tail = L.tail
            /\ L2.next = [L.next EXCEPT ![p] = q] /\ L2.prev = [L.prev EXCEPT ![q] = p]
            /\ L2.expire = L.expire /\ L2.deleted = L.deleted
        BY <2>0, <4>0, <4>2, SetPrev
      <4> HIDE DEF L2
      <4>4. \A u \in Timer : /\ L2.next[u] = IF u = p THEN q ELSE L.next[u]
                             /\ L2.prev[u] = IF u = q THEN p ELSE L.prev[u]
        BY <1>1, <2>0, <4>0, <4>3 DEF ListType
      <4>5. Bypassed(L, L2, n, s, k)
        BY <1>6, <2>0, <3>2, <4>0, <4>3, <4>4 DEF Bypassed, t, q, p
      <4>6. Outside(L, L2, Among(n, s))
        <5>1. k + 1 \in 1 .. n /\ k - 1 \in 1 .. n
          BY <1>6, <3>2
        <5> QED BY <4>4, <5>1 DEF Outside, Among, q, p
      <4> QED BY <4>1, <4>3, <4>5, <4>6
    <3> QED BY <3>1, <3>2
  <2>2. n - 1 \in 1 .. NumTimers /\ n >= 2 /\ k \in 1 .. n - 1 /\ (n - 1) + 1 = n
    BY <1>0, <1>6
  <2>3. Links(L2, n - 1, K)
    BY <1>0, <1>3, <2>1, <2>2, Cut
  <2>4. K \in [1 .. n - 1 -> Timer] /\ K[k] = q
    BY <2>2 DEF Without
  <2>5. \A i \in 1 .. n - 1 : \E j \in 1 .. n : K[i] = s[j] /\ j # k
    BY DEF Without
  <2>6. \A i \in 1 .. n - 1 : K[i] # t
    BY <1>3, <2>5 DEF Links, t
  <2>7. Latest(L2, t)
    BY <1>3, <2>1 DEF Latest
  <2>8. ASSUME NEW i \in 1 .. n - 1, NEW j \in 1 .. n - 1, i < j
        PROVE  L.expire[K[i]] <= L.expire[K[j]]
    <3>1. \E a, b \in 1 .. n : a < b /\ K[i] = s[a] /\ K[j] = s[b]
      BY <2>8 DEF Without
    <3>2. L0.expire[K[i]] <= L0.expire[K[j]]
      BY <1>0, <3>1 DEF Ascending
    <3> QED BY <1>2, <2>4, <2>6, <3>2
  <2>9. ASSUME NEW j \in 1 .. n PROVE s[j] = t \/ \E i \in 1 .. n - 1 : K[i] = s[j]
    <3>1. CASE j < k
      BY <2>2, <3>1 DEF Without
    <3>2. CASE j > k
      <4>1. j - 1 \in 1 .. n - 1 /\ K[j - 1] = s[j]
        BY <2>2, <3>2 DEF Without
      <4> QED BY <4>1
    <3>3. CASE j = k
      BY <3>3 DEF t
    <3> QED BY <3>1, <3>2, <3>3
  <2> DEFINE r == With(K, n - 1, t)
  <2>10. (\A i \in 1 .. n - 1 : r[i] = K[i]) /\ r[n] = t /\ r \in [1 .. n -> Timer]
    BY <1>0, <2>2, <2>4 DEF With
  <2> HIDE DEF K
  <2>11. /\ M \in ListType /\ M.expire = L2.expire /\ M.deleted = L2.deleted
         /\ Outside(L2, M, {t, K[n - 1]}) /\ Links(M, n, r)
    <3>1. M = add_timer_after(L2, t, K[k])
      BY <2>1, <2>4
    <3> HIDE DEF q
    <3>2. /\ M \in ListType /\ M.expire = L2.expire /\ M.deleted = L2.deleted
          /\ Outside(L2, M, {t, K[n - 1]}) /\ Links(M, (n - 1) + 1, With(K, n - 1, t))
      BY <1>0, <2>1, <2>2, <2>3, <2>4, <2>6, <2>7, <3>1, AppendLatest
    <3> QED BY <2>2, <3>2
  <2> HIDE DEF r
  <2>12. \A i \in 1 .. n : i \in 1 .. n - 1 \/ i = n
    BY <2>2
  <2>13. Among(n, r) = Among(n, s)
    <3>1. \A i \in 1 .. n : \E j \in 1 .. n : r[i] = s[j]
      BY <2>5, <2>10, <2>12 DEF t
    <3>2. \A j \in 1 .. n : \E i \in 1 .. n : s[j] = r[i]
      BY <1>0, <2>2, <2>9, <2>10
    <3>3. Among(n, r) \subseteq Among(n, s)
      BY <3>1 DEF Among
    <3>4. Among(n, s) \subseteq Among(n, r)
      BY <3>2 DEF Among
    <3> QED BY <3>3, <3>4
  <2>14. Ascending(M, n, r)
    <3>1. \A i \in 1 .. n : L.expire[r[i]] <= e
      BY <1>2, <2>10
    <3>2. ASSUME NEW i \in 1 .. n, NEW j \in 1 .. n, i < j
          PROVE  L.expire[r[i]] <= L.expire[r[j]]
      <4>1. i \in 1 .. n - 1
        BY <3>2
      <4>2. CASE j \in 1 .. n - 1
        BY <2>8, <2>10, <3>2, <4>1, <4>2
      <4>3. CASE j = n
        BY <1>2, <2>10, <3>1, <4>3
      <4> QED BY <2>12, <4>2, <4>3
    <3> QED BY <2>1, <2>11, <3>2 DEF Ascending
  <2>15. Undeleted(M, n, r)
    <3>1. \A i \in 1 .. n : \E j \in 1 .. n : r[i] = s[j]
      BY <2>13 DEF Among
    <3> QED BY <1>1, <1>3, <2>1, <2>11, <3>1 DEF Undeleted
  <2>16. Outside(L, M, Among(n, s))
    <3>1. {t, K[n - 1]} \subseteq Among(n, s)
      BY <2>2, <2>5 DEF t, Among
    <3> QED BY <2>1, <2>11, <3>1 DEF Outside
  <2> QED BY <2>1, <2>10, <2>11, <2>13, <2>14, <2>15, <2>16 DEF SoundList, Becomes
<1> QED BY <1>5, <1>6

-------------------------------------------------------------------------------
\* What Sound says of a list, and what is found in it.
LEMMA SoundLists ==
    ASSUME NumTimers \in Nat, NEW L \in ListType, NEW n \in 0 .. NumTimers,
           NEW s \in [1 .. n -> Timer], SoundList(L, n, s)
    PROVE  Sound(L) /\ Linked(L) = Among(n, s)
<1>1. Links(L, n, s) /\ Ascending(L, n, s) /\ Undeleted(L, n, s)
  BY DEF SoundList
<1>2. Linked(L) = Among(n, s)
  BY <1>1, LinkedTimers
<1>3. L.head = NULL <=> n = 0
  <2>1. n # 0 => 1 \in 1 .. n
    OBVIOUS
  <2> QED BY <1>1, <2>1, NoTimer DEF Links
<1>4. L.tail = NULL <=> n = 0
  <2>1. n # 0 => n \in 1 .. n
    OBVIOUS
  <2> QED BY <1>1, <2>1, NoTimer DEF Links
<1>5. ASSUME n # 0
      PROVE  L.prev[L.head] = NULL /\ L.next[L.tail] = NULL /\ L.tail \in Linked(L)
  <2>1. 1 \in 1 .. n /\ n \in 1 .. n
    BY <1>5
  <2> QED BY <1>1, <1>2, <1>5, <2>1 DEF Links, Among
<1>6. ASSUME NEW t \in Linked(L)
      PROVE  /\ t \notin L.deleted
             /\ L.next[t] # NULL => /\ L.prev[L.next[t]] = t
                                    /\ L.expire[t] <= L.expire[L.next[t]]
  <2>1. PICK i \in 1 .. n : t = s[i]
    BY <1>2 DEF Among
  <2>2. t \notin L.deleted
    BY <1>1, <2>1 DEF Undeleted
  <2>3. ASSUME L.next[t] # NULL
        PROVE  L.prev[L.next[t]] = t /\ L.expire[t] <= L.expire[L.next[t]]
    <3>1. i + 1 \in 1 .. n /\ L.next[t] = s[i + 1] /\ i < i + 1
      BY <1>1, <2>1, <2>3 DEF Links
    <3>2. L.prev[s[i + 1]] = s[i]
      BY <1>1, <3>1 DEF Links
    <3>3. L.expire[s[i]] <= L.expire[s[i + 1]]
      BY <1>1, <3>1 DEF Ascending
    <3> QED BY <2>1, <3>1, <3>2, <3>3
  <2> QED BY <2>2, <2>3
<1> QED BY <1>2, <1>3, <1>4, <1>5, <1>6 DEF Sound

-------------------------------------------------------------------------------
(* The timers of the connections.                                          *)

\* Timers that were made: one for each connection that was accepted (or turned away).
Made == arrivals - waiting

\* The nodes: those that are not made are new, and none expires after one that is set now.
Nodes == /\ timers \in ListType
         /\ timers.deleted \subseteq 1 .. Made
         /\ \A t \in Timer : t > Made => timers.next[t] = NULL /\ timers.prev[t] = NULL
         /\ \A t \in Timer : timers.expire[t] <= now + Lasts

\* The open connections have timers of their own among s[1] to s[n].
Timed(n, s) == /\ \A f \in Client : \E i \in 1 .. n : timerOf[f] = s[i]
               /\ \A f, g \in Client : timerOf[f] = timerOf[g] => f = g

ListInv == \E n \in 0 .. Made : \E s \in [1 .. n -> Timer] :
              /\ SoundList(timers, n, s)
              /\ \A i \in 1 .. n : s[i] <= Made
              /\ Timed(n, s)

Clock == now \in Nat /\ Made \in 0 .. NumTimers

LEMMA ClockOf == Backlog /\ Rest => Clock
BY SizesAssumption DEF Backlog, Rest, Clock, Made

LEMMA ListInit == Init => Nodes /\ ListInv
<1> SUFFICES ASSUME Init PROVE Nodes /\ ListInv
  OBVIOUS
<1>1. timers = NoTimers /\ now = 0 /\ Made = 0 /\ Client = {}
  BY DEF Init, Made, Client
<1>2. Nodes
  BY <1>1 DEF Nodes, NoTimers, ListType, Lasts
<1> DEFINE s == [i \in 1 .. 0 |-> NULL]
<1>3. s \in [1 .. 0 -> Timer] /\ 0 \in 0 .. Made
  BY <1>1
<1> HIDE DEF s
<1>4. SoundList(timers, 0, s)
  BY <1>1 DEF SoundList, Links, Ascending, Undeleted, NoTimers
<1>5. Timed(0, s)
  BY <1>1 DEF Timed
<1>6. \A i \in 1 .. 0 : s[i] <= Made
  OBVIOUS
<1> QED BY <1>2, <1>3, <1>4, <1>5, <1>6 DEF ListInv

\* Connections that end, time that passes and connections that are turned away leave the list.
LEMMA ListKept ==
    ASSUME Nodes, ListInv, Clock, Clock', UNCHANGED <<timers, timerOf>>, now <= now', Made <= Made',
           \A f \in Fd : reg[f] = "none" => reg'[f] = "none"
    PROVE  Nodes' /\ ListInv'
<1>1. Nodes'
  <2>1. \A t \in Timer : t \in Nat /\ timers.expire[t] \in Nat
    BY SizesAssumption DEF Timer, Nodes, ListType
  <2>2. Made \in Nat /\ Made' \in Nat /\ now \in Nat /\ now' \in Nat
    BY DEF Clock
  <2>3. \A t \in Timer : timers'.expire[t] <= now' + Lasts
    BY <2>1, <2>2 DEF Nodes, Lasts
  <2>4. \A t \in Timer : t > Made' => timers'.next[t] = NULL /\ timers'.prev[t] = NULL
    BY <2>1, <2>2 DEF Nodes
  <2>5. timers'.deleted \subseteq 1 .. Made'
    <3>1. 1 .. Made \subseteq 1 .. Made'
      BY <2>2
    <3> QED BY <3>1 DEF Nodes
  <2> QED BY <2>3, <2>4, <2>5 DEF Nodes
<1>2. PICK n \in 0 .. Made : \E s \in [1 .. n -> Timer] :
              /\ SoundList(timers, n, s)
              /\ \A i \in 1 .. n : s[i] <= Made
              /\ Timed(n, s)
  BY DEF ListInv
<1>3. PICK s \in [1 .. n -> Timer] : /\ SoundList(timers, n, s)
                                     /\ \A i \in 1 .. n : s[i] <= Made
                                     /\ Timed(n, s)
  BY <1>2
<1>4. n \in 0 .. Made' /\ \A i \in 1 .. n : s[i] <= Made'
  BY <1>3 DEF Clock, Timer
<1>5. Client' \subseteq Client
  BY DEF Client
<1>6. Timed(n, s)'
  BY <1>3, <1>5 DEF Timed
<1>7. SoundList(timers', n, s)
  BY <1>3
<1> QED BY <1>1, <1>4, <1>6, <1>7 DEF ListInv

LEMMA ListAdd ==
    ASSUME IInv, Nodes, ListInv, Clock, Clock', NEW e, NEW f \in Fd, AddClient(e, f), waiting >= 1,
           arrivals \in Nat, waiting \in Nat, Rest
    PROVE  Nodes' /\ ListInv'
<1>0t. PICK t : t = Made + 1
  OBVIOUS
<1> DEFINE L == [timers EXCEPT !.expire[t] = now + Lasts]
<1>0. /\ timers' = add_timer(L, t)
      /\ timerOf' = [timerOf EXCEPT ![f] = t]
      /\ reg' = [reg EXCEPT ![f] = "in"]
      /\ arrivals' = arrivals /\ waiting' = waiting - 1 /\ now' = now
  BY <1>0t DEF AddClient, Made
<1>1. Made' = Made + 1 /\ t \in Timer /\ Made \in Nat /\ now + Lasts \in Nat
  BY <1>0, <1>0t, SizesAssumption DEF Clock, Made, Lasts, Timer
<1>2. PICK n \in 0 .. Made : \E s \in [1 .. n -> Timer] :
              /\ SoundList(timers, n, s)
              /\ \A i \in 1 .. n : s[i] <= Made
              /\ Timed(n, s)
  BY DEF ListInv
<1>3. PICK s \in [1 .. n -> Timer] : /\ SoundList(timers, n, s)
                                     /\ \A i \in 1 .. n : s[i] <= Made
                                     /\ Timed(n, s)
  BY <1>2
<1>4. /\ L \in ListType /\ L.expire = [timers.expire EXCEPT ![t] = now + Lasts]
      /\ L.head = timers.head /\ L.tail = timers.tail /\ L.next = timers.next
      /\ L.prev = timers.prev /\ L.deleted = timers.deleted
  BY <1>1, SetExpire DEF Nodes
<1> HIDE DEF L
<1>5. \A u \in Timer : L.expire[u] <= now + Lasts /\ L.expire[u] <= L.expire[t]
  BY <1>1, <1>4 DEF Nodes, ListType
<1>6. /\ t \notin L.deleted /\ L.next[t] = NULL /\ L.prev[t] = NULL /\ Latest(L, t)
      /\ \A i \in 1 .. n : s[i] # t
  BY <1>1, <1>3, <1>4, <1>5, <1>0t DEF Nodes, Latest
<1>7. SoundList(L, n, s)
  <2>1. \A i \in 1 .. n : L.expire[s[i]] = timers.expire[s[i]]
    BY <1>1, <1>4, <1>6 DEF Nodes, ListType
  <2> QED BY <1>3, <1>4, <2>1 DEF SoundList, Links, Ascending, Undeleted
<1>8. NumTimers \in Nat /\ n \in 0 .. NumTimers
  BY <1>1, SizesAssumption DEF Clock
<1> DEFINE r == With(s, n, t)
<1>9. Becomes(L, timers', {t} \cup Among(n, s), n + 1, r)
  BY <1>0, <1>1, <1>4, <1>6, <1>7, <1>8, Added
<1>10. (\A i \in 1 .. n : r[i] = s[i]) /\ r[n + 1] = t /\ r \in [1 .. n + 1 -> Timer]
  BY <1>1 DEF With
<1> HIDE DEF r
<1>11. Nodes'
  <2>1. \A u \in Timer : u > Made' => u \notin {t} \cup Among(n, s)
    BY <1>1, <1>3, <1>0t DEF Timer, Among
  <2>2. \A u \in Timer : u > Made' => timers'.next[u] = NULL /\ timers'.prev[u] = NULL
    <3>1. \A u \in Timer : u > Made' => u > Made
      BY <1>1 DEF Timer
    <3> QED BY <1>4, <1>9, <2>1, <3>1 DEF Outside, Nodes, Becomes
  <2>3. timers'.deleted \subseteq 1 .. Made'
    <3>1. \A i \in 1 .. n : s[i] \in 1 .. Made'
      BY <1>1, <1>3 DEF Timer
    <3>2. {t} \cup Among(n, s) \subseteq 1 .. Made' /\ 1 .. Made \subseteq 1 .. Made'
      BY <1>1, <1>0t, <3>1 DEF Among
    <3> QED BY <1>4, <1>9, <3>2 DEF Nodes, Becomes
  <2>4. \A u \in Timer : timers'.expire[u] <= now' + Lasts
    BY <1>0, <1>5, <1>9 DEF Becomes
  <2> QED BY <1>9, <2>2, <2>3, <2>4 DEF Nodes, Becomes
<1>12. timerOf'[f] = t /\ \A g \in Fd \ {f} : timerOf'[g] = timerOf[g]
  BY <1>0 DEF Rest
<1>13. Timed(n + 1, r)'
  <2>1. Client' = Client \cup {f}
    BY <1>0 DEF IInv, Typing, Client
  <2>2. \A i \in 1 .. n : i \in 1 .. n + 1
    OBVIOUS
  <2>3. \A g \in Client' : \E i \in 1 .. n + 1 : timerOf'[g] = r[i]
    BY <1>3, <1>10, <1>12, <2>1, <2>2 DEF Timed, Client
  <2>4. \A g \in Client : timerOf[g] # t
    BY <1>3, <1>6 DEF Timed
  <2>5. \A g, h \in Client' : timerOf'[g] = timerOf'[h] => g = h
    BY <1>3, <1>12, <2>1, <2>4 DEF Timed, Client
  <2> QED BY <2>3, <2>5 DEF Timed
<1>14. \A i \in 1 .. n + 1 : r[i] <= Made'
  <2>1. \A i \in 1 .. n + 1 : i \in 1 .. n \/ i = n + 1
    OBVIOUS
  <2>2. \A i \in 1 .. n : s[i] \in Nat
    BY DEF Timer
  <2> QED BY <1>1, <1>3, <1>10, <1>0t, <2>1, <2>2
<1>15. n + 1 \in 0 .. Made'
  BY <1>1
<1> QED BY <1>9, <1>10, <1>11, <1>13, <1>14, <1>15 DEF ListInv, Becomes

\* A timer of the list, of the connection f, that is moved or deleted.
LEMMA ListAdjust ==
    ASSUME IInv, Nodes, ListInv, Clock, Rest, NEW f \in Client, Adjust(f),
           UNCHANGED <<arrivals, waiting>>, \A g \in Fd : reg'[g] = "none" <=> reg[g] = "none"
    PROVE  Nodes' /\ ListInv'
<1>0t. PICK t : t = timerOf[f]
  OBVIOUS
<1>0e. PICK e : e = now + Lasts
  OBVIOUS
<1>0. /\ timers' = adjust_timer(PutOff(timers, t, e), t)
      /\ timerOf' = timerOf /\ now' = now /\ Made' = Made /\ Client' = Client
  BY <1>0t, <1>0e DEF Adjust, PutOff, Made, Client
<1>1. Made \in Nat /\ e \in Nat /\ NumTimers \in Nat /\ Made <= NumTimers
  BY <1>0e, SizesAssumption DEF Clock, Lasts
<1>2. PICK n \in 0 .. Made : \E s \in [1 .. n -> Timer] :
              /\ SoundList(timers, n, s)
              /\ \A i \in 1 .. n : s[i] <= Made
              /\ Timed(n, s)
  BY DEF ListInv
<1>3. PICK s \in [1 .. n -> Timer] : /\ SoundList(timers, n, s)
                                     /\ \A i \in 1 .. n : s[i] <= Made
                                     /\ Timed(n, s)
  BY <1>2
<1>4. PICK k \in 1 .. n : t = s[k]
  BY <1>3, <1>0t DEF Timed
<1>5. PICK L : L = PutOff(timers, t, e)
  OBVIOUS
<1>6. \E r \in [1 .. n -> Timer] : /\ Becomes(L, timers', Among(n, s), n, r)
                                   /\ Among(n, r) = Among(n, s)
  <2>1. n \in 0 .. NumTimers /\ \A u \in Timer : timers.expire[u] <= e
    BY <1>1, <1>0e DEF Nodes
  <2>2. timers \in ListType /\ L = PutOff(timers, s[k], e) /\ timers' = adjust_timer(L, s[k])
    BY <1>0, <1>4, <1>5 DEF Nodes
  <2> QED BY <1>1, <1>3, <2>1, <2>2, Adjusted
<1>7. PICK r \in [1 .. n -> Timer] : /\ Becomes(L, timers', Among(n, s), n, r)
                                    /\ Among(n, r) = Among(n, s)
  BY <1>6
<1>8. /\ L.expire = [timers.expire EXCEPT ![t] = e] /\ L.next = timers.next
      /\ L.prev = timers.prev /\ L.deleted = timers.deleted
  <2>1. t \in Timer
    BY <1>4
  <2> QED BY <1>1, <1>5, <2>1, SetExpire DEF PutOff, Nodes
<1>9. /\ \A i \in 1 .. n : \E j \in 1 .. n : s[i] = r[j]
      /\ \A i \in 1 .. n : \E j \in 1 .. n : r[i] = s[j]
  BY <1>7 DEF Among
<1>10. \A i \in 1 .. n : s[i] \in 1 .. Made
  BY <1>1, <1>3 DEF Timer
<1>11. Nodes'
  <2>1. Among(n, s) \subseteq 1 .. Made
    BY <1>10 DEF Among
  <2>2. \A u \in Timer : u > Made => timers'.next[u] = NULL /\ timers'.prev[u] = NULL
    <3>1. \A u \in Timer : u > Made => u \notin Among(n, s)
      BY <1>1, <2>1 DEF Timer
    <3> QED BY <1>7, <1>8, <3>1 DEF Nodes, Becomes, Outside
  <2>3. timers'.deleted \subseteq 1 .. Made
    BY <1>7, <1>8, <2>1 DEF Nodes, Becomes
  <2>4. \A u \in Timer : timers'.expire[u] <= e
    BY <1>1, <1>0e, <1>7, <1>8 DEF Nodes, Becomes, ListType
  <2> QED BY <1>0, <1>0e, <1>7, <2>2, <2>3, <2>4 DEF Nodes, Becomes
<1>12. Timed(n, r)'
  BY <1>0, <1>3, <1>9 DEF Timed
<1>13. \A i \in 1 .. n : r[i] <= Made
  BY <1>9, <1>10
<1> QED BY <1>0, <1>7, <1>11, <1>12, <1>13 DEF ListInv, Becomes

LEMMA ListDrop ==
    ASSUME IInv, Nodes, ListInv, Clock, Rest, NEW f \in Client, Drop(f),
           UNCHANGED <<arrivals, waiting>>
    PROVE  Nodes' /\ ListInv'
<1>0t. PICK t : t = timerOf[f]
  OBVIOUS
<1>1. Made \in Nat /\ NumTimers \in Nat /\ Made <= NumTimers
  BY SizesAssumption DEF Clock
<1>2. PICK n \in 0 .. Made : \E s \in [1 .. n -> Timer] :
              /\ SoundList(timers, n, s)
              /\ \A i \in 1 .. n : s[i] <= Made
              /\ Timed(n, s)
  BY DEF ListInv
<1>3. PICK s \in [1 .. n -> Timer] : /\ SoundList(timers, n, s)
                                     /\ \A i \in 1 .. n : s[i] <= Made
                                     /\ Timed(n, s)
  BY <1>2
<1>4. PICK k \in 1 .. n : t = s[k]
  BY <1>3, <1>0t DEF Timed
<1>0. /\ timers' = del_timer(timers, t)
      /\ timerOf' = timerOf /\ now' = now /\ Made' = Made /\ Client' = Client \ {f}
  <2>1. t # NULL
    BY <1>4, NoTimer
  <2>2. f \in Fd /\ sockfd[f] = f /\ f # -1
    BY Descriptors DEF Client, IInv, Sockets
  <2>3. reg' = [reg EXCEPT ![f] = "none"]
    BY <2>2 DEF Drop, Closes
  <2>4. Client' = Client \ {f}
    BY <2>3 DEF IInv, Typing, Client
  <2> QED BY <1>0t, <2>1, <2>4 DEF Drop, Made
<1>5. PICK r : r = Without(s, n, k)
  OBVIOUS
<1>6. Becomes(timers, timers', Among(n, s), n - 1, r)
  BY <1>0, <1>1, <1>3, <1>4, <1>5, Deleted DEF Nodes
<1>7. /\ r \in [1 .. n - 1 -> Timer]
      /\ \A i \in 1 .. n - 1 : \E j \in 1 .. n : r[i] = s[j]
      /\ \A i \in 1 .. n : s[i] = t \/ \E j \in 1 .. n - 1 : s[i] = r[j]
  <2>1. \A i \in 1 .. n - 1 : \E j \in 1 .. n : r[i] = s[j]
    BY <1>5 DEF Without
  <2>2. ASSUME NEW i \in 1 .. n, s[i] # t PROVE \E j \in 1 .. n - 1 : s[i] = r[j]
    <3>1. CASE i < k
      BY <1>5, <3>1 DEF Without
    <3>2. CASE i > k
      <4>1. i - 1 \in 1 .. n - 1 /\ r[i - 1] = s[i]
        BY <1>5, <3>2 DEF Without
      <4> QED BY <4>1
    <3>3. i # k
      BY <1>4, <2>2
    <3> QED BY <3>1, <3>2, <3>3
  <2>3. r \in [1 .. n - 1 -> Timer]
    BY <1>5 DEF Without
  <2> QED BY <2>1, <2>2, <2>3
<1>10. \A i \in 1 .. n : s[i] \in 1 .. Made
  BY <1>1, <1>3 DEF Timer
<1>11. Nodes'
  <2>1. Among(n, s) \subseteq 1 .. Made
    BY <1>10 DEF Among
  <2>2. \A u \in Timer : u > Made => timers'.next[u] = NULL /\ timers'.prev[u] = NULL
    BY <1>1, <1>6, <2>1 DEF Nodes, Becomes, Outside, Timer
  <2>3. timers'.deleted \subseteq 1 .. Made
    BY <1>6, <2>1 DEF Nodes, Becomes
  <2> QED BY <1>0, <1>6, <2>2, <2>3 DEF Nodes, Becomes
<1>12. Timed(n - 1, r)'
  <2>1. \A g \in Client' : g \in Client /\ timerOf[g] # t
    BY <1>0, <1>3, <1>0t DEF Timed
  <2>2. \A g \in Client' : \E i \in 1 .. n - 1 : timerOf'[g] = r[i]
    <3> SUFFICES ASSUME NEW g \in Client' PROVE \E i \in 1 .. n - 1 : timerOf'[g] = r[i]
      OBVIOUS
    <3>1. PICK i \in 1 .. n : timerOf[g] = s[i]
      BY <1>3, <2>1 DEF Timed
    <3>2. s[i] # t
      BY <2>1, <3>1
    <3> QED BY <1>0, <1>7, <3>1, <3>2
  <2>3. \A g, h \in Client' : timerOf'[g] = timerOf'[h] => g = h
    BY <1>0, <1>3, <2>1 DEF Timed
  <2> QED BY <2>2, <2>3 DEF Timed
<1>13. \A i \in 1 .. n - 1 : r[i] <= Made
  BY <1>7, <1>10
<1>14. n - 1 \in 0 .. Made
  BY <1>1, <1>4
<1> QED BY <1>0, <1>6, <1>7, <1>11, <1>12, <1>13, <1>14 DEF ListInv, Becomes

\* The connection of an event that is handled is open.
LEMMA EventsClient ==
    ASSUME IInv, NEW e, NEW b \in {"close", "read", "write"}, Handling(e, b),
           b = "read" => e.fd # Pipe
    PROVE  e.fd \in Client
<1>1. e.fd \in Fd
  BY ForConnections DEF IInv
<1>2. InBatch(e.fd)
  BY DEF Handling, InBatch
<1>3. reg[e.fd] # "none"
  BY <1>1, <1>2 DEF IInv, One, Exactly, Counted
<1> QED BY <1>1, <1>3 DEF Client

LEMMA ListStep ==
    ASSUME TInv, TInv', Nodes, ListInv, [Next]_vars PROVE Nodes' /\ ListInv'
<1>0. IInv /\ Backlog /\ Rest /\ Clock /\ Clock'
  <2>1. Clock
    BY ClockOf DEF TInv
  <2>2. Clock'
    <3>1. (Backlog /\ Rest)'
      BY DEF TInv
    <3>2. /\ now' \in 0 .. MaxTime /\ MaxTime \in Nat /\ NumTimers \in Nat
          /\ arrivals' \in 0 .. NumTimers /\ waiting' \in 0 .. arrivals'
      BY <3>1, SizesAssumption DEF Backlog, Rest
    <3>3. \A m, n, a, b : m \in Nat /\ n \in 0 .. m /\ a \in 0 .. n => n - a \in 0 .. m
      OBVIOUS
    <3>4. now' \in Nat
      BY <3>2
    <3>5. arrivals' - waiting' \in 0 .. NumTimers
      BY <3>2, <3>3
    <3> QED BY <3>4, <3>5 DEF Clock, Made
  <2> QED BY <2>1, <2>2 DEF TInv
<1>1. now \in Nat /\ Made \in Nat
  BY <1>0 DEF Clock
<1>2. ASSUME NEW e, HandleEvent(e) PROVE Nodes' /\ ListInv'
  <2>1. ASSUME NEW f \in Fd, AddClient(e, f) PROVE Nodes' /\ ListInv'
    <3>1. Handling(e, "listen") /\ waiting' = waiting - 1 /\ UNCHANGED <<main, arrivals, bell>>
      BY <2>1 DEF AddClient
    <3>2. waiting >= 1 /\ arrivals \in Nat /\ waiting \in Nat
      BY <1>0, <3>1, Accepted DEF Backlog
    <3> QED BY <1>0, <2>1, <3>2, ListAdd
  <2>2. CASE Busy(e)
    <3>1. /\ UNCHANGED <<timers, timerOf, now, arrivals, reg>> /\ waiting' = waiting - 1
          /\ Made <= Made'
      BY <1>0, <2>2 DEF Busy, clock, Made, Backlog
    <3> QED BY <1>0, <1>1, <3>1, ListKept
  <2>3. CASE CloseConn(e)
    <3>1. /\ UNCHANGED <<timers, timerOf, now, arrivals, waiting>>
          /\ Closes(e.fd) /\ Handling(e, "close")
      BY <2>3 DEF CloseConn, clock
    <3>2. \A f \in Fd : reg[f] = "none" => reg'[f] = "none"
      <4>1. e.fd \in Client
        BY <1>0, <3>1, EventsClient
      <4>2. reg' = [reg EXCEPT ![e.fd] = "none"]
        BY <1>0, <3>1, <4>1, Descriptors DEF Closes, Client, IInv, Sockets
      <4> QED BY <1>0, <4>2 DEF IInv, Typing
    <3>3. Made' = Made
      BY <3>1 DEF Made
    <3> QED BY <1>0, <1>1, <3>1, <3>2, <3>3, ListKept
  <2>4. CASE DealRead(e) \/ DealWrite(e)
    <3>1. PICK b \in {"read", "write"} : Handling(e, b) /\ (b = "read" => e.fd # Pipe)
      BY <2>4 DEF DealRead, DealWrite
    <3>2. e.fd \in Client
      BY <1>0, <3>1, EventsClient
    <3>3. Adjust(e.fd) /\ UNCHANGED <<arrivals, waiting>>
      BY <2>4 DEF DealRead, DealWrite
    <3>4. reg' = reg \/ \E new \in {"in", "out"} : reg' = [reg EXCEPT ![e.fd] = new]
      BY <2>4 DEF DealRead, DealWrite
    <3>5. \A g \in Fd : reg'[g] = "none" <=> reg[g] = "none"
      BY <1>0, <3>2, <3>4 DEF IInv, Typing, Client
    <3> QED BY <1>0, <3>2, <3>3, <3>5, ListAdjust
  <2>5. CASE DealReadFails(e) \/ DealWriteEnds(e)
    <3>1. PICK b \in {"read", "write"} : Handling(e, b) /\ (b = "read" => e.fd # Pipe)
      BY <2>5 DEF DealReadFails, DealWriteEnds
    <3>2. e.fd \in Client
      BY <1>0, <3>1, EventsClient
    <3>3. Drop(e.fd) /\ UNCHANGED <<arrivals, waiting>>
      BY <2>5 DEF DealReadFails, DealWriteEnds
    <3> QED BY <1>0, <3>2, <3>3, ListDrop
  <2>6. CASE HandlePipe(e)
    <3>1. UNCHANGED <<timers, timerOf, now, arrivals, waiting>>
      BY <2>6 DEF HandlePipe, clock
    <3>2. \A f \in Fd : reg[f] = "none" => reg'[f] = "none"
      <4>1. UNCHANGED reg \/ Closes(Pipe)
        BY <2>6 DEF HandlePipe
      <4>2. UNCHANGED reg \/ reg' = [reg EXCEPT ![sockfd[Pipe]] = "none"]
        BY <4>1 DEF Closes, users
      <4> QED BY <1>0, <4>2 DEF IInv, Typing
    <3>3. Made' = Made
      BY <3>1 DEF Made
    <3> QED BY <1>0, <1>1, <3>1, <3>2, <3>3, ListKept
  <2> QED BY <1>2, <2>1, <2>2, <2>3, <2>4, <2>5, <2>6 DEF HandleEvent, DealListen
<1>3. CASE Poll
  <2>1. UNCHANGED <<timers, timerOf, now, arrivals, waiting>>
    BY <1>3 DEF Poll, clock
  <2>2. \A f \in Fd : reg[f] = "none" => reg'[f] = "none"
    BY <1>3 DEF Poll, Due, Writable
  <2>3. Made' = Made
    BY <2>1 DEF Made
  <2> QED BY <1>0, <1>1, <2>1, <2>2, <2>3, ListKept
<1>4. ASSUME NEW w, NEW f \in Fd, ProcessAny(w, f) PROVE Nodes' /\ ListInv'
  <2>1. UNCHANGED <<timers, timerOf, now, arrivals, waiting>>
    BY <1>4 DEF ProcessAny, Incomplete, Complete, BadRequest, NoFile, Process, clock
  <2>2. \E new : reg' = [reg EXCEPT ![f] = IF reg[f] = "none" THEN reg[f] ELSE new]
    BY <1>4 DEF ProcessAny, Incomplete, Complete, BadRequest, NoFile, Process
  <2>3. \A g \in Fd : reg[g] = "none" => reg'[g] = "none"
    BY <1>0, <2>2 DEF IInv, Typing
  <2>4. Made' = Made
    BY <2>1 DEF Made
  <2> QED BY <1>0, <1>1, <2>1, <2>3, <2>4, ListKept
<1>5. CASE EventsDone \/ (Environment /\ ~TimePasses /\ ~Connect) \/ UNCHANGED vars
             \/ \E w : Take(w)
  <2>1. UNCHANGED <<timers, timerOf, now, arrivals, waiting, reg>>
    BY <1>5 DEF EventsDone, Environment, Send, Shut, PeerStep, Raise, vars, Take, kernel, clock
  <2>2. Made' = Made
    BY <2>1 DEF Made
  <2> QED BY <1>0, <1>1, <2>1, <2>2, ListKept
<1>6. CASE TimePasses \/ Connect
  <2>1. /\ UNCHANGED <<timers, timerOf, reg>> /\ now <= now'
        /\ (UNCHANGED <<arrivals, waiting>> \/ (arrivals' = arrivals + 1 /\ waiting' = waiting + 1))
    BY <1>1, <1>6 DEF TimePasses, Connect, kernel, clock
  <2>2. Made' = Made
    BY <1>0, <2>1 DEF Made, Backlog
  <2> QED BY <1>0, <1>1, <2>1, <2>2, ListKept
<1> QED BY <1>2, <1>3, <1>4, <1>5, <1>6 DEF Next, MainStep, WorkerStep

LEMMA ListAlways == Spec => [](TInv /\ Nodes /\ ListInv)
<1>1. TInv /\ Nodes /\ ListInv /\ [Next]_vars => (TInv /\ Nodes /\ ListInv)'
  BY TypesStep, ListStep
<1> QED BY <1>1, TypesInit, ListInit, PTL DEF Spec

\* What the invariant says of the list.
LEMMA ListOf ==
    ASSUME TInv, Nodes, ListInv
    PROVE  \E n \in 0 .. NumTimers : \E s \in [1 .. n -> Timer] :
               /\ Sound(timers) /\ Linked(timers) = Among(n, s)
               /\ Timed(n, s)
<1>1. NumTimers \in Nat /\ Made \in 0 .. NumTimers /\ timers \in ListType
  BY ClockOf, SizesAssumption DEF TInv, Clock, Nodes
<1>2. PICK n \in 0 .. Made : \E s \in [1 .. n -> Timer] :
              /\ SoundList(timers, n, s)
              /\ \A i \in 1 .. n : s[i] <= Made
              /\ Timed(n, s)
  BY DEF ListInv
<1>3. PICK s \in [1 .. n -> Timer] : SoundList(timers, n, s) /\ Timed(n, s)
  BY <1>2
<1>4. n \in 0 .. NumTimers
  BY <1>1
<1>5. Sound(timers) /\ Linked(timers) = Among(n, s)
  BY <1>1, <1>3, <1>4, SoundLists
<1> QED BY <1>3, <1>4, <1>5

(***************************************************************************)
(* The timers of version2.0 stay an ascending, doubly linked list without  *)
(* deleted nodes (lst_timer.cpp), for any number of connections.           *)
(***************************************************************************)
THEOREM TimersAlwaysSound == Spec => []TimersSound
<1>1. TInv /\ Nodes /\ ListInv => TimersSound
  BY ListOf DEF TimersSound
<1> QED BY <1>1, ListAlways, PTL

(***************************************************************************)
(* Every open connection has a timer of its own in the list (add_client,   *)
(* adjust_timer and del_timer of server.cpp).                              *)
(***************************************************************************)
THEOREM EachHasItsTimer == Spec => []EveryoneTimed
<1>1. TInv /\ Nodes /\ ListInv => EveryoneTimed
  BY ListOf DEF EveryoneTimed, Timed, Among
<1> QED BY <1>1, ListAlways, PTL

-------------------------------------------------------------------------------
(* What is sent after a short write.                                       *)

(* What is offered next is what follows the have bytes that were sent: the *)
(* rest of the header and the file, or the rest of the file.               *)

InHeader(r, header, file) ==
    /\ r.have \in Nat /\ r.have < header /\ r.left = header + file - r.have
    /\ r.base0 = r.have /\ r.len0 = header - r.have
    /\ r.base1 = 0 /\ r.len1 = file

InFile(r, header, file) ==
    /\ r.have \in Nat /\ r.have >= header /\ r.left = header + file - r.have
    /\ r.len0 = 0
    /\ r.base1 = r.have - header /\ r.len1 = r.left

InOrder(r, header, file) == InHeader(r, header, file) \/ InFile(r, header, file)

\* The header is not sent yet, but as much of it is as was left before this call.
Skips(r, header, n) == r.have + n < header /\ r.have + n >= r.len0

LEMMA ResponseInOrder ==
    ASSUME NEW header \in Nat, header > 0, NEW file \in Nat
    PROVE  InHeader(Response(header, file), header, file)
BY DEF Response, InHeader

LEMMA AfterFields ==
    ASSUME NEW r, NEW header \in Int, NEW n \in Int, {r.have, r.left, r.len0} \subseteq Int
    PROVE  /\ After(r, header, n).have = r.have + n
           /\ After(r, header, n).left = r.left - n
           /\ r.have + n >= r.len0 => /\ After(r, header, n).len0 = 0
                                      /\ After(r, header, n).base1 = r.have + n - header
                                      /\ After(r, header, n).len1 = r.left - n
           /\ ~(r.have + n >= r.len0) => /\ After(r, header, n).base0 = r.have + n
                                         /\ After(r, header, n).len0 = r.len0 - n
                                         /\ After(r, header, n).base1 = r.base1
                                         /\ After(r, header, n).len1 = r.len1
BY DEF After

(***************************************************************************)
(* http_conn.cpp:302-314: whatever writev takes, the next call offers what *)
(* follows, unless the test for the end of the header skips a part of it.  *)
(***************************************************************************)
THEOREM StaysInOrder ==
    ASSUME NEW header \in Nat, NEW file \in Nat, NEW r, InOrder(r, header, file),
           NEW n \in 0 .. Offered(r, 2), ~Skips(r, header, n)
    PROVE  InOrder(After(r, header, n), header, file)
<1>1. CASE InHeader(r, header, file)
  <2>1. n \in Nat /\ n <= header - r.have + file
    BY <1>1 DEF InHeader, Offered
  <2>2. CASE r.have + n >= header
    <3>1. InFile(After(r, header, n), header, file)
      BY <1>1, <2>1, <2>2, AfterFields DEF InHeader, InFile
    <3> QED BY <3>1 DEF InOrder
  <2>3. CASE r.have + n < header
    <3>1. InHeader(After(r, header, n), header, file)
      BY <1>1, <2>1, <2>3, AfterFields DEF InHeader, Skips
    <3> QED BY <3>1 DEF InOrder
  <2> QED BY <1>1, <2>1, <2>2, <2>3 DEF InHeader
<1>2. CASE InFile(r, header, file)
  <2>1. n \in Nat /\ n <= r.left
    BY <1>2 DEF InFile, Offered
  <2>2. InFile(After(r, header, n), header, file)
    BY <1>2, <2>1, AfterFields DEF InFile
  <2> QED BY <2>2 DEF InOrder
<1> QED BY <1>1, <1>2 DEF InOrder

(***************************************************************************)
(* The first call never skips anything: one short write is harmless.       *)
(***************************************************************************)
THEOREM FirstWriteSafe ==
    ASSUME NEW header \in Nat, header > 0, NEW file \in Nat,
           NEW n \in 0 .. Offered(Response(header, file), 2)
    PROVE  InOrder(After(Response(header, file), header, n), header, file)
<1> DEFINE r == Response(header, file)
<1>1. InHeader(r, header, file) /\ r.have = 0 /\ r.len0 = header
  BY ResponseInOrder DEF Response
<1>2. ~Skips(r, header, n)
  BY <1>1 DEF Skips, Response, Offered
<1> HIDE DEF r
<1>3. n \in 0 .. Offered(r, 2)
  BY DEF r
<1>4. InOrder(After(r, header, n), header, file)
  BY <1>1, <1>2, <1>3, StaysInOrder DEF InOrder
<1> QED BY <1>4 DEF r

(***************************************************************************)
(* http_conn.cpp:307 compares with what is left of the header, not with    *)
(* the header.  When a second call stops in the second half of it, the     *)
(* rest of the header is skipped: of a file what lies before it in memory  *)
(* is offered next, and of an error page nothing at all, although bytes    *)
(* are left, so that the loop of write does not end.                       *)
(***************************************************************************)
THEOREM SkipsHeader ==
    ASSUME NEW header \in Nat, NEW file \in Nat, NEW r, InHeader(r, header, file),
           NEW n \in Nat, Skips(r, header, n)
    PROVE  LET s == After(r, header, n)
           IN  /\ s.base1 < 0 /\ s.left > 0
               /\ Offered(s, 1) = 0
               /\ ~InOrder(s, header, file)
<1> DEFINE s == After(r, header, n)
<1>1. /\ s.have = r.have + n /\ s.len0 = 0 /\ s.base1 = r.have + n - header
      /\ s.left = header + file - (r.have + n)
  BY AfterFields DEF Skips, InHeader
<1> HIDE DEF s
<1>2. s.base1 < 0 /\ s.left > 0 /\ s.have < header /\ s.have \in Nat
  BY <1>1 DEF Skips, InHeader
<1>3. Offered(s, 1) = 0
  BY <1>1 DEF Offered
<1>4. ~InOrder(s, header, file)
  BY <1>1, <1>2 DEF InOrder, InHeader, InFile
<1>5. s.base1 < 0 /\ s.left > 0 /\ Offered(s, 1) = 0 /\ ~InOrder(s, header, file)
  BY <1>2, <1>3, <1>4
<1> QED BY <1>5 DEF s

(***************************************************************************)
(* It does happen: two short writes are enough, for every header of four   *)
(* bytes or more and for any file.                                         *)
(***************************************************************************)
THEOREM TwoShortWrites ==
    ASSUME NEW header \in Nat, header >= 4, NEW file \in Nat
    PROVE  LET r == After(Response(header, file), header, header - 2)
           IN  InHeader(r, header, file) /\ Skips(r, header, 1)
<1> DEFINE q == Response(header, file)
           r == After(q, header, header - 2)
<1>1. /\ q.have = 0 /\ q.left = header + file /\ q.len0 = header /\ q.base1 = 0
      /\ q.len1 = file
  BY DEF Response
<1> HIDE DEF q
<1>2. /\ r.have = header - 2 /\ r.left = 2 + file /\ r.base0 = header - 2 /\ r.len0 = 2
      /\ r.base1 = 0 /\ r.len1 = file
  BY <1>1, AfterFields
<1> HIDE DEF r
<1>3. InHeader(r, header, file) /\ Skips(r, header, 1)
  BY <1>2 DEF InHeader, Skips
<1> QED BY <1>3 DEF r, q
===============================================================================
