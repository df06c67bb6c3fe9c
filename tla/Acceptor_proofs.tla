---------------------------- MODULE Acceptor_proofs ----------------------------
(***************************************************************************)
(* Theorems about Acceptor, for any number of loops, peers and descriptors.*)
(***************************************************************************)
EXTENDS Acceptor, SequenceLemmas, FunctionTheorems, FiniteSetTheorems

\* The loops that are started are the first ones, and all are when the main thread listens.
StartOK ==
    /\ \A i \in 1 .. Len(loops) : loops[i] = i - 1 /\ Published(loops[i])
    /\ main \in {"test", "asleep"} => Len(loops) < NumThreads
    /\ main \in {"poll", "accept", "conn"} => Len(loops) = NumThreads

\* A peer is where at says, and there once: this is why no step takes a peer from a place
\* that it has left.
BacklogOK ==
    \A i \in 1 .. Len(backlog) :
        /\ at[backlog[i]] = "backlog"
        /\ \A j \in 1 .. Len(backlog) : backlog[i] = backlog[j] => i = j

QueueOK ==
    \A t \in Thread : \A i \in 1 .. Len(queue[t]) :
        /\ at[queue[t][i]] = "queued" /\ loopOf[queue[t][i]] = t
        /\ \A j \in 1 .. Len(queue[t]) : queue[t][i] = queue[t][j] => i = j

\* The listener at each place of the main loop.
Hearing ==
    Leaked = {} =>
        /\ main \in {"poll", "accept", "conn"} => armed /\ last
        /\ main = "conn" => events
        /\ main \in {"poll", "conn"} => (backlog # <<>> => edge \/ cut)

\* Descriptors: each belongs to one peer.
Owned ==
    /\ open = {fdOf[c] : c \in Holding}
    /\ \A c, d \in Holding : fdOf[c] = fdOf[d] => c = d
    /\ \A c \in Holding : fdOf[c] \in Fd /\ fdOf[c] < MaxFds

\* The loops before next are one connection ahead of the others.
Ahead(k) ==
    \A t \in Thread : /\ IsFiniteSet(Given(t))
                      /\ Cardinality(Given(t)) = IF t < next THEN k + 1 ELSE k

Turns == (\A c \in Client : at[c] \notin {"refused", "leaked"}) => \E k \in Nat : Ahead(k)

(***************************************************************************)
(* The inductive invariant.                                                *)
(***************************************************************************)
IInv == TypeOK /\ StartOK /\ BacklogOK /\ QueueOK /\ Hearing /\ Owned /\ Turns

-------------------------------------------------------------------------------
(* Lemmas about the operators of the model.                                *)

\* Min returns a member of the set: accept returns a descriptor that is free.
LEMMA MinIsMember ==
    ASSUME NEW S \in SUBSET Nat, S # {}
    PROVE  Min(S) \in S
BY LeastMember DEF Min

LEMMA FreeIsFree ==
    ASSUME Free # {}
    PROVE  Min(Free) \in Fd /\ Min(Free) \notin open
<1>1. Free \in SUBSET Nat
  BY SizesAssumption DEF Free, Fd
<1> QED BY <1>1, MinIsMember DEF Free

LEMMA NextLoopType ==
    ASSUME next \in Thread
    PROVE  NextLoop \in Thread
BY SizesAssumption DEF NextLoop, Thread

\* The loop whose turn it is.
LEMMA NextHasLoop ==
    ASSUME StartOK, main = "accept", loops \in Seq(Thread), next \in Thread
    PROVE  loops[next + 1] = next
<1>1. next \in Nat /\ next + 1 \in 1 .. NumThreads
  BY SizesAssumption DEF Thread
<1>2. Len(loops) = NumThreads
  BY DEF StartOK
<1> QED BY <1>1, <1>2 DEF StartOK

-------------------------------------------------------------------------------
(* Types.  The Boolean variables and the others, apart: no prover does     *)
(* both well.                                                              *)
Flags == {edge, events, last, armed, cut} \subseteq BOOLEAN

Data == /\ main \in {"start", "test", "asleep", "poll", "accept", "conn"}
        /\ thread \in [Thread -> {"none", "born", "ready", "looping"}]
        /\ loops \in Seq(Thread) /\ Len(loops) <= NumThreads
        /\ next \in Thread
        /\ backlog \in Seq(Client)
        /\ at \in [Client -> {"away", "backlog", "queued", "served", "refused", "leaked",
                             "closed"}]
        /\ fdOf \in [Client -> Fd \cup {0}]
        /\ loopOf \in [Client -> Thread]
        /\ open \subseteq Fd
        /\ queue \in [Thread -> Seq(Client)]

LEMMA FlagsAndData == /\ TypeOK <=> Flags /\ Data
                      /\ TypeOK' <=> Flags' /\ Data'
BY DEF TypeOK, Flags, Data

LEMMA FlagsStep == Flags /\ [Next]_vars => Flags'
<1> SUFFICES ASSUME Flags, [Next]_vars
             PROVE  Flags'
  OBVIOUS
<1>1. CASE MainStep
  BY <1>1 DEF Flags, MainStep, StartThread, Test, Listen, Poll, HandNewConn, Drained,
              AcceptFails, Accept, HandOver, Refuse, NonBlockFails, HandThisConn, pool,
              listener
<1>2. CASE Spurious
  BY <1>2 DEF Flags, Spurious, listener
<1>3. ASSUME NEW t \in Thread, ThreadStep(t)
      PROVE  Flags'
  BY <1>3 DEF Flags, ThreadStep, Publish, BeginLoop, NewEvent, listener
<1>4. ASSUME NEW c \in Client, Connect(c) \/ CloseConn(c)
      PROVE  Flags'
  BY <1>4 DEF Flags, Connect, CloseConn, listener
<1>5. CASE UNCHANGED vars
  BY <1>5 DEF Flags, vars, listener
<1> QED BY <1>1, <1>2, <1>3, <1>4, <1>5 DEF Next

LEMMA DataStep == Data /\ StartOK /\ [Next]_vars => Data'
<1> SUFFICES ASSUME Data, StartOK, [Next]_vars
             PROVE  Data'
  OBVIOUS
<1> USE DEF Data
<1>1. CASE StartThread
  BY <1>1 DEF StartThread, listener, clients
<1>2. CASE Test
  <2>1. Len(loops) \in Nat
    BY LenProperties
  <2>2. Len(loops) \in Thread /\ Len(loops) + 1 <= NumThreads
    BY <1>2, <2>1, SizesAssumption DEF Test, StartOK, Thread
  <2>3. loops' = loops \/ loops' = Append(loops, Len(loops))
    BY <1>2 DEF Test
  <2>4. /\ Append(loops, Len(loops)) \in Seq(Thread)
        /\ Len(Append(loops, Len(loops))) = Len(loops) + 1
    BY <2>2, AppendProperties
  <2>5. loops' \in Seq(Thread) /\ Len(loops') <= NumThreads
    BY <2>2, <2>3, <2>4
  <2> QED BY <1>2, <2>5 DEF Test, listener, clients
<1>3. CASE Listen
  BY <1>3 DEF Listen, pool, clients
<1>4. CASE Poll
  BY <1>4 DEF Poll, pool, clients
<1>5. CASE Drained
  BY <1>5 DEF Drained, pool, clients
<1>6. CASE AcceptFails
  BY <1>6 DEF AcceptFails, pool, clients
<1>7. ASSUME NEW c \in Client, NEW fd \in Fd, HandOver(c, fd)
      PROVE  Data'
  <2>1. loops[next + 1] \in Thread
    BY <1>7, NextHasLoop DEF HandOver, Accepting
  <2>2. queue[loops[next + 1]] \in Seq(Client)
    BY <2>1
  <2>3. queue' \in [Thread -> Seq(Client)]
    BY <1>7, <2>1, <2>2 DEF HandOver, Submit
  <2>4. backlog' \in Seq(Client)
    BY <1>7 DEF HandOver, Accepting
  <2> QED BY <1>7, <2>1, <2>3, <2>4, NextLoopType DEF HandOver
<1>8. ASSUME NEW c \in Client, NEW fd \in Fd, Refuse(c, fd)
      PROVE  Data'
  BY <1>8, NextLoopType DEF Refuse, Accepting, OpenAfterRefusal
<1>9. ASSUME NEW c \in Client, NEW fd \in Fd, NonBlockFails(c, fd)
      PROVE  Data'
  BY <1>9, NextLoopType DEF NonBlockFails, Accepting
<1>10. CASE HandThisConn
  BY <1>10 DEF HandThisConn, pool, clients
<1>11. CASE Spurious
  BY <1>11 DEF Spurious, pool, listener, clients
<1>12. ASSUME NEW t \in Thread, Publish(t) \/ BeginLoop(t)
       PROVE  Data'
  BY <1>12 DEF Publish, BeginLoop, listener, clients
<1>13. ASSUME NEW t \in Thread, NewEvent(t)
       PROVE  Data'
  BY <1>13 DEF NewEvent, pool, listener
<1>14. ASSUME NEW c \in Client, Connect(c)
       PROVE  Data'
  BY <1>14 DEF Connect, pool
<1>15. ASSUME NEW c \in Client, CloseConn(c)
       PROVE  Data'
  BY <1>15 DEF CloseConn, pool, listener
<1>16. CASE UNCHANGED vars
  BY <1>16 DEF vars, pool, listener, clients
<1> QED BY <1>1, <1>2, <1>3, <1>4, <1>5, <1>6, <1>7, <1>8, <1>9, <1>10, <1>11, <1>12,
           <1>13, <1>14, <1>15, <1>16
        DEF Next, MainStep, HandNewConn, Accept, ThreadStep

LEMMA TypeInit == Init => TypeOK
<1>1. Init => Flags
  BY DEF Init, Flags
<1>2. Init => Data
  BY SizesAssumption DEF Init, Data, Thread
<1> QED BY <1>1, <1>2, FlagsAndData

-------------------------------------------------------------------------------
(* Sequences without repetition.                                           *)
Distinct(q) == \A i, j \in 1 .. Len(q) : q[i] = q[j] => i = j

LEMMA TailOfDistinct ==
    ASSUME NEW S, NEW q \in Seq(S), q # <<>>, Distinct(q)
    PROVE  /\ Head(q) = q[1] /\ 1 \in 1 .. Len(q)
           /\ Distinct(Tail(q))
           /\ \A i \in 1 .. Len(Tail(q)) :
                 /\ Tail(q)[i] # Head(q)
                 /\ \E k \in 1 .. Len(q) : Tail(q)[i] = q[k]
<1>1. /\ Len(q) \in Nat /\ Len(Tail(q)) = Len(q) - 1
      /\ \A i \in 1 .. Len(Tail(q)) : Tail(q)[i] = q[i + 1]
  BY HeadTailProperties, LenProperties
<1>2. Len(q) > 0 /\ Head(q) = q[1]
  BY <1>1
<1>3. \A i \in 1 .. Len(Tail(q)) : i + 1 \in 1 .. Len(q) /\ i + 1 # 1
  BY <1>1
<1> QED BY <1>1, <1>2, <1>3 DEF Distinct

LEMMA AppendToDistinct ==
    ASSUME NEW S, NEW q \in Seq(S), NEW e \in S, Distinct(q),
           \A i \in 1 .. Len(q) : q[i] # e
    PROVE  /\ Distinct(Append(q, e))
           /\ \A i \in 1 .. Len(Append(q, e)) :
                 Append(q, e)[i] = e \/ \E k \in 1 .. Len(q) : Append(q, e)[i] = q[k]
<1>1. /\ Len(q) \in Nat /\ Len(Append(q, e)) = Len(q) + 1
      /\ \A i \in 1 .. Len(q) : Append(q, e)[i] = q[i]
      /\ Append(q, e)[Len(q) + 1] = e
  BY AppendProperties, LenProperties
<1>2. \A i \in 1 .. Len(Append(q, e)) : i \in 1 .. Len(q) \/ i = Len(q) + 1
  BY <1>1
<1> QED BY <1>1, <1>2 DEF Distinct

-------------------------------------------------------------------------------
(* The start of the loops.                                                 *)
LEMMA StartStep == Data /\ StartOK /\ [Next]_vars => StartOK'
<1> SUFFICES ASSUME Data, StartOK, [Next]_vars
             PROVE  StartOK'
  OBVIOUS
<1> USE DEF StartOK, Published
<1>0. Len(loops) \in Nat
  BY LenProperties DEF Data
<1>1. CASE StartThread
  <2>1. \A i \in 1 .. Len(loops) : loops[i] # Len(loops) /\ loops[i] \in Thread
    BY <1>0 DEF Data
  <2> QED BY <1>1, <2>1 DEF StartThread, Data
<1>2. CASE Test
  <2>1. CASE MayReturn(Len(loops))
    <3>1. /\ loops' = Append(loops, Len(loops)) /\ main' = "start" /\ thread' = thread
          /\ Published(Len(loops)) /\ Len(loops) < NumThreads
      BY <1>2, <2>1 DEF Test, MayReturn
    <3>2. Len(loops) \in Thread
      BY <1>0, <3>1, SizesAssumption DEF Thread
    <3>3. /\ Len(loops') = Len(loops) + 1
          /\ \A i \in 1 .. Len(loops) : loops'[i] = loops[i]
          /\ loops'[Len(loops) + 1] = Len(loops)
      BY <3>1, <3>2, AppendProperties DEF Data
    <3>4. \A i \in 1 .. Len(loops') : i \in 1 .. Len(loops) \/ i = Len(loops) + 1
      BY <1>0, <3>3
    <3> QED BY <1>0, <3>1, <3>3, <3>4
  <2>2. CASE ~ MayReturn(Len(loops))
    BY <1>2, <2>2 DEF Test
  <2> QED BY <2>1, <2>2
<1>3. CASE Listen
  BY <1>3 DEF Listen, pool
<1>4. CASE Poll \/ HandThisConn \/ Drained \/ AcceptFails \/ Spurious
  BY <1>4 DEF Poll, HandThisConn, Drained, AcceptFails, Spurious, pool
<1>5. ASSUME NEW c \in Client, Accept(c)
      PROVE  StartOK'
  BY <1>5 DEF Accept, HandOver, Refuse, NonBlockFails, Accepting
<1>6. ASSUME NEW t \in Thread, Publish(t) \/ BeginLoop(t)
      PROVE  StartOK'
  <2>1. /\ \A u \in Thread : thread[u] \in {"ready", "looping"}
                             => thread'[u] \in {"ready", "looping"}
        /\ loops' = loops
    BY <1>6 DEF Publish, BeginLoop, Data
  <2>2. main' = main \/ (main = "asleep" /\ main' = "test")
    BY <1>6 DEF Publish, BeginLoop
  <2>3. \A i \in 1 .. Len(loops) : loops[i] \in Thread
    BY <1>0 DEF Data
  <2> QED BY <2>1, <2>2, <2>3
<1>7. ASSUME NEW t \in Thread, NewEvent(t)
      PROVE  StartOK'
  BY <1>7 DEF NewEvent, pool
<1>8. ASSUME NEW c \in Client, Connect(c) \/ CloseConn(c)
      PROVE  StartOK'
  BY <1>8 DEF Connect, CloseConn, pool
<1>9. CASE UNCHANGED vars
  BY <1>9 DEF vars, pool
<1> QED BY <1>1, <1>2, <1>3, <1>4, <1>5, <1>6, <1>7, <1>8, <1>9
        DEF Next, MainStep, HandNewConn, ThreadStep

-------------------------------------------------------------------------------
(* Where the peers are.                                                    *)

\* What accept takes is the first of the backlog.
LEMMA Taken ==
    ASSUME Data, BacklogOK, NEW c \in Client, NEW fd, Accepting(c, fd)
    PROVE  /\ at[c] = "backlog"
           /\ fd \in Fd /\ fd \notin open
           /\ \A i \in 1 .. Len(backlog') :
                 backlog'[i] # c /\ \E k \in 1 .. Len(backlog) : backlog'[i] = backlog[k]
           /\ Distinct(backlog')
<1>1. Distinct(backlog)
  BY DEF BacklogOK, Distinct
<1>2. /\ backlog \in Seq(Client) /\ backlog # <<>>
      /\ c = Head(backlog) /\ backlog' = Tail(backlog)
  BY DEF Data, Accepting
<1>3. /\ Head(backlog) = backlog[1] /\ 1 \in 1 .. Len(backlog)
      /\ Distinct(Tail(backlog))
      /\ \A i \in 1 .. Len(Tail(backlog)) :
            /\ Tail(backlog)[i] # Head(backlog)
            /\ \E k \in 1 .. Len(backlog) : Tail(backlog)[i] = backlog[k]
  BY <1>1, <1>2, TailOfDistinct, Zenon
<1>4. fd \in Fd /\ fd \notin open
  BY FreeIsFree DEF Accepting
<1>5. at[c] = "backlog"
  BY <1>2, <1>3 DEF BacklogOK
<1> QED BY <1>2, <1>3, <1>4, <1>5

\* What a loop takes is the first of its queue.
LEMMA Dequeued ==
    ASSUME Data, QueueOK, NEW t \in Thread, queue[t] # <<>>
    PROVE  /\ Head(queue[t]) \in Client /\ at[Head(queue[t])] = "queued"
           /\ loopOf[Head(queue[t])] = t
           /\ Distinct(Tail(queue[t]))
           /\ \A i \in 1 .. Len(Tail(queue[t])) :
                 /\ Tail(queue[t])[i] # Head(queue[t])
                 /\ \E k \in 1 .. Len(queue[t]) : Tail(queue[t])[i] = queue[t][k]
<1>1. queue[t] \in Seq(Client)
  BY DEF Data
<1>2. Distinct(queue[t])
  BY DEF QueueOK, Distinct
<1>3. /\ Head(queue[t]) = queue[t][1] /\ 1 \in 1 .. Len(queue[t])
      /\ Distinct(Tail(queue[t]))
      /\ \A i \in 1 .. Len(Tail(queue[t])) :
            /\ Tail(queue[t])[i] # Head(queue[t])
            /\ \E k \in 1 .. Len(queue[t]) : Tail(queue[t])[i] = queue[t][k]
  BY <1>1, <1>2, TailOfDistinct, Zenon
<1>4. Head(queue[t]) \in Client
  BY <1>1, HeadTailProperties
<1>5. at[Head(queue[t])] = "queued" /\ loopOf[Head(queue[t])] = t
  BY <1>3 DEF QueueOK
<1> QED BY <1>3, <1>4, <1>5

\* A step that leaves the backlog alone and moves nobody who is in it.
LEMMA BacklogKept ==
    ASSUME Data, BacklogOK, backlog' = backlog,
           \A d \in Client : at[d] = "backlog" => at'[d] = "backlog"
    PROVE  BacklogOK'
<1>1. \A i \in 1 .. Len(backlog) : backlog[i] \in Client
  BY DEF Data
<1> QED BY <1>1 DEF BacklogOK

LEMMA BacklogStep == Data /\ BacklogOK /\ QueueOK /\ [Next]_vars => BacklogOK'
<1> SUFFICES ASSUME Data, BacklogOK, QueueOK, [Next]_vars
             PROVE  BacklogOK'
  OBVIOUS
<1>1. CASE StartThread \/ Test \/ Listen \/ Poll \/ Drained \/ AcceptFails \/ HandThisConn
           \/ Spurious \/ UNCHANGED vars
  <2>1. backlog' = backlog /\ at' = at
    BY <1>1 DEF StartThread, Test, Listen, Poll, Drained, AcceptFails, HandThisConn,
                Spurious, vars, listener, clients
  <2> QED BY <2>1, BacklogKept
<1>2. ASSUME NEW t \in Thread, Publish(t) \/ BeginLoop(t)
      PROVE  BacklogOK'
  <2>1. backlog' = backlog /\ at' = at
    BY <1>2 DEF Publish, BeginLoop, listener, clients
  <2> QED BY <2>1, BacklogKept
<1>3. ASSUME NEW c \in Client, Accept(c)
      PROVE  BacklogOK'
  <2>1. PICK fd \in Fd : HandOver(c, fd) \/ Refuse(c, fd) \/ NonBlockFails(c, fd)
    BY <1>3 DEF Accept
  <2>2. Accepting(c, fd)
    BY <2>1 DEF HandOver, Refuse, NonBlockFails
  <2>3. \A d \in Client \ {c} : at'[d] = at[d]
    BY <2>1 DEF HandOver, Refuse, NonBlockFails, Data
  <2>4. \A i \in 1 .. Len(backlog) : backlog[i] \in Client /\ at[backlog[i]] = "backlog"
    BY DEF Data, BacklogOK
  <2>5. /\ \A i \in 1 .. Len(backlog') :
              backlog'[i] # c /\ \E k \in 1 .. Len(backlog) : backlog'[i] = backlog[k]
        /\ Distinct(backlog')
    BY <2>2, Taken
  <2>6. ASSUME NEW i \in 1 .. Len(backlog')
        PROVE  at'[backlog'[i]] = "backlog"
    <3>1. PICK k \in 1 .. Len(backlog) : backlog'[i] = backlog[k] /\ backlog[k] # c
      BY <2>5
    <3>2. backlog[k] \in Client \ {c} /\ at[backlog[k]] = "backlog"
      BY <2>4, <3>1
    <3> QED BY <2>3, <3>1, <3>2
  <2> QED BY <2>5, <2>6 DEF BacklogOK, Distinct
<1>4. ASSUME NEW t \in Thread, NewEvent(t)
      PROVE  BacklogOK'
  <2>1. at[Head(queue[t])] = "queued"
    BY <1>4, Dequeued DEF NewEvent
  <2>2. backlog' = backlog
    BY <1>4 DEF NewEvent, listener
  <2>3. \A d \in Client : at[d] = "backlog" => at'[d] = "backlog"
    BY <1>4, <2>1 DEF NewEvent, Data
  <2> QED BY <2>2, <2>3, BacklogKept
<1>5. ASSUME NEW c \in Client, Connect(c)
      PROVE  BacklogOK'
  <2>1. \A i \in 1 .. Len(backlog) :
            backlog[i] \in Client /\ at[backlog[i]] = "backlog" /\ backlog[i] # c
    BY <1>5 DEF Data, BacklogOK, Connect
  <2>2. Distinct(backlog)
    BY DEF BacklogOK, Distinct
  <2>3. backlog' = Append(backlog, c) /\ at' = [at EXCEPT ![c] = "backlog"]
    BY <1>5 DEF Connect
  <2>4. /\ Distinct(backlog')
        /\ \A i \in 1 .. Len(backlog') :
              backlog'[i] = c \/ \E k \in 1 .. Len(backlog) : backlog'[i] = backlog[k]
    BY <2>1, <2>2, <2>3, AppendToDistinct DEF Data
  <2>5. ASSUME NEW i \in 1 .. Len(backlog')
        PROVE  at'[backlog'[i]] = "backlog"
    <3>1. CASE backlog'[i] = c
      BY <2>3, <3>1 DEF Data
    <3>2. CASE \E k \in 1 .. Len(backlog) : backlog'[i] = backlog[k]
      BY <2>1, <2>3, <3>2 DEF Data
    <3> QED BY <2>4, <3>1, <3>2
  <2> QED BY <2>4, <2>5 DEF BacklogOK, Distinct
<1>6. ASSUME NEW c \in Client, CloseConn(c)
      PROVE  BacklogOK'
  <2>1. backlog' = backlog
    BY <1>6 DEF CloseConn, listener
  <2>2. \A d \in Client : at[d] = "backlog" => at'[d] = "backlog"
    BY <1>6 DEF CloseConn, Data
  <2> QED BY <2>1, <2>2, BacklogKept
<1> QED BY <1>1, <1>2, <1>3, <1>4, <1>5, <1>6
        DEF Next, MainStep, HandNewConn, ThreadStep

\* A step that leaves the queues alone and moves nobody who is in one.
LEMMA QueueKept ==
    ASSUME Data, QueueOK, queue' = queue,
           \A d \in Client : at[d] = "queued" => at'[d] = "queued" /\ loopOf'[d] = loopOf[d]
    PROVE  QueueOK'
<1>1. \A t \in Thread : \A i \in 1 .. Len(queue[t]) : queue[t][i] \in Client
  BY DEF Data
<1> QED BY <1>1 DEF QueueOK

LEMMA QueueStep == Data /\ StartOK /\ BacklogOK /\ QueueOK /\ [Next]_vars => QueueOK'
<1> SUFFICES ASSUME Data, StartOK, BacklogOK, QueueOK, [Next]_vars
             PROVE  QueueOK'
  OBVIOUS
<1>0. \A t \in Thread : \A i \in 1 .. Len(queue[t]) :
        queue[t][i] \in Client /\ at[queue[t][i]] = "queued" /\ loopOf[queue[t][i]] = t
  BY DEF Data, QueueOK
<1>1. CASE StartThread \/ Test \/ Listen \/ Poll \/ Drained \/ AcceptFails \/ HandThisConn
           \/ Spurious \/ UNCHANGED vars
  <2>1. queue' = queue /\ at' = at /\ loopOf' = loopOf
    BY <1>1 DEF StartThread, Test, Listen, Poll, Drained, AcceptFails, HandThisConn,
                Spurious, vars, clients
  <2> QED BY <2>1, QueueKept
<1>2. ASSUME NEW t \in Thread, Publish(t) \/ BeginLoop(t)
      PROVE  QueueOK'
  <2>1. queue' = queue /\ at' = at /\ loopOf' = loopOf
    BY <1>2 DEF Publish, BeginLoop, clients
  <2> QED BY <2>1, QueueKept
<1>3. ASSUME NEW c \in Client, NEW fd \in Fd, Refuse(c, fd) \/ NonBlockFails(c, fd)
      PROVE  QueueOK'
  <2>1. at[c] = "backlog"
    BY <1>3, Taken DEF Refuse, NonBlockFails
  <2>2. queue' = queue /\ loopOf' = loopOf
    BY <1>3 DEF Refuse, NonBlockFails
  <2>3. \A d \in Client : at[d] = "queued" => at'[d] = "queued"
    BY <1>3, <2>1 DEF Refuse, NonBlockFails, Data
  <2> QED BY <2>2, <2>3, QueueKept
<1>4. ASSUME NEW c \in Client, Connect(c) \/ CloseConn(c)
      PROVE  QueueOK'
  <2>1. queue' = queue /\ loopOf' = loopOf
    BY <1>4 DEF Connect, CloseConn
  <2>2. \A d \in Client : at[d] = "queued" => at'[d] = "queued"
    BY <1>4 DEF Connect, CloseConn, Data
  <2> QED BY <2>1, <2>2, QueueKept
<1>5. ASSUME NEW c \in Client, NEW fd \in Fd, HandOver(c, fd)
      PROVE  QueueOK'
  <2>1. loops[next + 1] = next /\ next \in Thread
    BY <1>5, NextHasLoop DEF HandOver, Accepting, Data
  <2>2. at[c] = "backlog"
    BY <1>5, Taken DEF HandOver
  <2>3. /\ at' = [at EXCEPT ![c] = "queued"]
        /\ loopOf' = [loopOf EXCEPT ![c] = next]
        /\ queue' = [queue EXCEPT ![next] = Append(queue[next], c)]
    BY <1>5, <2>1 DEF HandOver, Submit
  <2>4. /\ queue[next] \in Seq(Client) /\ Distinct(queue[next])
        /\ \A i \in 1 .. Len(queue[next]) : queue[next][i] # c
    BY <1>0, <2>1, <2>2 DEF QueueOK, Distinct, Data
  <2>5. /\ Distinct(Append(queue[next], c))
        /\ \A i \in 1 .. Len(Append(queue[next], c)) :
              \/ Append(queue[next], c)[i] = c
              \/ \E k \in 1 .. Len(queue[next]) : Append(queue[next], c)[i] = queue[next][k]
    BY <2>4, AppendToDistinct
  <2>6. at'[c] = "queued" /\ loopOf'[c] = next
    BY <2>3 DEF Data
  <2>7. \A t \in Thread : \A i \in 1 .. Len(queue[t]) :
          at'[queue[t][i]] = "queued" /\ loopOf'[queue[t][i]] = t
    BY <1>0, <2>2, <2>3 DEF Data
  <2>8. ASSUME NEW t \in Thread
        PROVE  /\ Distinct(queue'[t])
               /\ \A i \in 1 .. Len(queue'[t]) :
                     at'[queue'[t][i]] = "queued" /\ loopOf'[queue'[t][i]] = t
    <3>1. CASE t = next
      <4>1. queue'[t] = Append(queue[next], c)
        BY <2>1, <2>3, <3>1 DEF Data
      <4>2. ASSUME NEW i \in 1 .. Len(Append(queue[next], c))
            PROVE  /\ at'[Append(queue[next], c)[i]] = "queued"
                   /\ loopOf'[Append(queue[next], c)[i]] = next
        BY <2>1, <2>5, <2>6, <2>7
      <4> QED BY <2>5, <3>1, <4>1, <4>2
    <3>2. CASE t # next
      <4>1. queue'[t] = queue[t]
        BY <2>3, <3>2 DEF Data
      <4>2. Distinct(queue[t])
        BY DEF QueueOK, Distinct
      <4> QED BY <2>7, <4>1, <4>2
    <3> QED BY <3>1, <3>2
  <2> QED BY <2>8 DEF QueueOK, Distinct
<1>6. ASSUME NEW t \in Thread, NewEvent(t)
      PROVE  QueueOK'
  <2> DEFINE h == Head(queue[t])
  <2>1. /\ h \in Client /\ at[h] = "queued" /\ loopOf[h] = t
        /\ Distinct(Tail(queue[t]))
        /\ \A i \in 1 .. Len(Tail(queue[t])) :
              /\ Tail(queue[t])[i] # h
              /\ \E k \in 1 .. Len(queue[t]) : Tail(queue[t])[i] = queue[t][k]
    BY <1>6, Dequeued DEF NewEvent
  <2>2. /\ at' = [at EXCEPT ![h] = "served"]
        /\ queue' = [queue EXCEPT ![t] = Tail(queue[t])]
        /\ loopOf' = loopOf
    BY <1>6 DEF NewEvent
  <2> HIDE DEF h
  <2>3. \A d \in Client \ {h} : at'[d] = at[d]
    BY <2>1, <2>2 DEF Data
  <2>4. ASSUME NEW u \in Thread
        PROVE  /\ Distinct(queue'[u])
               /\ \A i \in 1 .. Len(queue'[u]) :
                     at'[queue'[u][i]] = "queued" /\ loopOf'[queue'[u][i]] = u
    <3>1. CASE u = t
      <4>1. queue'[u] = Tail(queue[t])
        BY <2>2, <3>1 DEF Data
      <4>2. ASSUME NEW i \in 1 .. Len(Tail(queue[t]))
            PROVE  /\ at'[Tail(queue[t])[i]] = "queued"
                   /\ loopOf'[Tail(queue[t])[i]] = t
        <5>1. PICK k \in 1 .. Len(queue[t]) :
                Tail(queue[t])[i] = queue[t][k] /\ queue[t][k] # h
          BY <2>1
        <5>2. queue[t][k] \in Client \ {h}
          BY <1>0, <5>1
        <5> QED BY <1>0, <2>2, <2>3, <5>1, <5>2
      <4> QED BY <2>1, <3>1, <4>1, <4>2
    <3>2. CASE u # t
      <4>1. queue'[u] = queue[u]
        BY <2>2, <3>2 DEF Data
      <4>2. Distinct(queue[u])
        BY DEF QueueOK, Distinct
      <4>3. \A i \in 1 .. Len(queue[u]) : queue[u][i] \in Client \ {h}
        BY <1>0, <2>1, <3>2
      <4> QED BY <1>0, <2>2, <2>3, <4>1, <4>2, <4>3
    <3> QED BY <3>1, <3>2
  <2> QED BY <2>4 DEF QueueOK, Distinct
<1> QED BY <1>1, <1>2, <1>3, <1>4, <1>5, <1>6
        DEF Next, MainStep, HandNewConn, Accept, ThreadStep

-------------------------------------------------------------------------------
(* The listener.                                                           *)

\* Nobody gets out of having been leaked or refused.
LEMMA TurnedAwayForGood ==
    ASSUME Data, BacklogOK, QueueOK, [Next]_vars, NEW d \in Client,
           at[d] \in {"leaked", "refused"}
    PROVE  at'[d] = at[d]
<1>1. CASE StartThread \/ Test \/ Listen \/ Poll \/ Drained \/ AcceptFails \/ HandThisConn
           \/ Spurious \/ UNCHANGED vars
  BY <1>1 DEF StartThread, Test, Listen, Poll, Drained, AcceptFails, HandThisConn,
              Spurious, vars, clients
<1>2. ASSUME NEW t \in Thread, Publish(t) \/ BeginLoop(t)
      PROVE  at'[d] = at[d]
  BY <1>2 DEF Publish, BeginLoop, clients
<1>3. ASSUME NEW c \in Client, NEW fd \in Fd,
             HandOver(c, fd) \/ Refuse(c, fd) \/ NonBlockFails(c, fd)
      PROVE  at'[d] = at[d]
  <2>1. at[c] = "backlog"
    BY <1>3, Taken DEF HandOver, Refuse, NonBlockFails
  <2> QED BY <1>3, <2>1 DEF HandOver, Refuse, NonBlockFails, Data
<1>4. ASSUME NEW t \in Thread, NewEvent(t)
      PROVE  at'[d] = at[d]
  <2>1. at[Head(queue[t])] = "queued"
    BY <1>4, Dequeued DEF NewEvent
  <2> QED BY <1>4, <2>1 DEF NewEvent, Data
<1>5. ASSUME NEW c \in Client, Connect(c) \/ CloseConn(c)
      PROVE  at'[d] = at[d]
  BY <1>5 DEF Connect, CloseConn, Data
<1> QED BY <1>1, <1>2, <1>3, <1>4, <1>5
        DEF Next, MainStep, HandNewConn, Accept, ThreadStep

LEMMA HearingStep ==
    Flags /\ Data /\ BacklogOK /\ QueueOK /\ Hearing /\ [Next]_vars => Hearing'
<1> SUFFICES ASSUME Flags, Data, BacklogOK, QueueOK, Hearing, [Next]_vars, Leaked' = {}
             PROVE  Hearing'
  BY DEF Hearing
<1>0. Leaked = {}
  BY TurnedAwayForGood DEF Leaked
<1>1. CASE StartThread \/ Test \/ Spurious
  BY <1>1 DEF StartThread, Test, Spurious, Hearing
<1>2. CASE Listen
  BY <1>2 DEF Listen, Hearing
<1>3. CASE Poll
  BY <1>0, <1>3 DEF Poll, Hearing
<1>4. CASE Drained \/ AcceptFails
  BY <1>0, <1>4 DEF Drained, AcceptFails, Hearing
<1>5. ASSUME NEW c \in Client, NEW fd \in Fd, HandOver(c, fd) \/ Refuse(c, fd)
      PROVE  Hearing'
  BY <1>0, <1>5 DEF HandOver, Refuse, Accepting, Hearing
<1>6. ASSUME NEW c \in Client, NEW fd \in Fd, NonBlockFails(c, fd)
      PROVE  Hearing'
  BY <1>6 DEF NonBlockFails, Leaked, Data
<1>7. CASE HandThisConn
  <2>1. last /\ events /\ armed /\ (backlog # <<>> => edge \/ cut)
    BY <1>0, <1>7 DEF HandThisConn, Hearing
  <2>2. last = events
    BY <2>1, Zenon DEF Flags
  <2> QED BY <1>7, <2>1, <2>2, Zenon DEF HandThisConn, Hearing
<1>8. ASSUME NEW t \in Thread, ThreadStep(t)
      PROVE  Hearing'
  <2>1. /\ UNCHANGED <<backlog, edge, events, last, armed, cut>>
        /\ main' = main \/ (main' = "test" /\ ThreadStep(t))
    BY <1>8 DEF ThreadStep, Publish, BeginLoop, NewEvent, listener
  <2> QED BY <1>0, <2>1 DEF Hearing
<1>9. ASSUME NEW c \in Client, Connect(c)
      PROVE  Hearing'
  <2>1. /\ UNCHANGED <<main, events, last, armed, cut>>
        /\ edge' = (edge \/ armed)
    BY <1>9 DEF Connect
  <2>2. main \in {"poll", "accept", "conn"} => edge'
    BY <1>0, <2>1 DEF Hearing
  <2> QED BY <1>0, <2>1, <2>2 DEF Hearing
<1>10. ASSUME NEW c \in Client, CloseConn(c)
       PROVE  Hearing'
  BY <1>0, <1>10 DEF CloseConn, listener, Hearing
<1>11. CASE UNCHANGED vars
  BY <1>0, <1>11 DEF vars, listener, Hearing
<1> QED BY <1>1, <1>2, <1>3, <1>4, <1>5, <1>6, <1>7, <1>8, <1>9, <1>10, <1>11
        DEF Next, MainStep, HandNewConn, Accept

-------------------------------------------------------------------------------
(* Descriptors.                                                            *)

\* A step after which the same peers hold the same descriptors.
LEMMA OwnedKept ==
    ASSUME Owned, open' = open, fdOf' = fdOf, Holding' = Holding
    PROVE  Owned'
BY DEF Owned

\* A step that gives a peer who has none a free descriptor.
LEMMA OwnedGrows ==
    ASSUME Data, Owned, NEW c \in Client, c \notin Holding,
           NEW fd \in Fd, fd \notin open, ~ TooMany(fd),
           Holding' = Holding \cup {c}, open' = open \cup {fd},
           fdOf' = [fdOf EXCEPT ![c] = fd]
    PROVE  Owned'
<1>1. \A d \in Holding : fdOf'[d] = fdOf[d] /\ fdOf[d] \in open
  BY DEF Owned, Holding, Data
<1>2. fdOf'[c] = fd /\ fd < MaxFds
  BY SizesAssumption DEF Data, TooMany, Fd
<1>3. open' = {fdOf'[d] : d \in Holding'}
  BY <1>1, <1>2 DEF Owned
<1>4. \A d, e \in Holding' : fdOf'[d] = fdOf'[e] => d = e
  BY <1>1, <1>2 DEF Owned
<1>5. \A d \in Holding' : fdOf'[d] \in Fd /\ fdOf'[d] < MaxFds
  BY <1>1, <1>2 DEF Owned
<1> QED BY <1>3, <1>4, <1>5 DEF Owned

LEMMA OwnedStep == Data /\ BacklogOK /\ QueueOK /\ Owned /\ [Next]_vars => Owned'
<1> SUFFICES ASSUME Data, BacklogOK, QueueOK, Owned, [Next]_vars
             PROVE  Owned'
  OBVIOUS
<1>1. CASE StartThread \/ Test \/ Listen \/ Poll \/ Drained \/ AcceptFails \/ HandThisConn
           \/ Spurious \/ UNCHANGED vars
  <2>1. UNCHANGED clients
    BY <1>1 DEF StartThread, Test, Listen, Poll, Drained, AcceptFails, HandThisConn,
                Spurious, vars
  <2> QED BY <2>1, OwnedKept DEF clients, Holding
<1>2. ASSUME NEW t \in Thread, Publish(t) \/ BeginLoop(t)
      PROVE  Owned'
  <2>1. UNCHANGED clients
    BY <1>2 DEF Publish, BeginLoop
  <2> QED BY <2>1, OwnedKept DEF clients, Holding
<1>3. ASSUME NEW c \in Client, NEW fd \in Fd, HandOver(c, fd) \/ NonBlockFails(c, fd)
      PROVE  Owned'
  <2>1. at[c] = "backlog" /\ fd \notin open
    BY <1>3, Taken DEF HandOver, NonBlockFails
  <2>2. /\ ~ TooMany(fd) /\ open' = open \cup {fd}
        /\ fdOf' = [fdOf EXCEPT ![c] = fd]
    BY <1>3 DEF HandOver, NonBlockFails
  <2>3. c \notin Holding
    BY <2>1 DEF Holding
  <2>4. Holding' = Holding \cup {c}
    BY <1>3 DEF HandOver, NonBlockFails, Holding, Data
  <2> QED BY <2>1, <2>2, <2>3, <2>4, OwnedGrows
<1>4. ASSUME NEW c \in Client, NEW fd \in Fd, Refuse(c, fd)
      PROVE  Owned'
  <2>1. at[c] = "backlog"
    BY <1>4, Taken DEF Refuse
  <2>2. Holding' = Holding
    BY <1>4, <2>1 DEF Refuse, Holding, Data
  <2> QED BY <1>4, <2>2, OwnedKept DEF Refuse, OpenAfterRefusal
<1>5. ASSUME NEW t \in Thread, NewEvent(t)
      PROVE  Owned'
  <2>1. Head(queue[t]) \in Client /\ at[Head(queue[t])] = "queued"
    BY <1>5, Dequeued DEF NewEvent
  <2>2. Holding' = Holding
    BY <1>5, <2>1 DEF NewEvent, Holding, Data
  <2> QED BY <1>5, <2>2, OwnedKept DEF NewEvent
<1>6. ASSUME NEW c \in Client, Connect(c)
      PROVE  Owned'
  <2>1. Holding' = Holding
    BY <1>6 DEF Connect, Holding, Data
  <2> QED BY <1>6, <2>1, OwnedKept DEF Connect
<1>7. ASSUME NEW c \in Client, CloseConn(c)
      PROVE  Owned'
  <2>1. c \in Holding /\ Holding' = Holding \ {c}
    BY <1>7 DEF CloseConn, Holding, Data
  <2>2. fdOf' = fdOf /\ open' = open \ {fdOf[c]}
    BY <1>7 DEF CloseConn
  <2>3. open' = {fdOf[d] : d \in Holding \ {c}}
    BY <2>1, <2>2 DEF Owned
  <2> QED BY <2>1, <2>2, <2>3 DEF Owned
<1> QED BY <1>1, <1>2, <1>3, <1>4, <1>5, <1>6, <1>7
        DEF Next, MainStep, HandNewConn, Accept, ThreadStep

-------------------------------------------------------------------------------
(* The round of the loops.                                                 *)

\* A step after which the same peers are with the same loops.
LEMMA TurnsKept ==
    ASSUME NEW k \in Nat, Ahead(k), next' = next, \A t \in Thread : Given(t)' = Given(t)
    PROVE  Ahead(k)'
BY DEF Ahead

\* A connection for the loop n, whose turn it is.
LEMMA TurnTaken ==
    ASSUME NEW k \in Nat, Ahead(k), NEW n \in Thread, next = n, next' = NextLoop,
           NEW c, c \notin Given(n), Given(n)' = Given(n) \cup {c},
           \A t \in Thread \ {n} : Given(t)' = Given(t)
    PROVE  Ahead(k)' \/ Ahead(k + 1)'
<1>1. /\ IsFiniteSet(Given(n)')
      /\ Cardinality(Given(n)') = k + 1
  <2>1. IsFiniteSet(Given(n)) /\ Cardinality(Given(n)) = k
    BY SizesAssumption DEF Ahead, Thread
  <2> QED BY <2>1, FS_AddElement
<1>2. ASSUME NEW t \in Thread \ {n}
      PROVE  /\ IsFiniteSet(Given(t)')
             /\ Cardinality(Given(t)') = IF t < n THEN k + 1 ELSE k
  <2>1. Given(t)' = Given(t)
    OBVIOUS
  <2>2. IsFiniteSet(Given(t)) /\ Cardinality(Given(t)) = IF t < n THEN k + 1 ELSE k
    BY DEF Ahead
  <2> QED BY <2>1, <2>2
<1>3. CASE n + 1 < NumThreads
  <2>1. next' = n + 1
    BY <1>3, SizesAssumption DEF NextLoop, Thread
  <2>2. ASSUME NEW t \in Thread
        PROVE  /\ IsFiniteSet(Given(t)')
               /\ Cardinality(Given(t)') = IF t < n + 1 THEN k + 1 ELSE k
    <3>1. CASE t = n
      BY <1>1, <3>1 DEF Thread
    <3>2. CASE t # n
      <4>1. t < n + 1 <=> t < n
        BY <3>2, SizesAssumption DEF Thread
      <4> QED BY <1>2, <3>2, <4>1
    <3> QED BY <3>1, <3>2
  <2>3. Ahead(k)'
    BY <2>1, <2>2 DEF Ahead
  <2> QED BY <2>3
<1>4. CASE n + 1 >= NumThreads
  <2>1. n + 1 = NumThreads /\ next' = 0
    BY <1>4, SizesAssumption DEF NextLoop, Thread
  <2>2. ASSUME NEW t \in Thread
        PROVE  IsFiniteSet(Given(t)') /\ Cardinality(Given(t)') = k + 1
    <3>1. CASE t = n
      BY <1>1, <3>1
    <3>2. CASE t # n
      <4>1. t < n
        BY <2>1, <3>2, SizesAssumption DEF Thread
      <4> QED BY <1>2, <3>2, <4>1
    <3> QED BY <3>1, <3>2
  <2>3. \A t \in Thread : ~ (t < 0)
    BY SizesAssumption DEF Thread
  <2>4. Ahead(k + 1)'
    BY <2>1, <2>2, <2>3 DEF Ahead
  <2> QED BY <2>4
<1> QED BY <1>3, <1>4, SizesAssumption DEF Thread

LEMMA TurnsStep ==
    Data /\ StartOK /\ BacklogOK /\ QueueOK /\ Turns /\ [Next]_vars => Turns'
<1> SUFFICES ASSUME Data, StartOK, BacklogOK, QueueOK, Turns, [Next]_vars,
                    \A c \in Client : at'[c] \notin {"refused", "leaked"}
             PROVE  \E k \in Nat : Ahead(k)'
  BY DEF Turns
<1>0. PICK k \in Nat : Ahead(k)
  <2>1. \A c \in Client : at[c] \notin {"refused", "leaked"}
    BY TurnedAwayForGood
  <2> QED BY <2>1 DEF Turns
<1>1. CASE StartThread \/ Test \/ Listen \/ Poll \/ Drained \/ AcceptFails \/ HandThisConn
           \/ Spurious \/ UNCHANGED vars
  <2>1. next' = next /\ UNCHANGED clients
    BY <1>1 DEF StartThread, Test, Listen, Poll, Drained, AcceptFails, HandThisConn,
                Spurious, vars, pool
  <2> QED BY <1>0, <2>1, TurnsKept DEF clients, Given
<1>2. ASSUME NEW t \in Thread, Publish(t) \/ BeginLoop(t)
      PROVE  \E j \in Nat : Ahead(j)'
  <2>1. next' = next /\ UNCHANGED clients
    BY <1>2 DEF Publish, BeginLoop
  <2> QED BY <1>0, <2>1, TurnsKept DEF clients, Given
<1>3. ASSUME NEW c \in Client, NEW fd \in Fd, Refuse(c, fd) \/ NonBlockFails(c, fd)
      PROVE  FALSE
  BY <1>3 DEF Refuse, NonBlockFails, Data
<1>4. ASSUME NEW c \in Client, NEW fd \in Fd, HandOver(c, fd)
      PROVE  \E j \in Nat : Ahead(j)'
  <2>0. PICK n \in Thread : next = n
    BY DEF Data
  <2>1. loops[next + 1] = n
    BY <1>4, <2>0, NextHasLoop DEF HandOver, Accepting, Data
  <2>2. at[c] = "backlog"
    BY <1>4, Taken DEF HandOver
  <2>3. /\ at' = [at EXCEPT ![c] = "queued"]
        /\ loopOf' = [loopOf EXCEPT ![c] = n]
        /\ next' = NextLoop
    BY <1>4, <2>1 DEF HandOver
  <2>4. c \notin Given(n)
    BY <2>2 DEF Given
  <2>5. Given(n)' = Given(n) \cup {c}
    BY <2>3 DEF Given, Data
  <2>6. \A t \in Thread \ {n} : Given(t)' = Given(t)
    BY <2>2, <2>3 DEF Given, Data
  <2>7. Ahead(k)' \/ Ahead(k + 1)'
    BY <1>0, <2>0, <2>3, <2>4, <2>5, <2>6, TurnTaken
  <2> QED BY <2>7
<1>5. ASSUME NEW t \in Thread, NewEvent(t)
      PROVE  \E j \in Nat : Ahead(j)'
  <2>1. Head(queue[t]) \in Client /\ at[Head(queue[t])] = "queued"
    BY <1>5, Dequeued DEF NewEvent
  <2>2. next' = next /\ \A u \in Thread : Given(u)' = Given(u)
    BY <1>5, <2>1 DEF NewEvent, pool, Given, Data
  <2> QED BY <1>0, <2>2, TurnsKept
<1>6. ASSUME NEW c \in Client, Connect(c) \/ CloseConn(c)
      PROVE  \E j \in Nat : Ahead(j)'
  <2>1. next' = next /\ \A u \in Thread : Given(u)' = Given(u)
    BY <1>6 DEF Connect, CloseConn, pool, Given, Data
  <2> QED BY <1>0, <2>1, TurnsKept
<1> QED BY <1>1, <1>2, <1>3, <1>4, <1>5, <1>6
        DEF Next, MainStep, HandNewConn, Accept, ThreadStep

-------------------------------------------------------------------------------
(* The invariant, and what follows from it.                                *)
LEMMA IInvInit == Init => IInv
<1> SUFFICES ASSUME Init
             PROVE  IInv
  OBVIOUS
<1>1. TypeOK
  BY TypeInit
<1>2. StartOK /\ BacklogOK /\ QueueOK /\ Hearing
  BY DEF Init, StartOK, BacklogOK, QueueOK, Hearing
<1>3. Owned
  BY DEF Init, Owned, Holding
<1>4. Turns
  <2>1. \A t \in Thread : Given(t) = {}
    BY DEF Init, Given
  <2>2. IsFiniteSet({}) /\ Cardinality({}) = 0
    BY FS_EmptySet, Zenon
  <2>3. \A t \in Thread : ~ (t < next)
    BY SizesAssumption DEF Init, Thread
  <2>4. Ahead(0)
    BY <2>1, <2>2, <2>3, Zenon DEF Ahead
  <2> QED BY <2>4 DEF Turns
<1> QED BY <1>1, <1>2, <1>3, <1>4 DEF IInv

LEMMA IInvStep == IInv /\ [Next]_vars => IInv'
<1> SUFFICES ASSUME IInv, [Next]_vars
             PROVE  IInv'
  OBVIOUS
<1>1. Flags /\ Data
  BY FlagsAndData DEF IInv
<1>2. TypeOK'
  BY <1>1, FlagsStep, DataStep, FlagsAndData DEF IInv
<1>3. StartOK'
  BY <1>1, StartStep DEF IInv
<1>4. BacklogOK' /\ QueueOK'
  BY <1>1, BacklogStep, QueueStep DEF IInv
<1>5. Hearing'
  BY <1>1, HearingStep DEF IInv
<1>6. Owned'
  BY <1>1, OwnedStep DEF IInv
<1>7. Turns'
  BY <1>1, TurnsStep DEF IInv
<1> QED BY <1>2, <1>3, <1>4, <1>5, <1>6, <1>7 DEF IInv

THEOREM Invariance == Spec => []IInv
BY IInvInit, IInvStep, PTL DEF Spec

\* The numbers of descriptors and of peers that hold one agree, as no two share one.
LEMMA OwnedAccounts == TypeOK /\ Owned => DescriptorsAccounted
<1> SUFFICES ASSUME TypeOK, Owned
             PROVE  DescriptorsAccounted
  OBVIOUS
<1> DEFINE f == [c \in Holding |-> fdOf[c]]
<1>1. f \in Bijection(Holding, open)
  <2>1. f \in [Holding -> open]
    BY DEF Owned
  <2>2. \A c, d \in Holding : f[c] = f[d] => c = d
    BY DEF Owned
  <2>3. \A fd \in open : \E c \in Holding : f[c] = fd
    BY DEF Owned
  <2> HIDE DEF f
  <2> QED BY <2>1, <2>2, <2>3 DEF Bijection, Injection, IsInjective, Surjection
<1>2. ExistsBijection(open, Holding)
  BY <1>1, Fun_ExistsBijSymmetric DEF ExistsBijection
<1>3. IsFiniteSet(open)
  <2>1. open \in SUBSET (1 .. NumFds)
    BY DEF TypeOK, Fd
  <2>2. IsFiniteSet(1 .. NumFds)
    BY FS_Interval, SizesAssumption
  <2> QED BY <2>1, <2>2, FS_Subset
<1>4. Cardinality(open) = Cardinality(Holding)
  BY <1>2, <1>3, FS_Bijection
<1> QED BY <1>4 DEF Owned, DescriptorsAccounted

LEMMA TurnsBalance == Turns => Balanced
<1> SUFFICES ASSUME Turns, \A c \in Client : at[c] \notin {"refused", "leaked"},
                    NEW t \in Thread, NEW u \in Thread
             PROVE  Cardinality(Given(t)) <= Cardinality(Given(u)) + 1
  BY DEF Balanced
<1>1. PICK k \in Nat : Ahead(k)
  BY DEF Turns
<1> QED BY <1>1 DEF Ahead

(***************************************************************************)
(* The variables keep their types: handNewConn takes a loop from loops_    *)
(* only where there is one.                                                *)
(***************************************************************************)
THEOREM TypeCorrect == Spec => []TypeOK
<1>1. IInv => TypeOK
  BY DEF IInv
<1> QED BY <1>1, Invariance, PTL

(***************************************************************************)
(* EventLoopThreadPool::start only has loops that their threads have       *)
(* published, and the server listens when it has all of them.              *)
(***************************************************************************)
THEOREM LoopsArePublished == Spec => []LoopsPublished
<1>1. IInv => LoopsPublished
  BY DEF IInv, StartOK, LoopsPublished
<1> QED BY <1>1, Invariance, PTL

(***************************************************************************)
(* The edge-triggered listener is never deaf while no call fails.          *)
(***************************************************************************)
THEOREM ListenerNeverDeaf == Spec => []ListenerHears
<1>1. IInv => ListenerHears
  BY DEF IInv, Hearing, ListenerHears
<1> QED BY <1>1, Invariance, PTL

(***************************************************************************)
(* handNewConn loses no descriptor but the one of line 61, and gives none  *)
(* to two connections.                                                     *)
(***************************************************************************)
THEOREM NoDescriptorLost == Spec => []DescriptorsAccounted
<1>1. IInv => DescriptorsAccounted
  BY OwnedAccounts DEF IInv
<1> QED BY <1>1, Invariance, PTL

(***************************************************************************)
(* getNextLoop deals the connections out evenly.                           *)
(***************************************************************************)
THEOREM LoopsBalanced == Spec => []Balanced
<1>1. IInv => Balanced
  BY TurnsBalance DEF IInv
<1> QED BY <1>1, Invariance, PTL
================================================================================
