--------------------------- MODULE Connection_proofs ---------------------------
(***************************************************************************)
(* Theorems about Connection, for any number of connections, loops and     *)
(* descriptors; and about TimerClock, which the timers of a connection     *)
(* read, for every time and every timeout.                                 *)
(***************************************************************************)
EXTENDS Connection, TimerClock, SequenceLemmas

\* fd2http_ of its loop has the connection; fd2chan_ has it; it waits in a queue or batch of
\* the loop l.
Installed(c) == fd2http[loopOf[c]][fdOf[c]] = c
Registered(c) == fd2chan[loopOf[c]][fdOf[c]] = c
Waiting(l, c) == c \in Range(queue[l]) \/ c \in Range(batch[l])

(***************************************************************************)
(* The inductive invariant.  A connection that is alive has a descriptor   *)
(* of its own.                                                             *)
(***************************************************************************)
Descriptors == /\ \A c \in Conn : Alive(c) => fdOf[c] \in Fd
               /\ \A c, d \in Conn : Alive(c) /\ Alive(d) /\ fdOf[c] = fdOf[d] => c = d

\* The tables have open connections of their loop, fd2chan_ only what fd2http_ has, and
\* epoll only what fd2chan_ has.
Tables == \A l \in Loop, f \in Fd :
    /\ fd2http[l][f] # None => /\ Open(fd2http[l][f]) /\ fdOf[fd2http[l][f]] = f
                               /\ loopOf[fd2http[l][f]] = l
    /\ fd2chan[l][f] # None => fd2chan[l][f] = fd2http[l][f]

Entries == \A c \in Conn : ep[c].in => Open(c) /\ Registered(c)

\* An open connection waits in its loop, once, or is installed, and never both; a batch is
\* gone before the next round.
Queues == \A l \in Loop :
    /\ \A c \in Conn : Waiting(l, c) => Open(c) /\ loopOf[c] = l /\ ~Installed(c)
    /\ IsInjective(queue[l]) /\ IsInjective(batch[l])
    /\ \A c \in Range(queue[l]) : c \notin Range(batch[l])
    /\ pc[l] # "functors" => batch[l] = <<>>

Places == \A c \in Conn : Open(c) => Installed(c) \/ Waiting(loopOf[c], c)

\* Only an installed connection has a timer; one without it is waiting, being handled, or
\* on its way out.
Timed == \A c \in Conn : timer[c].live > 0 => Open(c) /\ Installed(c)

Guarded == \A c \in Conn : Open(c) /\ Installed(c) /\ cur[loopOf[c]].c # c
                               => timer[c].live = 1 \/ http[c].st = "DISCONNECTING"

States == \A c \in Conn : life[c] = "fresh" => http[c].st = "CONNECTED"

\* A round has one event of a connection, which is registered, and is over before functors
\* run and timers expire.
Rounds == \A l \in Loop :
    /\ \A a \in active[l] : Open(a.c) /\ loopOf[a.c] = l /\ Registered(a.c)
    /\ \A a, b \in active[l] : a.c = b.c => a = b
    /\ cur[l].c # None => /\ Open(cur[l].c) /\ loopOf[cur[l].c] = l
                          /\ Registered(cur[l].c)
                          /\ \A a \in active[l] : a.c # cur[l].c
    /\ cur[l].c = None => cur[l] = NoCur
    /\ cur[l].c # None => cur[l].phase # "none"
    /\ pc[l] # "events" => active[l] = {} /\ cur[l].c = None

HttpRec == [st : {"CONNECTED", "DISCONNECTING"}, error : BOOLEAN, out : BOOLEAN,
            events : SUBSET Flags, last : SUBSET Flags]
TimerRec == [live : Nat, linked : BOOLEAN, due : BOOLEAN]
SockRec == [rx : BOOLEAN, fin : BOOLEAN, rst : BOOLEAN, room : BOOLEAN]
EpRec == [in : BOOLEAN, mask : SUBSET Flags, edge : BOOLEAN]
ActiveRec == [c : Conn, rev : SUBSET Revents]
CurRec == [c : Conn \cup {None}, rev : SUBSET Revents, phase : Phases]

Lives == {"fresh", "open", "disconnected", "closed"}

\* TypeOK in parts.
Objects == /\ life \in [Conn -> Lives]
           /\ fdOf \in [Conn -> 0 .. NumFds]
           /\ loopOf \in [Conn -> Loop]
           /\ next \in Loop /\ reqInfo \in Conn \cup {None}
Records == /\ http \in [Conn -> HttpRec] /\ timer \in [Conn -> TimerRec]
           /\ sock \in [Conn -> SockRec] /\ ep \in [Conn -> EpRec]
Maps == /\ fd2chan \in [Loop -> [Fd -> Conn \cup {None}]]
        /\ fd2http \in [Loop -> [Fd -> Conn \cup {None}]]
Functors == queue \in [Loop -> Seq(Conn)] /\ batch \in [Loop -> Seq(Conn)]
Turns == /\ pc \in [Loop -> {"poll", "events", "functors", "expired"}]
         /\ active \in [Loop -> SUBSET ActiveRec]
         /\ cur \in [Loop -> CurRec]
Bells == bell \in [Loop -> BOOLEAN]

Types == Objects /\ Records /\ Maps /\ Functors /\ Turns /\ Bells

IInv == /\ Types
        /\ Descriptors /\ Tables /\ Entries /\ Queues /\ Places
        /\ OneTimer /\ Timed /\ Guarded /\ States /\ NothingLingers /\ Rounds

LEMMA TypeParts == TypeOK <=> Types
BY DEF TypeOK, Types, Objects, Lives, Records, Maps, Functors, Turns, Bells, HttpRec, TimerRec, SockRec,
       EpRec, ActiveRec, CurRec

-------------------------------------------------------------------------------
(* What the operators on records make of them.                             *)

LEMMA EmptyRecords ==
    /\ NewHttp \in HttpRec /\ NoTimer \in TimerRec /\ NewSock \in SockRec /\ NoEntry \in EpRec
    /\ NoCur \in CurRec
BY DEF NewHttp, NoTimer, NewSock, NoEntry, NoCur, HttpRec, TimerRec, SockRec, EpRec, CurRec,
       Phases

LEMMA TimerOps ==
    ASSUME NEW t \in TimerRec, t.live <= 1, t.linked <=> t.live = 1, t.due => t.live = 1
    PROVE  /\ SeperateTimer(t) \in TimerRec
           /\ SeperateTimer(t) = NoTimer
           /\ AddTimer(SeperateTimer(t)) \in TimerRec
           /\ AddTimer(SeperateTimer(t)).live = 1
           /\ AddTimer(SeperateTimer(t)).linked = TRUE
           /\ AddTimer(SeperateTimer(t)).due = FALSE
<1> USE DEF SeperateTimer, AddTimer, NoTimer, TimerRec
<1>1. CASE t.live = 1
  BY <1>1
<1>2. CASE t.live = 0
  BY <1>2
<1>3. t.live = 0 \/ t.live = 1
  OBVIOUS
<1> QED BY <1>1, <1>2, <1>3

LEMMA ReadyForType ==
    ASSUME NEW s \in SockRec, NEW mask \in SUBSET Flags
    PROVE  ReadyFor(s, mask) \in SUBSET Revents
BY DEF ReadyFor

LEMMA ArmedType ==
    ASSUME NEW c \in Conn, NEW mask \in SUBSET Flags
    PROVE  Armed(c, mask) \in EpRec /\ Armed(c, mask).in = TRUE
BY DEF Armed, EpRec

\* What is assigned to the fields of an HttpData.
LEMMA HttpUpdates ==
    ASSUME NEW h \in HttpRec, NEW es \in SUBSET Flags
    PROVE  /\ [h EXCEPT !.error = TRUE] \in HttpRec /\ [h EXCEPT !.error = TRUE].st = h.st
           /\ [h EXCEPT !.out = TRUE] \in HttpRec /\ [h EXCEPT !.out = TRUE].st = h.st
           /\ [h EXCEPT !.out = FALSE] \in HttpRec /\ [h EXCEPT !.out = FALSE].st = h.st
           /\ [h EXCEPT !.events = es] \in HttpRec /\ [h EXCEPT !.events = es].st = h.st
           /\ [h EXCEPT !.last = es] \in HttpRec /\ [h EXCEPT !.last = es].st = h.st
           /\ [h EXCEPT !.st = "DISCONNECTING"] \in HttpRec
           /\ [h EXCEPT !.st = "DISCONNECTING"].st = "DISCONNECTING"
<1> USE DEF HttpRec
<1>1. [h EXCEPT !.error = TRUE] \in HttpRec /\ [h EXCEPT !.error = TRUE].st = h.st
  OBVIOUS
<1>2. /\ [h EXCEPT !.out = TRUE] \in HttpRec /\ [h EXCEPT !.out = TRUE].st = h.st
      /\ [h EXCEPT !.out = FALSE] \in HttpRec /\ [h EXCEPT !.out = FALSE].st = h.st
  OBVIOUS
<1>3. /\ [h EXCEPT !.events = es] \in HttpRec /\ [h EXCEPT !.events = es].st = h.st
      /\ [h EXCEPT !.last = es] \in HttpRec /\ [h EXCEPT !.last = es].st = h.st
  OBVIOUS
<1>4. /\ [h EXCEPT !.st = "DISCONNECTING"] \in HttpRec
      /\ [h EXCEPT !.st = "DISCONNECTING"].st = "DISCONNECTING"
  OBVIOUS
<1> QED BY <1>1, <1>2, <1>3, <1>4

LEMMA ParsedType ==
    ASSUME NEW h \in HttpRec, NEW r \in Parsed(h)
    PROVE  /\ r.http \in HttpRec /\ r.http.st = h.st
           /\ r.phase \in {"failed", "again", "ok", "more"}
<1>1. {} \in SUBSET Flags
  OBVIOUS
<1>2. /\ [h EXCEPT !.error = TRUE] \in HttpRec /\ [h EXCEPT !.error = TRUE].st = h.st
      /\ [h EXCEPT !.out = TRUE] \in HttpRec /\ [h EXCEPT !.out = TRUE].st = h.st
  BY <1>1, HttpUpdates
<1> DEFINE e == [h EXCEPT !.error = TRUE]
           d == [h EXCEPT !.out = TRUE]
<1>3. \/ r = [http |-> e, phase |-> "failed"] \/ r = [http |-> h, phase |-> "again"]
      \/ r = [http |-> d, phase |-> "ok"] \/ r = [http |-> d, phase |-> "more"]
  BY DEF Parsed, Error, Again, Done
<1> HIDE DEF e, d
<1>4. e \in HttpRec /\ e.st = h.st /\ d \in HttpRec /\ d.st = h.st
  BY <1>2 DEF e, d
<1> QED BY <1>3, <1>4

LEMMA ReadType ==
    ASSUME NEW h \in HttpRec, NEW s \in SockRec,
           NEW r \in ReadResults(h, s)
    PROVE  /\ r.http \in HttpRec
           /\ h.st = "DISCONNECTING" => r.http.st = "DISCONNECTING"
           /\ r.phase \in {"failed", "again", "ok", "more"}
<1> DEFINE d == [h EXCEPT !.st = "DISCONNECTING"]
<1>1. d \in HttpRec /\ d.st = "DISCONNECTING"
  <2>1. {} \in SUBSET Flags
    OBVIOUS
  <2> QED BY <2>1, HttpUpdates
<1>2. \/ r = Again(h) \/ r = Error(h) \/ r \in Parsed(h) \/ r \in Parsed(d) \/ r = Again(d)
  BY DEF ReadResults
<1>3. r \in Parsed(h) \/ r \in Parsed(d)
  BY <1>2 DEF Parsed
<1> HIDE DEF d
<1> QED BY <1>1, <1>3, ParsedType

LEMMA WrittenType ==
    ASSUME NEW h \in HttpRec, NEW s \in SockRec, NEW w \in Written(h, s)
    PROVE  w.http \in HttpRec /\ w.http.st = h.st /\ w.sock \in SockRec
<1> DEFINE failed == [[h EXCEPT !.error = TRUE] EXCEPT !.events = {"OUT"}]
           full == [h EXCEPT !.events = @ \cup {"OUT"}]
           sent == [h EXCEPT !.out = FALSE]
           filled == [s EXCEPT !.room = FALSE]
<1>1. w = [http |-> h, sock |-> s] \/ w = [http |-> failed, sock |-> s]
      \/ w = [http |-> full, sock |-> filled] \/ w = [http |-> sent, sock |-> s]
  BY DEF Written
<1>2. {"OUT"} \in SUBSET Flags /\ h.events \cup {"OUT"} \in SUBSET Flags
  BY DEF Flags, HttpRec
<1>3. failed \in HttpRec /\ failed.st = h.st
  BY <1>2, HttpUpdates
<1>4. full \in HttpRec /\ full.st = h.st
  BY <1>2, HttpUpdates
<1>5. sent \in HttpRec /\ sent.st = h.st
  BY <1>2, HttpUpdates
<1>6. filled \in SockRec
  BY DEF SockRec
<1> HIDE DEF failed, full, sent, filled
<1> QED BY <1>1, <1>3, <1>4, <1>5, <1>6

LEMMA NoticeType ==
    ASSUME ep \in [Conn -> EpRec], NEW c \in Conn, NEW s
    PROVE  /\ Notice(c, s) \in [Conn -> EpRec]
           /\ \A d \in Conn : Notice(c, s)[d].in = ep[d].in
<1> DEFINE e == ep[c].edge \/ (ep[c].in /\ ReadyFor(s, ep[c].mask) # {})
<1>1. e \in BOOLEAN
  OBVIOUS
<1>2. Notice(c, s) = [ep EXCEPT ![c] = [ep[c] EXCEPT !.edge = e]]
  BY DEF Notice
<1> HIDE DEF e
<1>3. [ep[c] EXCEPT !.edge = e] \in EpRec /\ [ep[c] EXCEPT !.edge = e].in = ep[c].in
  BY <1>1 DEF EpRec
<1> QED BY <1>2, <1>3

-------------------------------------------------------------------------------
(* The start.                                                              *)

LEMMA Initially == Init => IInv
<1> SUFFICES ASSUME Init PROVE IInv
  OBVIOUS
<1> USE DEF Init
<1>1. Range(<<>>) = {} /\ IsInjective(<<>>)
  BY DEF Range, IsInjective
<1>2. NoCur.c = None /\ NoCur.phase = "none" /\ ~NoEntry.in /\ NewHttp.st = "CONNECTED"
  BY DEF NoCur, NoEntry, NewHttp
<1>3. NoTimer.live = 0 /\ NoTimer.linked = FALSE /\ NoTimer.due = FALSE
  BY DEF NoTimer
<1>4. Types
  <2>1. Objects
    BY SizesAssumption DEF Objects, Loop, Lives
  <2>2. Records
    BY EmptyRecords DEF Records
  <2>3. Maps
    BY DEF Maps
  <2>4. Functors
    BY DEF Functors
  <2>5. Turns
    BY EmptyRecords DEF Turns
  <2>6. Bells
    BY DEF Bells
  <2> QED BY <2>1, <2>2, <2>3, <2>4, <2>5, <2>6 DEF Types
<1>5. Descriptors /\ Tables /\ Places /\ Entries
  BY <1>2 DEF Descriptors, Tables, Places, Entries, Open, Alive
<1>6. Queues
  BY <1>1 DEF Queues, Waiting
<1>7. OneTimer /\ Timed /\ Guarded /\ States /\ NothingLingers
  BY <1>2, <1>3 DEF OneTimer, Timed, Guarded, States, NothingLingers, Open
<1>8. Rounds
  BY <1>2 DEF Rounds
<1> QED BY <1>4, <1>5, <1>6, <1>7, <1>8 DEF IInv

-------------------------------------------------------------------------------
(* Steps that leave descriptors, tables and queues alone.                  *)

places == <<life, fdOf, loopOf, next, reqInfo, fd2chan, fd2http, queue, batch>>

LEMMA StaysInPlace ==
    ASSUME IInv, UNCHANGED places,
           Records', Turns', Bells',
           \A c \in Conn : ep'[c].in => ep[c].in \/ (Open(c) /\ Registered(c)),
           \A l \in Loop : pc'[l] # "functors" => batch[l] = <<>>,
           OneTimer', Timed', Guarded', States', Rounds'
    PROVE  IInv'
<1> USE DEF places
<1>1. Types'
  BY DEF IInv, Types, Objects, Maps, Functors
<1>2. Descriptors' /\ NothingLingers'
  BY DEF IInv, Descriptors, Alive, NothingLingers
<1>3. Tables'
  BY DEF IInv, Tables, Open
<1>4. Entries'
  BY DEF IInv, Entries, Open, Registered
<1>5. Places'
  BY DEF IInv, Places, Open, Installed, Waiting
<1>6. Queues'
  BY DEF IInv, Queues, Waiting, Open, Installed
<1> QED BY <1>1, <1>2, <1>3, <1>4, <1>5, <1>6 DEF IInv

\* The connection that a loop is handling.
LEMMA Handled ==
    ASSUME IInv, NEW l \in Loop, cur[l].phase # "none"
    PROVE  /\ cur[l].c \in Conn /\ Open(cur[l].c) /\ loopOf[cur[l].c] = l
           /\ Registered(cur[l].c) /\ Installed(cur[l].c) /\ ~Queued(cur[l].c)
           /\ fdOf[cur[l].c] \in Fd
           /\ \A a \in active[l] : a.c # cur[l].c
           /\ \A k \in Loop \ {l} : cur[k].c # cur[l].c
           /\ pc[l] = "events"
<1> DEFINE c == cur[l].c
<1>1. c # None
  BY DEF IInv, Rounds, NoCur
<1>2. c \in Conn
  BY <1>1 DEF IInv, Types, Turns, CurRec
<1>3. /\ Open(c) /\ loopOf[c] = l /\ Registered(c) /\ pc[l] = "events"
      /\ \A a \in active[l] : a.c # c
  BY <1>1 DEF IInv, Rounds
<1>4. fdOf[c] \in Fd
  BY <1>2, <1>3 DEF IInv, Descriptors, Alive, Open
<1>5. Installed(c)
  BY <1>2, <1>3, <1>4, NoneAssumption DEF IInv, Tables, Registered, Installed
<1>6. ~Queued(c)
  BY <1>2, <1>5 DEF IInv, Queues, Queued, Waiting
<1>7. \A k \in Loop \ {l} : cur[k].c # c
  BY <1>1, <1>3 DEF IInv, Rounds
<1> QED BY <1>2, <1>3, <1>4, <1>5, <1>6, <1>7

\* A step of a handler: it goes on with the connection, or lets it go with a timer or
\* on its way out.
TurnTo(l, c, h, t, s, e, k) ==
    /\ c = cur[l].c /\ cur[l].phase # "none"
    /\ h \in HttpRec /\ t \in TimerRec /\ s \in SockRec /\ e \in EpRec /\ k \in CurRec
    /\ t.live <= 1 /\ (t.linked <=> t.live = 1) /\ (t.due => t.live = 1)
    /\ \/ k.c = c /\ k.phase # "none"
       \/ k = NoCur /\ (t.live = 1 \/ h.st = "DISCONNECTING")
    /\ http' = [http EXCEPT ![c] = h] /\ timer' = [timer EXCEPT ![c] = t]
    /\ sock' = [sock EXCEPT ![c] = s] /\ ep' = [ep EXCEPT ![c] = e]
    /\ cur' = [cur EXCEPT ![l] = k]
    /\ UNCHANGED <<places, bell, pc, active>>

LEMMA TurnStep ==
    ASSUME IInv, NEW l \in Loop, NEW c, NEW h, NEW t, NEW s, NEW e, NEW k,
           TurnTo(l, c, h, t, s, e, k)
    PROVE  IInv'
<1> USE DEF TurnTo
<1> USE DEF places
<1>1. /\ c \in Conn /\ Open(c) /\ loopOf[c] = l /\ Registered(c) /\ Installed(c)
      /\ pc[l] = "events" /\ \A a \in active[l] : a.c # c
  BY Handled
<1>2. http \in [Conn -> HttpRec] /\ timer \in [Conn -> TimerRec] /\ sock \in [Conn -> SockRec]
      /\ ep \in [Conn -> EpRec] /\ cur \in [Loop -> CurRec]
  BY DEF IInv, Types, Records, Turns
<1>3. /\ http'[c] = h /\ timer'[c] = t /\ ep'[c] = e /\ cur'[l] = k
      /\ \A d \in Conn \ {c} : http'[d] = http[d] /\ timer'[d] = timer[d] /\ ep'[d] = ep[d]
      /\ \A m \in Loop \ {l} : cur'[m] = cur[m]
  BY <1>1, <1>2
<1>4. NoCur.c = None
  BY DEF NoCur
<1>5. Records' /\ Turns' /\ Bells'
  BY <1>1, <1>2 DEF IInv, Types, Records, Turns, Bells
<1>6. \A d \in Conn : ep'[d].in => ep[d].in \/ (Open(d) /\ Registered(d))
  BY <1>1, <1>3
<1>7. \A m \in Loop : pc'[m] # "functors" => batch[m] = <<>>
  BY DEF IInv, Queues
<1>8. OneTimer'
  BY <1>3 DEF IInv, OneTimer
<1>9. Timed'
  BY <1>1, <1>3 DEF IInv, Timed, Open, Installed
<1>10. States'
  BY <1>1, <1>3 DEF IInv, States, Open
<1>11. Guarded'
  <2> SUFFICES ASSUME NEW d \in Conn, Open(d), Installed(d), cur'[loopOf[d]].c # d
               PROVE  timer'[d].live = 1 \/ http'[d].st = "DISCONNECTING"
    BY DEF Guarded, Open, Installed
  <2>1. CASE d = c
    BY <2>1, <1>1, <1>3
  <2>2. CASE d # c
    <3>1. cur[loopOf[d]].c # d
      BY <2>2, <1>3 DEF IInv, Types, Objects
    <3> QED BY <2>2, <3>1, <1>3 DEF IInv, Guarded
  <2> QED BY <2>1, <2>2
<1>12. Rounds'
  <2> SUFFICES ASSUME NEW m \in Loop
               PROVE  /\ \A a \in active[m] : Open(a.c) /\ loopOf[a.c] = m /\ Registered(a.c)
                      /\ \A a, b \in active[m] : a.c = b.c => a = b
                      /\ cur'[m].c # None => /\ Open(cur'[m].c) /\ loopOf[cur'[m].c] = m
                                             /\ Registered(cur'[m].c)
                                             /\ \A a \in active[m] : a.c # cur'[m].c
                      /\ cur'[m].c = None => cur'[m] = NoCur
                      /\ cur'[m].c # None => cur'[m].phase # "none"
                      /\ pc[m] # "events" => active[m] = {} /\ cur'[m].c = None
    BY DEF Rounds, Open, Registered
  <2>1. CASE m = l
    <3>1. c # None
      BY <1>1, NoneAssumption
    <3> QED BY <2>1, <3>1, <1>1, <1>3, <1>4 DEF IInv, Rounds
  <2>2. CASE m # l
    BY <2>2, <1>3 DEF IInv, Rounds
  <2> QED BY <2>1, <2>2
<1> QED BY <1>5, <1>6, <1>7, <1>8, <1>9, <1>10, <1>11, <1>12, StaysInPlace

\* The current values of a connection.
LEMMA Values ==
    ASSUME IInv, NEW c \in Conn
    PROVE  /\ http[c] \in HttpRec /\ timer[c] \in TimerRec /\ sock[c] \in SockRec
           /\ ep[c] \in EpRec
           /\ timer[c].live <= 1 /\ (timer[c].linked <=> timer[c].live = 1)
           /\ timer[c].due => timer[c].live = 1
BY DEF IInv, Types, Records, OneTimer

LEMMA PeerSteps == ASSUME IInv, NEW c \in Conn, NEW s \in SockRec, PeerStep(c, s) PROVE IInv'
<1> USE DEF PeerStep, loops, tables, main
<1>1. UNCHANGED <<places, http, timer, pc, active, cur, bell>>
  BY DEF places
<1>2. /\ ep' \in [Conn -> EpRec] /\ \A d \in Conn : ep'[d].in = ep[d].in
  BY NoticeType DEF IInv, Types, Records
<1>3. sock' \in [Conn -> SockRec]
  BY DEF IInv, Types, Records
<1>4. Records' /\ Turns' /\ Bells'
  BY <1>1, <1>2, <1>3 DEF IInv, Types, Records, Turns, Bells
<1>5. OneTimer' /\ Timed' /\ Guarded' /\ States'
  BY <1>1 DEF IInv, OneTimer, Timed, Guarded, States, Open, Installed, places
<1>6. Rounds'
  BY <1>1 DEF IInv, Rounds, Open, Registered, places
<1>7. \A l \in Loop : pc'[l] # "functors" => batch[l] = <<>>
  BY <1>1 DEF IInv, Queues
<1> HIDE DEF PeerStep
<1> QED BY <1>1, <1>2, <1>4, <1>5, <1>6, <1>7, StaysInPlace

LEMMA Peers == ASSUME IInv, NEW c \in Conn, Peer(c) PROVE IInv'
<1>1. /\ [sock[c] EXCEPT !.rx = TRUE] \in SockRec /\ [sock[c] EXCEPT !.fin = TRUE] \in SockRec
      /\ [sock[c] EXCEPT !.rst = TRUE] \in SockRec /\ [sock[c] EXCEPT !.room = TRUE] \in SockRec
  BY DEF IInv, Types, Records, SockRec
<1> QED BY <1>1, PeerSteps DEF Peer, Send, Shut, Reset, Drain

LEMMA Lapses == ASSUME IInv, NEW c \in Conn, Lapse(c) PROVE IInv'
<1> DEFINE t == [timer[c] EXCEPT !.due = TRUE]
<1>1. UNCHANGED <<places, http, sock, ep, pc, active, cur, bell>>
  BY DEF Lapse, loops, tables, main, places
<1>2. timer' = [timer EXCEPT ![c] = t]
  BY DEF Lapse
<1>3. timer[c].live = 1
  BY Values DEF Lapse, TimerRec
<1>4. t \in TimerRec /\ t.live = 1 /\ t.linked = timer[c].linked
  BY Values, <1>3 DEF TimerRec
<1> HIDE DEF t
<1>5. /\ timer' \in [Conn -> TimerRec] /\ timer'[c] = t
      /\ \A d \in Conn \ {c} : timer'[d] = timer[d]
  BY <1>2, <1>4 DEF IInv, Types, Records
<1>6. Records' /\ Turns' /\ Bells'
  BY <1>1, <1>5 DEF IInv, Types, Records, Turns, Bells
<1>7. OneTimer'
  BY <1>3, <1>4, <1>5 DEF IInv, OneTimer
<1>8. \A d \in Conn : timer'[d].live = timer[d].live
  BY <1>3, <1>4, <1>5
<1>9. Timed' /\ Guarded' /\ States'
  BY <1>1, <1>8 DEF IInv, Timed, Guarded, States, Open, Installed, places
<1>10. Rounds'
  BY <1>1 DEF IInv, Rounds, Open, Registered, places
<1>11. \A l \in Loop : pc'[l] # "functors" => batch[l] = <<>>
  BY <1>1 DEF IInv, Queues
<1>12. \A d \in Conn : ep'[d].in => ep[d].in
  BY <1>1
<1> QED BY <1>1, <1>6, <1>7, <1>9, <1>10, <1>11, <1>12, StaysInPlace

-------------------------------------------------------------------------------
(* The handlers.                                                           *)

LEMMA CurUpdate ==
    ASSUME NEW k \in CurRec, NEW phase \in Phases
    PROVE  [k EXCEPT !.phase = phase] \in CurRec /\ [k EXCEPT !.phase = phase].c = k.c
           /\ [k EXCEPT !.phase = phase].phase = phase
BY DEF CurRec

LEMMA AfterReadPhase == \A rev : AfterRead(rev) \in Phases /\ AfterRead(rev) # "none"
BY DEF AfterRead, Phases

LEMMA HandlesReads == ASSUME IInv, NEW l \in Loop, HandleRead(l) PROVE IInv'
<1> DEFINE c == cur[l].c
           s == [sock[c] EXCEPT !.rx = FALSE]
<1>1. cur[l].phase # "none" /\ UNCHANGED <<places, bell, pc, active, timer, ep>>
  BY DEF HandleRead, Handling, places, tables, main
<1>2. c \in Conn /\ Open(c)
  BY <1>1, Handled
<1>3. PICK r \in ReadResults(http[c], sock[c]) :
          /\ http' = [http EXCEPT ![c] = r.http]
          /\ cur' = [cur EXCEPT ![l].phase = IF r.phase = "failed" THEN AfterRead(cur[l].rev)
                                             ELSE r.phase]
  BY DEF HandleRead
<1>4. r.http \in HttpRec /\ r.phase \in {"failed", "again", "ok", "more"}
  BY <1>2, Values, ReadType
<1> DEFINE p == IF r.phase = "failed" THEN AfterRead(cur[l].rev) ELSE r.phase
           k == [cur[l] EXCEPT !.phase = p]
<1>5. p \in Phases /\ p # "none"
  BY <1>4, AfterReadPhase DEF Phases
<1>6. cur' = [cur EXCEPT ![l] = k]
  BY <1>3
<1> HIDE DEF p
<1>7. k \in CurRec /\ k.c = c /\ k.phase # "none"
  BY <1>5, CurUpdate DEF IInv, Types, Turns
<1>8. s \in SockRec
  BY <1>2, Values DEF SockRec
<1>9. sock' = [sock EXCEPT ![c] = s]
  BY DEF HandleRead
<1>10. timer' = [timer EXCEPT ![c] = timer[c]] /\ ep' = [ep EXCEPT ![c] = ep[c]]
  BY <1>1, <1>2 DEF IInv, Types, Records
<1> HIDE DEF s, k
<1>11. TurnTo(l, c, r.http, timer[c], s, ep[c], k)
  BY <1>1, <1>2, <1>3, <1>4, <1>6, <1>7, <1>8, <1>9, <1>10, Values DEF TurnTo
<1> QED BY <1>11, TurnStep

LEMMA Writes == ASSUME IInv, NEW l \in Loop, HandleWrite(l) PROVE IInv'
<1> DEFINE c == cur[l].c
           k == [cur[l] EXCEPT !.phase = "conn"]
<1>1. cur[l].phase # "none" /\ UNCHANGED <<places, bell, pc, active, timer, ep>>
  BY DEF HandleWrite, Handling, places, tables, main
<1>2. c \in Conn /\ Open(c)
  BY <1>1, Handled
<1>3. PICK w \in Written(http[c], sock[c]) : /\ http' = [http EXCEPT ![c] = w.http]
                                             /\ sock' = [sock EXCEPT ![c] = w.sock]
  BY DEF HandleWrite
<1>4. w.http \in HttpRec /\ w.http.st = http[c].st /\ w.sock \in SockRec
  BY <1>2, Values, WrittenType
<1>5. cur' = [cur EXCEPT ![l] = k]
  BY DEF HandleWrite
<1>6. "conn" \in Phases
  BY DEF Phases
<1>7. k \in CurRec /\ k.c = c /\ k.phase # "none"
  BY <1>6, CurUpdate DEF IInv, Types, Turns
<1>8. timer' = [timer EXCEPT ![c] = timer[c]] /\ ep' = [ep EXCEPT ![c] = ep[c]]
  BY <1>1, <1>2 DEF IInv, Types, Records
<1> HIDE DEF k
<1>9. TurnTo(l, c, w.http, timer[c], w.sock, ep[c], k)
  BY <1>1, <1>2, <1>3, <1>4, <1>5, <1>7, <1>8, Values DEF TurnTo
<1> QED BY <1>9, TurnStep

LEMMA Replies ==
    ASSUME IInv, NEW l \in Loop, NEW phase \in {"again", "ok", "more"}, Reply(l, phase)
    PROVE  IInv'
<1> DEFINE c == cur[l].c
           done == phase \in {"ok", "more"}
<1>1. cur[l].phase # "none" /\ UNCHANGED <<places, bell, pc, active>> /\ ep' = ep
  BY DEF Reply, Handling, places, tables, main
<1>2. c \in Conn /\ Open(c)
  BY <1>1, Handled
<1> DEFINE H(w) == IF ~w.http.error /\ ~done
                   THEN [w.http EXCEPT !.events = @ \cup {"IN"}] ELSE w.http
           T(w) == IF ~w.http.error /\ done THEN SeperateTimer(timer[c]) ELSE timer[c]
           P(w) == IF ~w.http.error /\ phase = "more" /\ w.http.st # "DISCONNECTING" THEN "read"
                   ELSE AfterRead(cur[l].rev)
           K(w) == [cur[l] EXCEPT !.phase = P(w)]
<1>3. PICK w \in Written(http[c], sock[c]) : /\ http' = [http EXCEPT ![c] = H(w)]
                                             /\ sock' = [sock EXCEPT ![c] = w.sock]
                                             /\ timer' = [timer EXCEPT ![c] = T(w)]
                                             /\ cur' = [cur EXCEPT ![l] = K(w)]
  BY DEF Reply
<1>4. w.http \in HttpRec /\ w.http.st = http[c].st /\ w.sock \in SockRec
  BY <1>2, Values, WrittenType
<1>5. H(w) \in HttpRec /\ H(w).st = http[c].st
  <2>1. w.http.events \cup {"IN"} \in SUBSET Flags
    BY <1>4 DEF HttpRec, Flags
  <2> QED BY <1>4, <2>1, HttpUpdates
<1>6. P(w) \in Phases /\ P(w) # "none"
  <2>1. "read" \in Phases
    BY DEF Phases
  <2> QED BY <2>1, AfterReadPhase
<1>7. SeperateTimer(timer[c]) = NoTimer
  BY <1>2, Values, TimerOps
<1>8. T(w) \in TimerRec /\ (T(w) = NoTimer \/ T(w) = timer[c])
  BY <1>2, <1>7, Values, EmptyRecords
<1>9. NoTimer.live = 0 /\ NoTimer.linked = FALSE /\ NoTimer.due = FALSE
  BY DEF NoTimer
<1> HIDE DEF H, T, P
<1>10. T(w).live <= 1 /\ (T(w).linked <=> T(w).live = 1) /\ (T(w).due => T(w).live = 1)
  BY <1>2, <1>8, <1>9, Values
<1>11. K(w) \in CurRec /\ K(w).c = c /\ K(w).phase # "none"
  BY <1>6, CurUpdate DEF IInv, Types, Turns
<1>12. ep' = [ep EXCEPT ![c] = ep[c]]
  BY <1>1, <1>2 DEF IInv, Types, Records
<1> HIDE DEF K
<1>13. TurnTo(l, c, H(w), T(w), w.sock, ep[c], K(w))
  BY <1>1, <1>2, <1>3, <1>4, <1>5, <1>8, <1>10, <1>11, <1>12, Values DEF TurnTo
<1> QED BY <1>13, TurnStep

LEMMA Rearms == ASSUME IInv, NEW l \in Loop, Rearm(l) PROVE IInv'
<1> DEFINE c == cur[l].c
           events == Wanted(http[c].events)
           h == [[http[c] EXCEPT !.events = events] EXCEPT !.last = events]
           t == AddTimer(SeperateTimer(timer[c]))
           e == IF events = http[c].last THEN ep[c] ELSE Armed(c, events)
<1>1. cur[l].phase # "none" /\ UNCHANGED <<places, bell, pc, active>> /\ sock' = sock
  BY DEF Rearm, Handling, places, tables, main
<1>2. c \in Conn /\ Open(c)
  BY <1>1, Handled
<1>3. events \in SUBSET Flags
  BY <1>2, Values DEF Wanted, HttpRec, Flags
<1>4. /\ timer' = [timer EXCEPT ![c] = t] /\ http' = [http EXCEPT ![c] = h]
      /\ ep' = [ep EXCEPT ![c] = e] /\ cur' = [cur EXCEPT ![l] = NoCur]
  BY DEF Rearm, ModFd
<1> HIDE DEF events
<1>5. h \in HttpRec /\ h.st = http[c].st
  <2> DEFINE g == [http[c] EXCEPT !.events = events]
  <2>1. g \in HttpRec /\ g.st = http[c].st
    BY <1>2, <1>3, Values, HttpUpdates
  <2> HIDE DEF g
  <2>2. h = [g EXCEPT !.last = events]
    BY DEF g
  <2>3. [g EXCEPT !.last = events] \in HttpRec /\ [g EXCEPT !.last = events].st = g.st
    BY <1>3, <2>1, HttpUpdates
  <2> QED BY <2>1, <2>2, <2>3
<1>6. t \in TimerRec /\ t.live = 1 /\ (t.linked <=> t.live = 1) /\ (t.due => t.live = 1)
  BY <1>2, Values, TimerOps
<1>7. e \in EpRec
  BY <1>2, <1>3, Values, ArmedType
<1>8. sock' = [sock EXCEPT ![c] = sock[c]]
  BY <1>1, <1>2 DEF IInv, Types, Records
<1> HIDE DEF h, t, e
<1>9. sock[c] \in SockRec /\ NoCur \in CurRec
  BY <1>2, <1>5, Values, EmptyRecords
<1>10. TurnTo(l, c, h, t, sock[c], e, NoCur)
  <2>1. c = cur[l].c /\ cur[l].phase # "none" /\ UNCHANGED <<places, bell, pc, active>>
    BY <1>1
  <2>2. /\ h \in HttpRec /\ t \in TimerRec /\ sock[c] \in SockRec /\ e \in EpRec
        /\ NoCur \in CurRec
    BY <1>5, <1>6, <1>7, <1>9
  <2>3. t.live <= 1 /\ (t.linked <=> t.live = 1) /\ (t.due => t.live = 1)
    BY <1>6
  <2>4. NoCur = NoCur /\ (t.live = 1 \/ h.st = "DISCONNECTING")
    BY <1>6
  <2>5. /\ http' = [http EXCEPT ![c] = h] /\ timer' = [timer EXCEPT ![c] = t]
        /\ sock' = [sock EXCEPT ![c] = sock[c]] /\ ep' = [ep EXCEPT ![c] = e]
        /\ cur' = [cur EXCEPT ![l] = NoCur]
    BY <1>4, <1>8
  <2> QED BY <2>1, <2>2, <2>3, <2>4, <2>5 DEF TurnTo
<1> QED BY <1>10, TurnStep

LEMMA Lingering == ASSUME IInv, NEW l \in Loop, Linger(l) PROVE IInv'
<1> DEFINE c == cur[l].c
           h == [http[c] EXCEPT !.events = {"OUT"}]
           t == SeperateTimer(timer[c])
<1>1. cur[l].phase # "none" /\ UNCHANGED <<places, bell, pc, active>> /\ sock' = sock /\ ep' = ep
  BY DEF Linger, Handling, places, tables, main
<1>2. c \in Conn /\ Open(c)
  BY <1>1, Handled
<1>3. {"OUT"} \in SUBSET Flags
  BY DEF Flags
<1>4. /\ timer' = [timer EXCEPT ![c] = t] /\ http' = [http EXCEPT ![c] = h]
      /\ cur' = [cur EXCEPT ![l] = NoCur] /\ http[c].st = "DISCONNECTING"
  BY DEF Linger, Lingers
<1>5. h \in HttpRec /\ h.st = http[c].st
  BY <1>2, <1>3, Values, HttpUpdates
<1>6. t \in TimerRec /\ t.live = 0 /\ (t.linked <=> t.live = 1) /\ (t.due => t.live = 1)
  <2>1. t = NoTimer
    BY <1>2, Values, TimerOps
  <2> QED BY <2>1, EmptyRecords DEF NoTimer
<1>7. sock' = [sock EXCEPT ![c] = sock[c]] /\ ep' = [ep EXCEPT ![c] = ep[c]]
  BY <1>1, <1>2 DEF IInv, Types, Records
<1> HIDE DEF h, t
<1>8. sock[c] \in SockRec /\ ep[c] \in EpRec /\ h.st = "DISCONNECTING" /\ NoCur \in CurRec
  BY <1>2, <1>4, <1>5, Values, EmptyRecords
<1>9. TurnTo(l, c, h, t, sock[c], ep[c], NoCur)
  <2>1. c = cur[l].c /\ cur[l].phase # "none" /\ UNCHANGED <<places, bell, pc, active>>
    BY <1>1
  <2>2. /\ h \in HttpRec /\ t \in TimerRec /\ sock[c] \in SockRec /\ ep[c] \in EpRec
        /\ NoCur \in CurRec
    BY <1>5, <1>6, <1>8
  <2>3. t.live <= 1 /\ (t.linked <=> t.live = 1) /\ (t.due => t.live = 1)
    BY <1>6
  <2>4. NoCur = NoCur /\ (t.live = 1 \/ h.st = "DISCONNECTING")
    BY <1>8
  <2>5. /\ http' = [http EXCEPT ![c] = h] /\ timer' = [timer EXCEPT ![c] = t]
        /\ sock' = [sock EXCEPT ![c] = sock[c]] /\ ep' = [ep EXCEPT ![c] = ep[c]]
        /\ cur' = [cur EXCEPT ![l] = NoCur]
    BY <1>4, <1>7
  <2> QED BY <2>1, <2>2, <2>3, <2>4, <2>5 DEF TurnTo
<1> QED BY <1>9, TurnStep

-------------------------------------------------------------------------------
(* The rounds of a loop.                                                   *)

LEMMA HandlesEvents == ASSUME IInv, NEW l \in Loop, HandleEvents(l) PROVE IInv'
<1>1. pc[l] = "events" /\ cur[l] = NoCur /\ UNCHANGED <<places, timer, sock, ep, bell, pc>>
  BY DEF HandleEvents, places, tables, main
<1> DEFINE p(a) == IF "IN" \in a.rev THEN "read" ELSE AfterRead(a.rev)
           k(a) == IF Ignored(a.rev) THEN NoCur ELSE [c |-> a.c, rev |-> a.rev, phase |-> p(a)]
           h(a) == [http[a.c] EXCEPT !.events = {}]
<1>2. PICK a \in active[l] : /\ active' = [active EXCEPT ![l] = @ \ {a}]
                             /\ http' = [http EXCEPT ![a.c] = h(a)]
                             /\ cur' = [cur EXCEPT ![l] = k(a)]
  BY DEF HandleEvents
<1>3. a \in ActiveRec /\ a.c \in Conn /\ a.rev \in SUBSET Revents
  BY DEF IInv, Types, Turns, ActiveRec
<1>4. Open(a.c) /\ loopOf[a.c] = l /\ Registered(a.c) /\ \A b \in active[l] : b.c = a.c => b = a
  BY DEF IInv, Rounds
<1>5. p(a) \in Phases /\ p(a) # "none"
  <2>1. "read" \in Phases
    BY DEF Phases
  <2> QED BY <2>1, AfterReadPhase
<1> HIDE DEF p
<1>6. k(a) \in CurRec /\ (k(a) = NoCur \/ (k(a).c = a.c /\ k(a).phase # "none"))
  BY <1>3, <1>5, EmptyRecords DEF CurRec
<1>7. h(a) \in HttpRec /\ h(a).st = http[a.c].st
  <2>1. {} \in SUBSET Flags
    OBVIOUS
  <2> QED BY <1>3, <2>1, Values, HttpUpdates
<1> HIDE DEF k, h
<1>8. /\ http \in [Conn -> HttpRec] /\ active \in [Loop -> SUBSET ActiveRec]
      /\ cur \in [Loop -> CurRec]
  BY DEF IInv, Types, Records, Turns
<1>9. /\ http' \in [Conn -> HttpRec] /\ \A d \in Conn : http'[d].st = http[d].st
      /\ active' \in [Loop -> SUBSET ActiveRec] /\ active'[l] = active[l] \ {a}
      /\ \A m \in Loop \ {l} : active'[m] = active[m] /\ cur'[m] = cur[m]
      /\ cur' \in [Loop -> CurRec] /\ cur'[l] = k(a)
  BY <1>2, <1>3, <1>6, <1>7, <1>8
<1>10. Records' /\ Turns' /\ Bells'
  BY <1>1, <1>9 DEF IInv, Types, Records, Turns, Bells
<1>11. NoCur.c = None
  BY DEF NoCur
<1>12. OneTimer' /\ Timed' /\ States'
  BY <1>1, <1>9 DEF IInv, OneTimer, Timed, States, Open, Installed, places
<1>13. Guarded'
  <2>1. \A d \in Conn : cur[loopOf[d]].c = d => cur'[loopOf[d]].c = d
    BY <1>1, <1>9, <1>11, NoneAssumption DEF IInv, Types, Objects
  <2> QED BY <1>1, <1>9, <2>1 DEF IInv, Guarded, Open, Installed, places
<1>14. Rounds'
  <2> SUFFICES ASSUME NEW m \in Loop
               PROVE  /\ \A b \in active'[m] : Open(b.c) /\ loopOf[b.c] = m /\ Registered(b.c)
                      /\ \A b, d \in active'[m] : b.c = d.c => b = d
                      /\ cur'[m].c # None => /\ Open(cur'[m].c) /\ loopOf[cur'[m].c] = m
                                             /\ Registered(cur'[m].c)
                                             /\ \A b \in active'[m] : b.c # cur'[m].c
                      /\ cur'[m].c = None => cur'[m] = NoCur
                      /\ cur'[m].c # None => cur'[m].phase # "none"
                      /\ pc[m] # "events" => active'[m] = {} /\ cur'[m].c = None
    BY <1>1 DEF Rounds, Open, Registered, places
  <2>1. CASE m = l
    <3>1. a.c # None
      BY <1>3, NoneAssumption
    <3>2. \A b \in active'[l] : b \in active[l] /\ b.c # a.c
      BY <1>4, <1>9
    <3> QED BY <2>1, <3>1, <3>2, <1>1, <1>4, <1>6, <1>9, <1>11 DEF IInv, Rounds
  <2>2. CASE m # l
    BY <2>2, <1>9 DEF IInv, Rounds
  <2> QED BY <2>1, <2>2
<1>15. \A m \in Loop : pc'[m] # "functors" => batch[m] = <<>>
  BY <1>1 DEF IInv, Queues
<1>16. \A d \in Conn : ep'[d].in => ep[d].in
  BY <1>1
<1> QED BY <1>1, <1>10, <1>12, <1>13, <1>14, <1>15, <1>16, StaysInPlace

LEMMA Polls == ASSUME IInv, NEW l \in Loop, Poll(l) PROVE IInv'
<1> DEFINE ready == {c \in Conn : life[c] = "open" /\ loopOf[c] = l /\ Reportable(c)}
           found == {c \in ready : fd2chan[l][fdOf[c]] # None}
           rev(c) == ReadyFor(sock[c], ep[c].mask)
           mask(c) == IF "ONESHOT" \in ep[c].mask THEN {} ELSE ep[c].mask
           e(c) == [[ep[c] EXCEPT !.edge = FALSE] EXCEPT !.mask = mask(c)]
<1>1. pc[l] = "poll" /\ UNCHANGED <<places, timer, sock, cur>>
  BY DEF Poll, places, tables, main
<1>2. /\ active' = [active EXCEPT ![l] = {[c |-> fd2chan[l][fdOf[c]], rev |-> rev(c)] : c \in found}]
      /\ http' = [c \in Conn |-> IF \E a \in active'[l] : a.c = c
                                 THEN [http[c] EXCEPT !.events = {}] ELSE http[c]]
      /\ bell' = [bell EXCEPT ![l] = FALSE]
      /\ pc' = [pc EXCEPT ![l] = IF found # {} \/ bell[l] THEN "events" ELSE "poll"]
  BY DEF Poll
<1>3. ep' = [c \in Conn |-> IF c \notin ready THEN ep[c] ELSE e(c)]
  BY DEF Poll
<1>4. \A c \in ready : Open(c) /\ loopOf[c] = l /\ Registered(c) /\ fd2chan[l][fdOf[c]] = c
  BY DEF IInv, Entries, Reportable, Open, Registered
<1>5. \A c \in Conn : rev(c) \in SUBSET Revents /\ mask(c) \in SUBSET Flags
  BY ReadyForType DEF IInv, Types, Records, EpRec
<1> HIDE DEF ready, rev, mask
<1>6. \A c \in Conn : e(c) \in EpRec /\ e(c).in = ep[c].in
  BY <1>5 DEF IInv, Types, Records, EpRec
<1> HIDE DEF e
<1>7. ready \subseteq Conn
  BY DEF ready
<1>8. \A a \in active'[l] : \E c \in ready : a = [c |-> c, rev |-> rev(c)]
  BY <1>2, <1>4 DEF IInv, Types, Turns
<1>9. active'[l] \in SUBSET ActiveRec
  BY <1>5, <1>7, <1>8 DEF ActiveRec
<1>10. /\ active' \in [Loop -> SUBSET ActiveRec]
       /\ \A m \in Loop \ {l} : active'[m] = active[m] /\ pc'[m] = pc[m]
  BY <1>2, <1>9 DEF IInv, Types, Turns
<1>11. /\ pc' \in [Loop -> {"poll", "events", "functors", "expired"}]
       /\ pc'[l] \in {"poll", "events"} /\ (pc'[l] = "poll" => active'[l] = {})
  BY <1>2 DEF IInv, Types, Turns
<1>12. ep' \in [Conn -> EpRec] /\ \A c \in Conn : ep'[c].in = ep[c].in
  BY <1>3, <1>6 DEF IInv, Types, Records
<1>13. http' \in [Conn -> HttpRec] /\ \A c \in Conn : http'[c].st = http[c].st
  <2>1. \A c \in Conn : /\ [http[c] EXCEPT !.events = {}] \in HttpRec
                        /\ [http[c] EXCEPT !.events = {}].st = http[c].st
    BY Values, HttpUpdates
  <2> QED BY <1>2, <2>1 DEF IInv, Types, Records
<1>14. Records' /\ Turns' /\ Bells'
  <2>1. Records' /\ Turns'
    BY <1>1, <1>10, <1>11, <1>12, <1>13 DEF IInv, Types, Records, Turns
  <2>2. Bells'
    BY <1>2 DEF IInv, Types, Bells
  <2> QED BY <2>1, <2>2
<1>15. OneTimer' /\ Timed' /\ States' /\ Guarded'
  BY <1>1, <1>13 DEF IInv, OneTimer, Timed, States, Guarded, Open, Installed, places
<1>16. Rounds'
  <2> SUFFICES ASSUME NEW m \in Loop
               PROVE  /\ \A a \in active'[m] : Open(a.c) /\ loopOf[a.c] = m /\ Registered(a.c)
                      /\ \A a, b \in active'[m] : a.c = b.c => a = b
                      /\ cur[m].c # None => /\ Open(cur[m].c) /\ loopOf[cur[m].c] = m
                                            /\ Registered(cur[m].c)
                                            /\ \A a \in active'[m] : a.c # cur[m].c
                      /\ cur[m].c = None => cur[m] = NoCur
                      /\ cur[m].c # None => cur[m].phase # "none"
                      /\ pc'[m] # "events" => active'[m] = {} /\ cur[m].c = None
    BY <1>1 DEF Rounds, Open, Registered, places
  <2>1. CASE m = l
    <3>1. cur[l].c = None /\ cur[l] = NoCur
      BY <1>1 DEF IInv, Rounds
    <3>2. \A a \in active'[l] : a.c \in ready /\ a.rev = rev(a.c)
      BY <1>8
    <3>3. \A a, b \in active'[l] : a.c = b.c => a = b
      BY <1>8
    <3> QED BY <2>1, <3>1, <3>2, <3>3, <1>4, <1>11
  <2>2. CASE m # l
    BY <2>2, <1>10 DEF IInv, Rounds
  <2> QED BY <2>1, <2>2
<1>17. \A m \in Loop : pc'[m] # "functors" => batch[m] = <<>>
  BY <1>1, <1>10 DEF IInv, Queues
<1> QED BY <1>1, <1>12, <1>14, <1>15, <1>16, <1>17, StaysInPlace

\* Steps that only turn a loop to its next part.
LEMMA Turning ==
    ASSUME IInv, NEW l \in Loop, NEW p \in {"poll", "expired"},
           pc[l] \notin {"events"}, pc[l] = "functors" => batch[l] = <<>>,
           pc' = [pc EXCEPT ![l] = p],
           UNCHANGED <<places, http, timer, sock, ep, bell, active, cur>>
    PROVE  IInv'
<1>1. pc' \in [Loop -> {"poll", "events", "functors", "expired"}]
      /\ pc'[l] = p /\ \A m \in Loop \ {l} : pc'[m] = pc[m]
  BY DEF IInv, Types, Turns
<1>2. Records' /\ Turns' /\ Bells'
  BY <1>1 DEF IInv, Types, Records, Turns, Bells
<1>3. OneTimer' /\ Timed' /\ Guarded' /\ States'
  BY DEF IInv, OneTimer, Timed, Guarded, States, Open, Installed, places
<1>4. Rounds'
  BY <1>1 DEF IInv, Rounds, Open, Registered, places
<1>5. \A m \in Loop : pc'[m] # "functors" => batch[m] = <<>>
  BY <1>1 DEF IInv, Queues
<1>6. \A c \in Conn : ep'[c].in => ep[c].in
  OBVIOUS
<1>7. UNCHANGED places
  OBVIOUS
<1> QED BY <1>2, <1>3, <1>4, <1>5, <1>6, <1>7, StaysInPlace

LEMMA BatchesDone == ASSUME IInv, NEW l \in Loop, BatchDone(l) PROVE IInv'
<1>1. pc[l] \notin {"events"} /\ (pc[l] = "functors" => batch[l] = <<>>)
      /\ pc' = [pc EXCEPT ![l] = "expired"]
      /\ UNCHANGED <<places, http, timer, sock, ep, bell, active, cur>>
  BY DEF BatchDone, places, tables, main
<1> QED BY <1>1, Turning

LEMMA ExpiredAreDone == ASSUME IInv, NEW l \in Loop, ExpiredDone(l) PROVE IInv'
<1>1. pc[l] \notin {"events"} /\ (pc[l] = "functors" => batch[l] = <<>>)
      /\ pc' = [pc EXCEPT ![l] = "poll"]
      /\ UNCHANGED <<places, http, timer, sock, ep, bell, active, cur>>
  BY DEF ExpiredDone, places, tables, main
<1> QED BY <1>1, Turning

LEMMA Swaps == ASSUME IInv, NEW l \in Loop, Swap(l) PROVE IInv'
<1>1. /\ pc[l] = "events" /\ cur[l] = NoCur /\ active[l] = {}
      /\ UNCHANGED <<life, fdOf, loopOf, http, timer, sock, ep, fd2chan, fd2http, bell, next,
                     reqInfo, active, cur>>
  BY DEF Swap, EventsDone, tables, main
<1>2. batch' = [batch EXCEPT ![l] = queue[l]] /\ queue' = [queue EXCEPT ![l] = <<>>]
      /\ pc' = [pc EXCEPT ![l] = "functors"]
  BY DEF Swap
<1>3. batch[l] = <<>>
  BY <1>1 DEF IInv, Queues
<1>4. /\ pc' \in [Loop -> {"poll", "events", "functors", "expired"}]
      /\ queue' \in [Loop -> Seq(Conn)] /\ batch' \in [Loop -> Seq(Conn)]
      /\ pc'[l] = "functors" /\ queue'[l] = <<>> /\ batch'[l] = queue[l]
      /\ \A m \in Loop \ {l} : pc'[m] = pc[m] /\ queue'[m] = queue[m] /\ batch'[m] = batch[m]
  BY <1>2 DEF IInv, Types, Turns, Functors
<1>5. Types'
  BY <1>1, <1>4 DEF IInv, Types, Objects, Records, Maps, Functors, Turns, Bells
<1>6. /\ Descriptors' /\ Tables' /\ Entries' /\ OneTimer' /\ Timed' /\ Guarded' /\ States'
      /\ NothingLingers'
  BY <1>1 DEF IInv, Descriptors, Tables, Entries, OneTimer, Timed, Guarded, States, NothingLingers,
              Alive, Open, Installed, Registered
<1>7. NoCur.c = None
  BY DEF NoCur
<1>8. Rounds'
  <2>1. \A m \in Loop : pc'[m] # "events" => active[m] = {} /\ cur[m].c = None
    BY <1>1, <1>4, <1>7 DEF IInv, Rounds
  <2> QED BY <1>1, <2>1 DEF IInv, Rounds, Open, Registered
<1>9. \A m \in Loop, c \in Conn :
          c \in Range(queue'[m]) \/ c \in Range(batch'[m]) <=> Waiting(m, c)
  BY <1>3, <1>4, EmptySequence DEF Waiting
<1>10. Places'
  BY <1>1, <1>9 DEF IInv, Types, Objects, Places, Open, Installed, Waiting
<1>11. Queues'
  <2>1. \A m \in Loop, c \in Conn : Waiting(m, c)' => Open(c)' /\ loopOf'[c] = m /\ ~Installed(c)'
    BY <1>1, <1>9 DEF IInv, Queues, Open, Installed, Waiting
  <2>2. \A m \in Loop : IsInjective(queue'[m]) /\ IsInjective(batch'[m])
    BY <1>4, EmptySequence DEF IInv, Queues
  <2>3. \A m \in Loop : \A c \in Range(queue'[m]) : c \notin Range(batch'[m])
    BY <1>4, EmptySequence DEF IInv, Queues
  <2>4. \A m \in Loop : pc'[m] # "functors" => batch'[m] = <<>>
    BY <1>4 DEF IInv, Queues
  <2> QED BY <2>1, <2>2, <2>3, <2>4 DEF Queues
<1> QED BY <1>5, <1>6, <1>8, <1>10, <1>11 DEF IInv

LEMMA AddTimerToNone ==
    ASSUME NEW t \in TimerRec, t.live = 0, ~t.linked, ~t.due
    PROVE  /\ AddTimer(t) \in TimerRec /\ AddTimer(t).live = 1
           /\ AddTimer(t).linked = TRUE /\ AddTimer(t).due = FALSE
BY DEF AddTimer, TimerRec

LEMMA NewEventOf ==
    ASSUME IInv, NEW l \in Loop, NEW c \in Conn, c = Head(batch[l]), NewEvent(l)
    PROVE  IInv'
<1> DEFINE f == fdOf[c]
           events == {"IN", "ONESHOT"}
           h == [[http[c] EXCEPT !.events = events] EXCEPT !.last = events]
           t == AddTimer(timer[c])
<1>1. /\ pc[l] = "functors" /\ batch[l] # <<>> /\ batch' = [batch EXCEPT ![l] = Tail(batch[l])]
      /\ http' = [http EXCEPT ![c] = h] /\ timer' = [timer EXCEPT ![c] = t]
      /\ fd2http' = [fd2http EXCEPT ![l][f] = c]
      /\ UNCHANGED <<life, fdOf, loopOf, sock, queue, bell, next, reqInfo, pc, active, cur>>
  BY DEF NewEvent, main
<1> DEFINE chan(added) == IF added THEN c ELSE None
           e(added) == IF added THEN Armed(c, events) ELSE ep[c]
<1>2. PICK added \in BOOLEAN : /\ fd2chan' = [fd2chan EXCEPT ![l][f] = chan(added)]
                               /\ ep' = [ep EXCEPT ![c] = e(added)]
  BY DEF NewEvent
<1>3. batch[l] \in Seq(Conn) /\ queue \in [Loop -> Seq(Conn)] /\ batch \in [Loop -> Seq(Conn)]
  BY DEF IInv, Types, Functors
<1>4. /\ c \in Conn /\ Tail(batch[l]) \in Seq(Conn)
      /\ Range(batch[l]) = {c} \cup Range(Tail(batch[l]))
  BY <1>1, <1>3, SplitHead
<1>5. IsInjective(Tail(batch[l])) /\ c \notin Range(Tail(batch[l]))
  BY <1>1, <1>3, InjectiveTail DEF IInv, Queues
<1> HIDE DEF chan, e
<1>6. Waiting(l, c)
  BY <1>4 DEF Waiting
<1>7. Open(c) /\ loopOf[c] = l /\ ~Installed(c) /\ c \notin Range(queue[l]) /\ c # None
  BY <1>4, <1>6, NoneAssumption DEF IInv, Queues
<1>8. f \in Fd /\ \A d \in Conn : Open(d) => fdOf[d] \in Fd
  BY <1>4, <1>7 DEF IInv, Descriptors, Alive, Open
<1>9. \A d \in Conn : Open(d) /\ fdOf[d] = f => d = c
  BY <1>4, <1>7 DEF IInv, Descriptors, Alive, Open
<1>10. fd2chan \in [Loop -> [Fd -> Conn \cup {None}]] /\ fd2http \in [Loop -> [Fd -> Conn \cup {None}]]
  BY DEF IInv, Types, Maps
<1> HIDE DEF f
<1>11. fd2http[l][f] = None /\ fd2chan[l][f] = None
  <2>1. fd2http[l][f] # None => fd2http[l][f] = c
    BY <1>8, <1>9, <1>10 DEF IInv, Tables
  <2>2. fd2http[l][f] # c
    BY <1>7 DEF Installed, f
  <2>3. fd2chan[l][f] # None => fd2chan[l][f] = fd2http[l][f]
    BY <1>8 DEF IInv, Tables
  <2> QED BY <2>1, <2>2, <2>3
<1>12. timer[c].live = 0 /\ ~timer[c].linked /\ ~timer[c].due /\ ~ep[c].in
  <2>1. ~Registered(c)
    BY <1>7, <1>11 DEF Registered, f
  <2>2. ~ep[c].in
    BY <1>4, <2>1 DEF IInv, Entries
  <2>3. ~(timer[c].live > 0)
    BY <1>4, <1>7 DEF IInv, Timed
  <2> QED BY <1>4, <2>2, <2>3, Values DEF TimerRec
<1>13. events \in SUBSET Flags
  BY DEF Flags
<1>14. h \in HttpRec /\ h.st = http[c].st
  <2> DEFINE g == [http[c] EXCEPT !.events = events]
  <2>1. g \in HttpRec /\ g.st = http[c].st
    BY <1>4, <1>13, Values, HttpUpdates
  <2> HIDE DEF g, events
  <2>2. h = [g EXCEPT !.last = events]
    BY DEF g
  <2>3. [g EXCEPT !.last = events] \in HttpRec /\ [g EXCEPT !.last = events].st = g.st
    BY <1>13, <2>1, HttpUpdates
  <2> QED BY <2>1, <2>2, <2>3
<1>15. t \in TimerRec /\ t.live = 1 /\ (t.linked <=> t.live = 1) /\ (t.due => t.live = 1)
  BY <1>4, <1>12, Values, AddTimerToNone
<1>16. e(added) \in EpRec /\ (e(added).in => added)
  BY <1>4, <1>12, <1>13, Values, ArmedType DEF e
<1>17. chan(added) \in {c, None} /\ (added => chan(added) = c)
  BY DEF chan
<1> HIDE DEF events, h, t
<1>18. /\ http \in [Conn -> HttpRec] /\ timer \in [Conn -> TimerRec] /\ ep \in [Conn -> EpRec]
  BY DEF IInv, Types, Records
<1>19. /\ http' \in [Conn -> HttpRec] /\ timer' \in [Conn -> TimerRec] /\ ep' \in [Conn -> EpRec]
       /\ http'[c] = h /\ timer'[c] = t /\ ep'[c] = e(added)
       /\ \A d \in Conn \ {c} : http'[d] = http[d] /\ timer'[d] = timer[d] /\ ep'[d] = ep[d]
  BY <1>1, <1>2, <1>4, <1>14, <1>15, <1>16, <1>18
<1>20. /\ batch' \in [Loop -> Seq(Conn)] /\ batch'[l] = Tail(batch[l])
       /\ \A m \in Loop \ {l} : batch'[m] = batch[m]
  BY <1>1, <1>3, <1>4
<1>21. /\ fd2http' \in [Loop -> [Fd -> Conn \cup {None}]]
       /\ fd2chan' \in [Loop -> [Fd -> Conn \cup {None}]]
       /\ fd2http'[l][f] = c /\ fd2chan'[l][f] = chan(added)
       /\ \A m \in Loop, g \in Fd : m # l \/ g # f =>
              fd2http'[m][g] = fd2http[m][g] /\ fd2chan'[m][g] = fd2chan[m][g]
  BY <1>1, <1>2, <1>4, <1>8, <1>10, <1>17
<1>22. Types'
  BY <1>1, <1>19, <1>20, <1>21 DEF IInv, Types, Objects, Records, Maps, Functors, Turns, Bells
<1>23. Descriptors' /\ NothingLingers'
  BY <1>1 DEF IInv, Descriptors, Alive, NothingLingers
<1>24. \A d \in Conn \ {c} : Open(d) => /\ Installed(d)' <=> Installed(d)
                                        /\ Registered(d)' <=> Registered(d)
  <2> SUFFICES ASSUME NEW d \in Conn \ {c}, Open(d)
               PROVE  (Installed(d)' <=> Installed(d)) /\ (Registered(d)' <=> Registered(d))
    OBVIOUS
  <2>1. loopOf[d] \in Loop /\ fdOf[d] \in Fd /\ fdOf[d] # f
    BY <1>8, <1>9 DEF IInv, Types, Objects
  <2>2. /\ fd2http'[loopOf[d]][fdOf[d]] = fd2http[loopOf[d]][fdOf[d]]
        /\ fd2chan'[loopOf[d]][fdOf[d]] = fd2chan[loopOf[d]][fdOf[d]]
    BY <1>21, <2>1
  <2> QED BY <1>1, <2>2 DEF Installed, Registered
<1>25. Installed(c)' /\ (added => Registered(c)')
  <2>1. loopOf'[c] = l /\ fdOf'[c] = f
    BY <1>1, <1>7 DEF f
  <2> QED BY <2>1, <1>17, <1>21 DEF Installed, Registered
<1>26. Tables'
  <2> SUFFICES ASSUME NEW m \in Loop, NEW g \in Fd
               PROVE  /\ fd2http'[m][g] # None => /\ Open(fd2http'[m][g])
                                                  /\ fdOf[fd2http'[m][g]] = g
                                                  /\ loopOf[fd2http'[m][g]] = m
                      /\ fd2chan'[m][g] # None => fd2chan'[m][g] = fd2http'[m][g]
    BY <1>1 DEF Tables, Open
  <2>1. CASE m = l /\ g = f
    BY <2>1, <1>7, <1>17, <1>21 DEF f
  <2>2. CASE m # l \/ g # f
    BY <2>2, <1>21 DEF IInv, Tables
  <2> QED BY <2>1, <2>2
<1>27. Entries'
  <2> SUFFICES ASSUME NEW d \in Conn, ep'[d].in PROVE Open(d) /\ Registered(d)'
    BY <1>1 DEF Entries, Open
  <2>1. CASE d = c
    BY <2>1, <1>7, <1>16, <1>19, <1>25
  <2>2. CASE d # c
    BY <2>2, <1>19, <1>24 DEF IInv, Entries
  <2> QED BY <2>1, <2>2
<1>28. \A m \in Loop, d \in Conn :
          d \in Range(queue[m]) \/ d \in Range(batch'[m]) <=> Waiting(m, d) /\ d # c
  <2> SUFFICES ASSUME NEW m \in Loop, NEW d \in Conn
               PROVE  d \in Range(queue[m]) \/ d \in Range(batch'[m]) <=> Waiting(m, d) /\ d # c
    OBVIOUS
  <2>1. CASE m = l
    BY <2>1, <1>4, <1>5, <1>7, <1>20 DEF Waiting
  <2>2. CASE m # l
    <3>1. ~Waiting(m, c)
      BY <2>2, <1>4, <1>7 DEF IInv, Queues
    <3> QED BY <2>2, <3>1, <1>20 DEF Waiting
  <2> QED BY <2>1, <2>2
<1>29. Queues'
  <2>1. \A m \in Loop, d \in Conn : Waiting(m, d)' => Open(d)' /\ loopOf'[d] = m /\ ~Installed(d)'
    <3>1. \A m \in Loop, d \in Conn : Waiting(m, d)' => Waiting(m, d) /\ d # c
      BY <1>1, <1>28 DEF Waiting
    <3>2. \A m \in Loop, d \in Conn : Waiting(m, d) => Open(d) /\ loopOf[d] = m /\ ~Installed(d)
      BY DEF IInv, Queues
    <3> QED BY <1>1, <1>24, <3>1, <3>2 DEF Open
  <2>2. \A m \in Loop : IsInjective(queue'[m]) /\ IsInjective(batch'[m])
    BY <1>1, <1>5, <1>20 DEF IInv, Queues
  <2>3. \A m \in Loop : \A d \in Range(queue'[m]) : d \notin Range(batch'[m])
    BY <1>1, <1>4, <1>20 DEF IInv, Queues
  <2>4. \A m \in Loop : pc'[m] # "functors" => batch'[m] = <<>>
    BY <1>1, <1>20 DEF IInv, Queues
  <2> QED BY <2>1, <2>2, <2>3, <2>4 DEF Queues
<1>30. Places'
  <2> SUFFICES ASSUME NEW d \in Conn, Open(d)
               PROVE  Installed(d)' \/ Waiting(loopOf[d], d)'
    BY <1>1 DEF Places, Open, Waiting
  <2>1. CASE d = c
    BY <2>1, <1>25
  <2>2. CASE d # c
    <3>1. loopOf[d] \in Loop /\ (Installed(d) \/ Waiting(loopOf[d], d))
      BY DEF IInv, Places, Types, Objects
    <3>2. Waiting(loopOf[d], d)' <=> d \in Range(queue[loopOf[d]]) \/ d \in Range(batch'[loopOf[d]])
      BY <1>1 DEF Waiting
    <3> QED BY <2>2, <3>1, <3>2, <1>24, <1>28
  <2> QED BY <2>1, <2>2
<1>31. OneTimer'
  BY <1>15, <1>19 DEF IInv, OneTimer
<1>32. Timed'
  <2> SUFFICES ASSUME NEW d \in Conn, timer'[d].live > 0 PROVE Open(d) /\ Installed(d)'
    BY <1>1 DEF Timed, Open
  <2>1. CASE d = c
    BY <2>1, <1>7, <1>25
  <2>2. CASE d # c
    BY <2>2, <1>19, <1>24 DEF IInv, Timed
  <2> QED BY <2>1, <2>2
<1>33. Guarded'
  <2> SUFFICES ASSUME NEW d \in Conn, Open(d), Installed(d)', cur[loopOf[d]].c # d
               PROVE  timer'[d].live = 1 \/ http'[d].st = "DISCONNECTING"
    BY <1>1 DEF Guarded, Open
  <2>1. CASE d = c
    BY <2>1, <1>15, <1>19
  <2>2. CASE d # c
    BY <2>2, <1>19, <1>24 DEF IInv, Guarded
  <2> QED BY <2>1, <2>2
<1>34. States'
  BY <1>1, <1>4, <1>14, <1>19 DEF IInv, States, Open
<1>35. Rounds'
  <2>1. \A m \in Loop : \A a \in active[m] : a.c \in Conn \ {c}
    BY <1>4, <1>11, <1>7 DEF IInv, Types, Turns, ActiveRec, Rounds, Registered, f
  <2>2. \A m \in Loop : cur[m].c # None => cur[m].c \in Conn \ {c}
    BY <1>4, <1>11, <1>7 DEF IInv, Types, Turns, CurRec, Rounds, Registered, f
  <2> QED BY <1>1, <1>24, <2>1, <2>2 DEF IInv, Rounds, Open
<1> QED BY <1>22, <1>23, <1>26, <1>27, <1>29, <1>30, <1>31, <1>32, <1>33, <1>34, <1>35 DEF IInv

LEMMA NewEvents == ASSUME IInv, NEW l \in Loop, NewEvent(l) PROVE IInv'
<1>1. batch[l] # <<>> /\ batch[l] \in Seq(Conn)
  BY DEF NewEvent, IInv, Types, Functors
<1>2. Head(batch[l]) \in Conn
  BY <1>1, SplitHead
<1> QED BY <1>2, NewEventOf

-------------------------------------------------------------------------------
(* Accepting.                                                              *)

LEMMA NextLoop == ASSUME NEW n \in Loop PROVE (n + 1) % NumLoops \in Loop
BY SizesAssumption DEF Loop

LEMMA Accepts == ASSUME IInv, NEW c \in Conn, Accept(c) PROVE IInv'
<1>1. PICK f \in Fd \ UsedFds : fdOf' = [fdOf EXCEPT ![c] = f]
  BY DEF Accept
<1>2. PICK l \in Loop : l = next
  BY DEF IInv, Types, Objects
<1>3. /\ life[c] = "fresh" /\ life' = [life EXCEPT ![c] = "open"]
      /\ loopOf' = [loopOf EXCEPT ![c] = l] /\ next' = (l + 1) % NumLoops
      /\ queue' = [queue EXCEPT ![l] = Append(queue[l], c)] /\ bell' = [bell EXCEPT ![l] = TRUE]
      /\ UNCHANGED <<http, timer, sock, ep, fd2chan, fd2http, batch, pc, active, cur>>
  BY <1>2 DEF Accept, tables
<1>4. c # None /\ ~Open(c)
  BY <1>3, NoneAssumption DEF Open
<1>5. /\ life \in [Conn -> Lives] /\ fdOf \in [Conn -> 0 .. NumFds]
      /\ loopOf \in [Conn -> Loop] /\ queue \in [Loop -> Seq(Conn)]
  BY DEF IInv, Types, Objects, Functors
<1>6. /\ \A d \in Conn \ {c} : /\ Open(d)' <=> Open(d)
                               /\ life'[d] = life[d] /\ fdOf'[d] = fdOf[d]
                               /\ loopOf'[d] = loopOf[d]
      /\ Open(c)' /\ fdOf'[c] = f /\ loopOf'[c] = l /\ life'[c] = "open"
  BY <1>1, <1>3, <1>5 DEF Open
<1>7. /\ Append(queue[l], c) \in Seq(Conn)
      /\ Range(Append(queue[l], c)) = Range(queue[l]) \cup {c}
  BY <1>5, RangeAppend
<1>8. /\ queue' \in [Loop -> Seq(Conn)] /\ queue'[l] = Append(queue[l], c)
      /\ \A m \in Loop \ {l} : queue'[m] = queue[m]
  BY <1>3, <1>5, <1>7
<1>9. Types'
  <2>1. f \in 0 .. NumFds
    BY SizesAssumption DEF Fd
  <2>2. reqInfo' = c
    BY DEF Accept
  <2>3. Objects'
    BY <1>1, <1>3, <1>5, <2>1, <2>2, NextLoop DEF Objects, Lives
  <2>4. Bells'
    BY <1>3 DEF IInv, Types, Bells
  <2> QED BY <1>3, <1>8, <2>3, <2>4 DEF IInv, Types, Records, Maps, Functors, Turns
<1>10. Descriptors' /\ NothingLingers'
  <2>1. \A d \in Conn : Alive(d) => fdOf[d] # f
    BY DEF UsedFds
  <2>2. \A d \in Conn \ {c} : Alive(d)' <=> Alive(d)
    BY <1>6 DEF Alive
  <2>3. Descriptors'
    BY <1>1, <1>6, <2>1, <2>2 DEF IInv, Descriptors
  <2>4. \A d \in Conn : life[d] # "disconnected"
    BY NoneAssumption DEF Accept, IInv, NothingLingers
  <2> QED BY <1>6, <2>3, <2>4 DEF NothingLingers
<1>11. \A d \in Conn : (Waiting(loopOf[d], d) \/ Queued(d) \/ ep[d].in \/ timer[d].live > 0) => d # c
  BY <1>4, <1>5 DEF IInv, Queues, Queued, Waiting, Entries, Timed
<1>12. \A d \in Conn \ {c} : /\ Installed(d)' <=> Installed(d)
                             /\ Registered(d)' <=> Registered(d)
  BY <1>3, <1>6 DEF Installed, Registered
<1>13. \A m \in Loop, g \in Fd : fd2http[m][g] # c /\ fd2chan[m][g] # c
  BY <1>4 DEF IInv, Tables
<1>14. ~Installed(c)'
  BY <1>3, <1>6, <1>13 DEF Installed
<1>15. Tables'
  <2>1. \A m \in Loop, g \in Fd : fd2http[m][g] # None => fd2http[m][g] \in Conn \ {c}
    BY <1>13 DEF IInv, Types, Maps
  <2> QED BY <1>3, <1>6, <2>1 DEF IInv, Tables
<1>16. Entries'
  BY <1>3, <1>6, <1>11, <1>12 DEF IInv, Entries
<1>17. \A m \in Loop, d \in Conn : Waiting(m, d)' <=> Waiting(m, d) \/ (m = l /\ d = c)
  <2> SUFFICES ASSUME NEW m \in Loop, NEW d \in Conn
               PROVE  Waiting(m, d)' <=> Waiting(m, d) \/ (m = l /\ d = c)
    OBVIOUS
  <2>1. Waiting(m, d)' <=> d \in Range(queue'[m]) \/ d \in Range(batch[m])
    BY <1>3 DEF Waiting
  <2>2. CASE m = l
    BY <2>1, <2>2, <1>7, <1>8 DEF Waiting
  <2>3. CASE m # l
    BY <2>1, <2>3, <1>8 DEF Waiting
  <2> QED BY <2>2, <2>3
<1>18. \A m \in Loop : c \notin Range(queue[m]) /\ c \notin Range(batch[m])
  BY <1>4 DEF IInv, Queues, Waiting
<1>19. Queues'
  <2>1. \A m \in Loop, d \in Conn : Waiting(m, d)' => Open(d)' /\ loopOf'[d] = m /\ ~Installed(d)'
    <3> SUFFICES ASSUME NEW m \in Loop, NEW d \in Conn, Waiting(m, d)'
                 PROVE  Open(d)' /\ loopOf'[d] = m /\ ~Installed(d)'
      OBVIOUS
    <3>1. CASE d = c
      <4>1. m = l
        BY <3>1, <1>17, <1>18 DEF Waiting
      <4> QED BY <3>1, <4>1, <1>6, <1>14
    <3>2. CASE d # c
      BY <3>2, <1>6, <1>12, <1>17 DEF IInv, Queues
    <3> QED BY <3>1, <3>2
  <2>2. \A m \in Loop : IsInjective(queue'[m]) /\ IsInjective(batch'[m])
    <3>1. IsInjective(Append(queue[l], c))
      BY <1>5, <1>18, InjectiveAppend DEF IInv, Queues
    <3> QED BY <1>3, <1>8, <3>1 DEF IInv, Queues
  <2>3. \A m \in Loop : \A d \in Range(queue'[m]) : d \notin Range(batch'[m])
    <3> SUFFICES ASSUME NEW m \in Loop, NEW d \in Range(queue'[m]) PROVE d \notin Range(batch[m])
      BY <1>3
    <3>1. d \in Range(queue[m]) \/ d = c
      BY <1>7, <1>8
    <3> QED BY <3>1, <1>18 DEF IInv, Queues
  <2>4. \A m \in Loop : pc'[m] # "functors" => batch'[m] = <<>>
    BY <1>3 DEF IInv, Queues
  <2> QED BY <2>1, <2>2, <2>3, <2>4 DEF Queues
<1>20. Places'
  <2> SUFFICES ASSUME NEW d \in Conn, Open(d)'
               PROVE  Installed(d)' \/ Waiting(loopOf[d], d)'
    BY DEF Places
  <2>1. CASE d = c
    BY <2>1, <1>6, <1>17
  <2>2. CASE d # c
    BY <2>2, <1>5, <1>6, <1>12, <1>17 DEF IInv, Places
  <2> QED BY <2>1, <2>2
<1>21. OneTimer'
  BY <1>3 DEF IInv, OneTimer
<1>22. Timed'
  BY <1>3, <1>6, <1>11, <1>12 DEF IInv, Timed
<1>23. Guarded'
  <2> SUFFICES ASSUME NEW d \in Conn, Open(d)', Installed(d)', cur[loopOf'[d]].c # d
               PROVE  timer[d].live = 1 \/ http[d].st = "DISCONNECTING"
    BY <1>3 DEF Guarded
  <2>1. d # c
    BY <1>14
  <2> QED BY <2>1, <1>6, <1>12 DEF IInv, Guarded
<1>24. States'
  BY <1>3, <1>6 DEF IInv, States
<1>25. Rounds'
  <2>1. \A m \in Loop : \A a \in active[m] : a.c \in Conn \ {c}
    BY <1>4 DEF IInv, Types, Turns, ActiveRec, Rounds
  <2>2. \A m \in Loop : cur[m].c # None => cur[m].c \in Conn \ {c}
    BY <1>4 DEF IInv, Types, Turns, CurRec, Rounds
  <2> QED BY <1>3, <1>6, <1>12, <2>1, <2>2 DEF IInv, Rounds
<1> QED BY <1>9, <1>10, <1>15, <1>16, <1>19, <1>20, <1>21, <1>22, <1>23, <1>24, <1>25 DEF IInv

-------------------------------------------------------------------------------
(* Closing: nothing but the closed connection can be destructed, for every *)
(* other open connection is still held by a queue or by a table, and one   *)
(* that had been given up before by the main thread.                       *)

\* A connection that is given up is in no queue and in no table, and has no timer.
LEMMA GivenUp ==
    ASSUME IInv, NEW d \in Conn, life[d] = "disconnected"
    PROVE  /\ ~Queued(d) /\ ~(timer[d].live > 0) /\ ~ep[d].in
           /\ \A m \in Loop, g \in Fd : fd2http[m][g] # d
<1>1. ~Open(d) /\ d # None
  BY NoneAssumption DEF Open
<1>2. ~Queued(d)
  BY <1>1 DEF IInv, Queues, Queued, Waiting
<1>3. ~(timer[d].live > 0) /\ ~ep[d].in
  BY <1>1 DEF IInv, Timed, Entries
<1>4. \A m \in Loop, g \in Fd : fd2http[m][g] # d
  BY <1>1 DEF IInv, Tables
<1> QED BY <1>2, <1>3, <1>4

\* What closing c takes for granted, and what else the step does.
ClosingOf(l, c) ==
    /\ Open(c) /\ loopOf[c] = l /\ Installed(c)
    /\ timer' = [timer EXCEPT ![c] = NoTimer]
    /\ HandleClose(l, c)
    /\ cur' \in [Loop -> CurRec]
    /\ \A m \in Loop : \/ cur'[m] = cur[m] /\ cur[m].c # c
                       \/ cur'[m] = NoCur /\ cur[m].c = c
    /\ \A m \in Loop : \A a \in active[m] : a.c # c
    /\ UNCHANGED <<fdOf, loopOf, queue, batch, bell, next, reqInfo, pc, active>>

LEMMA ClosingStep ==
    ASSUME IInv, NEW l \in Loop, NEW c \in Conn, ClosingOf(l, c)
    PROVE  /\ IInv'
           /\ life'[c] \in {"disconnected", "closed"}
           /\ \A d \in Conn \ {c} : life'[d] = life[d] /\ (Open(d) => http'[d] = http[d])
<1> DEFINE f == fdOf[c]
<1>1. /\ Open(c) /\ loopOf[c] = l /\ Installed(c) /\ timer' = [timer EXCEPT ![c] = NoTimer]
      /\ UNCHANGED <<fdOf, loopOf, queue, batch, bell, next, reqInfo, pc, active>>
      /\ fd2chan' = [fd2chan EXCEPT ![l][f] = None] /\ fd2http' = [fd2http EXCEPT ![l][f] = None]
  BY DEF ClosingOf, HandleClose, DropTables
<1> DEFINE lf == [life EXCEPT ![c] = "disconnected"]
           e == [ep EXCEPT ![c] = NoEntry]
<1>2. /\ life' = [d \in Conn |-> IF Alive(d) /\ ~Held(d)' THEN "closed" ELSE lf[d]]
      /\ http' = [d \in Conn |-> IF life'[d] = "closed" THEN NewHttp ELSE http[d]]
      /\ sock' = [d \in Conn |-> IF life'[d] = "closed" THEN NewSock ELSE sock[d]]
      /\ ep' = [d \in Conn |-> IF life'[d] = "closed" THEN NoEntry ELSE e[d]]
  BY DEF ClosingOf, HandleClose, Destruct
<1>3. /\ cur' \in [Loop -> CurRec]
      /\ \A m \in Loop : \/ cur'[m] = cur[m] /\ cur[m].c # c
                         \/ cur'[m] = NoCur /\ cur[m].c = c
      /\ \A m \in Loop : \A a \in active[m] : a.c # c
  BY DEF ClosingOf
<1>4. f \in Fd /\ \A d \in Conn : Open(d) => /\ fdOf[d] \in Fd /\ loopOf[d] \in Loop
                                             /\ d # c => fdOf[d] # f
  BY <1>1 DEF IInv, Descriptors, Alive, Open, Types, Objects
<1>5. c # None /\ NoTimer.live = 0 /\ NoTimer.linked = FALSE /\ NoTimer.due = FALSE
      /\ ~NoEntry.in /\ NoCur.c = None
  BY NoneAssumption DEF NoTimer, NoEntry, NoCur
<1>6. \A m \in Loop, g \in Fd : fd2http[m][g] = c \/ fd2chan[m][g] = c => m = l /\ g = f
  BY <1>1, <1>5 DEF IInv, Tables
<1>7. /\ fd2http' \in [Loop -> [Fd -> Conn \cup {None}]]
      /\ fd2chan' \in [Loop -> [Fd -> Conn \cup {None}]]
      /\ fd2http'[l][f] = None /\ fd2chan'[l][f] = None
      /\ \A m \in Loop, g \in Fd : m # l \/ g # f =>
             fd2http'[m][g] = fd2http[m][g] /\ fd2chan'[m][g] = fd2chan[m][g]
  <2> HIDE DEF f
  <2>1. /\ fd2chan \in [Loop -> [Fd -> Conn \cup {None}]]
        /\ fd2http \in [Loop -> [Fd -> Conn \cup {None}]]
    BY DEF IInv, Types, Maps
  <2> QED BY <1>1, <1>4, <2>1
<1>8. timer' \in [Conn -> TimerRec] /\ timer'[c] = NoTimer
      /\ \A d \in Conn \ {c} : timer'[d] = timer[d]
  BY <1>1, EmptyRecords DEF IInv, Types, Records
<1>9. ~(timer'[c].live > 0)
  BY <1>5, <1>8
<1>10. \A d \in Conn \ {c} : Open(d) => /\ Installed(d)' <=> Installed(d)
                                        /\ Registered(d)' <=> Registered(d)
  <2> SUFFICES ASSUME NEW d \in Conn \ {c}, Open(d)
               PROVE  (Installed(d)' <=> Installed(d)) /\ (Registered(d)' <=> Registered(d))
    OBVIOUS
  <2>1. loopOf[d] \in Loop /\ fdOf[d] \in Fd /\ fdOf[d] # f
    BY <1>4
  <2>2. /\ fd2http'[loopOf[d]][fdOf[d]] = fd2http[loopOf[d]][fdOf[d]]
        /\ fd2chan'[loopOf[d]][fdOf[d]] = fd2chan[loopOf[d]][fdOf[d]]
    BY <1>7, <2>1
  <2> QED BY <1>1, <2>2 DEF Installed, Registered
<1>11. \A d \in Conn \ {c} : Alive(d) => Held(d)'
  <2> SUFFICES ASSUME NEW d \in Conn \ {c}, Alive(d) PROVE Held(d)'
    OBVIOUS
  <2>1. CASE Open(d)
    <3>1. loopOf[d] \in Loop /\ fdOf[d] \in Fd
      BY <1>4, <2>1
    <3>2. CASE Installed(d)
      <4>1. fd2http'[loopOf[d]][fdOf[d]] = d
        BY <1>1, <1>10, <2>1, <3>2 DEF Installed
      <4> QED BY <3>1, <4>1 DEF Held
    <3>3. CASE Waiting(loopOf[d], d)
      <4>1. Queued(d)'
        BY <1>1, <3>1, <3>3 DEF Queued, Waiting
      <4> QED BY <4>1 DEF Held
    <3> QED BY <2>1, <3>2, <3>3 DEF IInv, Places
  <2>2. CASE life[d] = "disconnected"
    BY <1>1, <2>2 DEF IInv, NothingLingers, Held
  <2> QED BY <2>1, <2>2 DEF Alive, Open
<1>12. /\ life \in [Conn -> Lives] /\ http \in [Conn -> HttpRec]
       /\ sock \in [Conn -> SockRec] /\ ep \in [Conn -> EpRec]
  BY DEF IInv, Types, Objects, Records
<1>13. lf[c] = "disconnected" /\ e[c] = NoEntry
       /\ \A d \in Conn \ {c} : lf[d] = life[d] /\ e[d] = ep[d]
  BY <1>12
<1> HIDE DEF lf, e, f
<1>14. \A d \in Conn \ {c} : life'[d] = life[d]
  BY <1>2, <1>11, <1>13
<1>15. /\ life'[c] \in {"disconnected", "closed"} /\ Alive(c)
       /\ life'[c] = "disconnected" => Held(c)'
  BY <1>1, <1>2, <1>13 DEF Alive, Open
<1>16. \A d \in Conn : Open(d)' <=> Open(d) /\ d # c
  BY <1>14, <1>15 DEF Open
<1>17. /\ http'[c] \in {NewHttp, http[c]} /\ sock'[c] \in {NewSock, sock[c]} /\ ep'[c] = NoEntry
       /\ \A d \in Conn \ {c} : \/ /\ life[d] = "closed" /\ http'[d] = NewHttp
                                   /\ sock'[d] = NewSock /\ ep'[d] = NoEntry
                                \/ /\ life[d] # "closed" /\ http'[d] = http[d]
                                   /\ sock'[d] = sock[d] /\ ep'[d] = ep[d]
  <2>1. \A d \in Conn : /\ http'[d] = IF life'[d] = "closed" THEN NewHttp ELSE http[d]
                        /\ sock'[d] = IF life'[d] = "closed" THEN NewSock ELSE sock[d]
                        /\ ep'[d] = IF life'[d] = "closed" THEN NoEntry ELSE e[d]
    BY <1>2
  <2>2. http'[c] \in {NewHttp, http[c]} /\ sock'[c] \in {NewSock, sock[c]} /\ ep'[c] = NoEntry
    BY <1>13, <2>1
  <2>3. ASSUME NEW d \in Conn \ {c}
        PROVE  \/ /\ life[d] = "closed" /\ http'[d] = NewHttp
                  /\ sock'[d] = NewSock /\ ep'[d] = NoEntry
               \/ /\ life[d] # "closed" /\ http'[d] = http[d]
                  /\ sock'[d] = sock[d] /\ ep'[d] = ep[d]
    <3>1. life'[d] = life[d] /\ e[d] = ep[d]
      BY <1>13, <1>14
    <3> QED BY <2>1, <3>1
  <2> QED BY <2>2, <2>3
<1>18. Types'
  <2>1. life' \in [Conn -> Lives]
    <3>1. \A d \in Conn : life'[d] \in Lives
      BY <1>12, <1>14, <1>15 DEF Lives
    <3> QED BY <1>2, <3>1
  <2>2. http' \in [Conn -> HttpRec] /\ sock' \in [Conn -> SockRec] /\ ep' \in [Conn -> EpRec]
    <3>1. \A d \in Conn : http'[d] \in HttpRec /\ sock'[d] \in SockRec /\ ep'[d] \in EpRec
      BY <1>12, <1>17, EmptyRecords
    <3>2. /\ http' = [d \in Conn |-> http'[d]] /\ sock' = [d \in Conn |-> sock'[d]]
          /\ ep' = [d \in Conn |-> ep'[d]]
      BY <1>2
    <3> QED BY <3>1, <3>2
  <2>3. Objects' /\ Records'
    BY <1>1, <1>8, <2>1, <2>2 DEF IInv, Types, Objects, Records
  <2> QED BY <1>1, <1>3, <1>7, <2>3 DEF IInv, Types, Maps, Functors, Turns, Bells
<1>19. Descriptors' /\ NothingLingers'
  <2>1. \A d \in Conn : Alive(d)' => Alive(d)
    BY <1>14, <1>15 DEF Alive
  <2>2. Descriptors'
    BY <1>1, <2>1 DEF IInv, Descriptors
  <2>3. life'[c] = "disconnected" => reqInfo' = c
    <3> SUFFICES ASSUME Held(c)' PROVE reqInfo' = c
      BY <1>15
    <3>1. ~Queued(c)'
      BY <1>1 DEF IInv, Queues, Queued, Waiting
    <3>2. \A m \in Loop, g \in Fd : fd2http'[m][g] # c
      BY <1>5, <1>6, <1>7
    <3> QED BY <1>9, <3>1, <3>2 DEF Held
  <2> QED BY <1>1, <1>14, <2>2, <2>3 DEF IInv, NothingLingers
<1>20. Tables'
  <2> SUFFICES ASSUME NEW m \in Loop, NEW g \in Fd
               PROVE  /\ fd2http'[m][g] # None => /\ life'[fd2http'[m][g]] = "open"
                                                  /\ fdOf[fd2http'[m][g]] = g
                                                  /\ loopOf[fd2http'[m][g]] = m
                      /\ fd2chan'[m][g] # None => fd2chan'[m][g] = fd2http'[m][g]
    BY <1>1 DEF Tables, Open
  <2>1. CASE m = l /\ g = f
    BY <2>1, <1>7
  <2>2. CASE m # l \/ g # f
    <3>1. /\ fd2http'[m][g] = fd2http[m][g] /\ fd2chan'[m][g] = fd2chan[m][g]
          /\ fd2http[m][g] # c /\ fd2http[m][g] \in Conn \cup {None}
      BY <2>2, <1>6, <1>7 DEF IInv, Types, Maps
    <3>2. fd2http[m][g] # None => life'[fd2http[m][g]] = "open"
      BY <3>1, <1>16 DEF IInv, Tables, Open
    <3> QED BY <3>1, <3>2 DEF IInv, Tables
  <2> QED BY <2>1, <2>2
<1>21. Entries'
  <2> SUFFICES ASSUME NEW d \in Conn, ep'[d].in PROVE Open(d)' /\ Registered(d)'
    BY DEF Entries
  <2>1. d # c /\ ep[d].in
    BY <1>5, <1>17
  <2> QED BY <2>1, <1>10, <1>16 DEF IInv, Entries
<1>22. Queues'
  <2>1. \A m \in Loop, d \in Conn : Waiting(m, d)' => Open(d)' /\ loopOf'[d] = m /\ ~Installed(d)'
    <3>1. \A m \in Loop, d \in Conn : Waiting(m, d)' => Waiting(m, d)
      BY <1>1 DEF Waiting
    <3>2. \A m \in Loop, d \in Conn : Waiting(m, d) => Open(d) /\ loopOf[d] = m /\ ~Installed(d)
      BY DEF IInv, Queues
    <3>3. \A d \in Conn : ~Installed(d) => d # c
      BY <1>1
    <3> QED BY <1>1, <1>10, <1>16, <3>1, <3>2, <3>3
  <2> QED BY <1>1, <2>1 DEF IInv, Queues
<1>23. Places'
  <2>1. \A d \in Conn : Waiting(loopOf[d], d)' <=> Waiting(loopOf[d], d)
    BY <1>1 DEF Waiting
  <2> QED BY <1>1, <1>10, <1>16, <2>1 DEF IInv, Places
<1>24. OneTimer'
  BY <1>5, <1>8 DEF IInv, OneTimer
<1>25. Timed'
  <2> SUFFICES ASSUME NEW d \in Conn, timer'[d].live > 0 PROVE Open(d)' /\ Installed(d)'
    BY DEF Timed
  <2>1. d # c /\ timer'[d] = timer[d]
    BY <1>5, <1>8
  <2> QED BY <2>1, <1>10, <1>16 DEF IInv, Timed
<1>26. Guarded'
  <2> SUFFICES ASSUME NEW d \in Conn, Open(d)', Installed(d)', cur'[loopOf[d]].c # d
               PROVE  timer'[d].live = 1 \/ http'[d].st = "DISCONNECTING"
    BY <1>1 DEF Guarded
  <2>1. d # c /\ Open(d) /\ Installed(d) /\ loopOf[d] \in Loop
    BY <1>4, <1>10, <1>16
  <2>2. cur[loopOf[d]].c # d
    BY <2>1, <1>3
  <2>3. timer'[d] = timer[d] /\ http'[d] = http[d]
    BY <2>1, <1>8, <1>17 DEF Open
  <2> QED BY <2>1, <2>2, <2>3 DEF IInv, Guarded
<1>27. States'
  <2>1. life'[c] # "fresh"
    BY <1>15
  <2>2. \A d \in Conn \ {c} : life[d] = "fresh" => http'[d] = http[d]
    BY <1>17
  <2> QED BY <1>14, <2>1, <2>2 DEF IInv, States
<1>28. Rounds'
  <2> SUFFICES ASSUME NEW m \in Loop
               PROVE  /\ \A a \in active[m] : Open(a.c)' /\ loopOf[a.c] = m /\ Registered(a.c)'
                      /\ \A a, b \in active[m] : a.c = b.c => a = b
                      /\ cur'[m].c # None => /\ Open(cur[m].c)' /\ loopOf[cur[m].c] = m
                                             /\ Registered(cur[m].c)' /\ cur'[m] = cur[m]
                                             /\ \A a \in active[m] : a.c # cur[m].c
                      /\ cur'[m].c = None => cur'[m] = NoCur
                      /\ cur'[m].c # None => cur'[m].phase # "none"
                      /\ pc[m] # "events" => active[m] = {} /\ cur'[m].c = None
    BY <1>1 DEF Rounds, Open, Registered
  <2>1. \A a \in active[m] : Open(a.c)' /\ loopOf[a.c] = m /\ Registered(a.c)'
    <3> SUFFICES ASSUME NEW a \in active[m], NEW d \in Conn, d = a.c
                 PROVE  Open(d)' /\ loopOf[d] = m /\ Registered(d)'
      BY <1>1 DEF IInv, Types, Turns, ActiveRec, Open, Registered
    <3>1. Open(d) /\ loopOf[d] = m /\ Registered(d) /\ d # c
      BY <1>3 DEF IInv, Rounds
    <3> QED BY <3>1, <1>10, <1>16
  <2>2. \A a, b \in active[m] : a.c = b.c => a = b
    BY DEF IInv, Rounds
  <2>3. CASE cur'[m] = NoCur
    BY <2>1, <2>2, <2>3, <1>5 DEF IInv, Rounds
  <2>4. CASE cur'[m] = cur[m] /\ cur[m].c # c
    <3>1. ASSUME NEW d \in Conn, d = cur[m].c
          PROVE  Open(d)' /\ loopOf[d] = m /\ Registered(d)'
      <4>1. Open(d) /\ loopOf[d] = m /\ Registered(d) /\ d # c
        BY <2>4, <3>1, NoneAssumption DEF IInv, Rounds
      <4> QED BY <4>1, <1>10, <1>16
    <3>2. cur[m].c # None => /\ Open(cur[m].c)' /\ loopOf[cur[m].c] = m /\ Registered(cur[m].c)'
      BY <1>1, <2>4, <3>1 DEF IInv, Types, Turns, CurRec, Open, Registered
    <3> QED BY <2>1, <2>2, <2>4, <3>2 DEF IInv, Rounds
  <2> QED BY <2>3, <2>4, <1>3
<1>29. \A d \in Conn \ {c} : Open(d) => http'[d] = http[d]
  BY <1>17 DEF Open
<1>30. IInv'
  BY <1>18, <1>19, <1>20, <1>21, <1>22, <1>23, <1>24, <1>25, <1>26, <1>27, <1>28 DEF IInv
<1> QED BY <1>14, <1>15, <1>29, <1>30

LEMMA CloseIsClosing ==
    ASSUME IInv, NEW l \in Loop, Close(l), NEW c \in Conn, c = cur[l].c
    PROVE  ClosingOf(l, c)
<1>1. cur[l].phase # "none"
  BY DEF Close, Handling
<1>2. c = cur[l].c
  OBVIOUS
<1>3. /\ Open(c) /\ loopOf[c] = l /\ Installed(c) /\ \A a \in active[l] : a.c # c
      /\ \A m \in Loop \ {l} : cur[m].c # c
  BY <1>1, <1>2, Handled
<1>4. SeperateTimer(timer[c]) = NoTimer
  BY Values, TimerOps
<1>5. /\ timer' = [timer EXCEPT ![c] = NoTimer] /\ HandleClose(l, c)
      /\ cur' = [cur EXCEPT ![l] = NoCur]
      /\ UNCHANGED <<fdOf, loopOf, queue, batch, bell, next, reqInfo, pc, active>>
  BY <1>2, <1>4 DEF Close, Handling, main
<1>6. \A m \in Loop : \A a \in active[m] : a.c # c
  BY <1>3 DEF IInv, Rounds
<1>7. /\ cur' \in [Loop -> CurRec] /\ cur'[l] = NoCur /\ \A m \in Loop \ {l} : cur'[m] = cur[m]
  BY <1>5, EmptyRecords DEF IInv, Types, Turns
<1>8. \A m \in Loop : \/ cur'[m] = cur[m] /\ cur[m].c # c
                      \/ cur'[m] = NoCur /\ cur[m].c = c
  BY <1>2, <1>3, <1>7
<1> QED BY <1>3, <1>5, <1>6, <1>7, <1>8 DEF ClosingOf

LEMMA Closes == ASSUME IInv, NEW l \in Loop, Close(l) PROVE IInv'
<1>1. cur[l].phase # "none"
  BY DEF Close, Handling
<1>2. PICK c \in Conn : c = cur[l].c
  BY <1>1, Handled
<1> QED BY <1>2, CloseIsClosing, ClosingStep

LEMMA ExpiredIsClosing ==
    ASSUME IInv, NEW l \in Loop, HandleExpired(l)
    PROVE  \E c \in Conn : ClosingOf(l, c) /\ timer[c].due
<1>1. /\ pc[l] = "expired"
      /\ UNCHANGED <<fdOf, loopOf, queue, batch, bell, next, reqInfo, pc, active, cur>>
  BY DEF HandleExpired, main
<1> DEFINE t(c) == [live |-> timer[c].live - 1, linked |-> FALSE, due |-> FALSE]
<1>2. PICK c \in Expired(l) : timer' = [timer EXCEPT ![c] = t(c)] /\ HandleClose(l, c)
  BY DEF HandleExpired
<1>3. c \in Conn /\ Open(c) /\ loopOf[c] = l /\ timer[c].due
  BY DEF Expired, Open
<1>4. timer[c].live = 1
  BY <1>3, Values
<1>5. t(c) = NoTimer
  BY <1>4 DEF NoTimer
<1>6. Installed(c)
  BY <1>3, <1>4 DEF IInv, Timed
<1>7. \A m \in Loop : (\A a \in active[m] : a.c # c) /\ cur[m].c # c
  BY <1>1, <1>3, NoneAssumption DEF IInv, Rounds
<1>8. ClosingOf(l, c)
  BY <1>1, <1>2, <1>3, <1>5, <1>6, <1>7 DEF ClosingOf, IInv, Types, Turns
<1> QED BY <1>3, <1>8

LEMMA Expires == ASSUME IInv, NEW l \in Loop, HandleExpired(l) PROVE IInv'
BY ExpiredIsClosing, ClosingStep

-------------------------------------------------------------------------------
(* The end of req_info destructs what only req_info has held.              *)

LEMMA LetGoOf ==
    ASSUME IInv, LetGo
    PROVE  /\ UNCHANGED <<fdOf, loopOf, timer, fd2chan, fd2http, queue, batch, bell, next, pc,
                          active, cur>>
           /\ \A d \in Conn : life'[d] = IF life[d] = "disconnected" THEN "closed" ELSE life[d]
           /\ \A d \in Conn : \/ /\ life'[d] = "closed" /\ http'[d] = NewHttp
                                 /\ sock'[d] = NewSock /\ ep'[d] = NoEntry
                              \/ /\ life'[d] = life[d] /\ http'[d] = http[d]
                                 /\ sock'[d] = sock[d] /\ ep'[d] = ep[d]
<1>1. /\ UNCHANGED <<fdOf, loopOf, timer, fd2chan, fd2http, queue, batch, bell, next, pc, active,
                     cur>>
      /\ reqInfo' = None
  BY DEF LetGo, tables, loops
<1>2. /\ life' = [d \in Conn |-> IF Alive(d) /\ ~Held(d)' THEN "closed" ELSE life[d]]
      /\ http' = [d \in Conn |-> IF life'[d] = "closed" THEN NewHttp ELSE http[d]]
      /\ sock' = [d \in Conn |-> IF life'[d] = "closed" THEN NewSock ELSE sock[d]]
      /\ ep' = [d \in Conn |-> IF life'[d] = "closed" THEN NoEntry ELSE ep[d]]
  BY DEF LetGo, Destruct
<1>3. ASSUME NEW d \in Conn, Open(d) PROVE Held(d)'
  <2>1. loopOf[d] \in Loop /\ fdOf[d] \in Fd
    BY <1>3 DEF IInv, Descriptors, Alive, Open, Types, Objects
  <2>2. Installed(d) \/ Waiting(loopOf[d], d)
    BY <1>3 DEF IInv, Places
  <2> QED BY <1>1, <2>1, <2>2 DEF Held, Queued, Installed, Waiting
<1>4. ASSUME NEW d \in Conn, life[d] = "disconnected" PROVE ~Held(d)'
  <2>1. d # None
    BY NoneAssumption
  <2>2. ~Queued(d)' /\ ~(timer'[d].live > 0) /\ \A m \in Loop, g \in Fd : fd2http'[m][g] # d
    BY <1>1, <1>4, GivenUp DEF Queued
  <2> QED BY <1>1, <2>1, <2>2 DEF Held
<1>5. \A d \in Conn : life'[d] = IF life[d] = "disconnected" THEN "closed" ELSE life[d]
  BY <1>2, <1>3, <1>4 DEF Alive, Open
<1>6. \A d \in Conn : \/ /\ life'[d] = "closed" /\ http'[d] = NewHttp
                        /\ sock'[d] = NewSock /\ ep'[d] = NoEntry
                     \/ /\ life'[d] = life[d] /\ http'[d] = http[d]
                        /\ sock'[d] = sock[d] /\ ep'[d] = ep[d]
  BY <1>2, <1>5
<1> QED BY <1>1, <1>5, <1>6

LEMMA LetsGo == ASSUME IInv, LetGo PROVE IInv'
<1>1. /\ UNCHANGED <<fdOf, loopOf, timer, fd2chan, fd2http, queue, batch, bell, next, pc, active,
                     cur>>
      /\ \A d \in Conn : life'[d] = IF life[d] = "disconnected" THEN "closed" ELSE life[d]
      /\ \A d \in Conn : \/ /\ life'[d] = "closed" /\ http'[d] = NewHttp
                            /\ sock'[d] = NewSock /\ ep'[d] = NoEntry
                         \/ /\ life'[d] = life[d] /\ http'[d] = http[d]
                            /\ sock'[d] = sock[d] /\ ep'[d] = ep[d]
  BY LetGoOf
<1>2. reqInfo' = None
  BY DEF LetGo
<1>3. \A d \in Conn : (Open(d)' <=> Open(d)) /\ (Alive(d)' => Alive(d))
                     /\ (Open(d) => http'[d] = http[d] /\ ep'[d] = ep[d])
  BY <1>1 DEF Open, Alive
<1>4. Types'
  <2>1. \A d \in Conn : life'[d] \in Lives /\ http'[d] \in HttpRec /\ sock'[d] \in SockRec
                       /\ ep'[d] \in EpRec
    BY <1>1, EmptyRecords DEF IInv, Types, Objects, Records, Lives
  <2>2. /\ life' = [d \in Conn |-> life'[d]] /\ http' = [d \in Conn |-> http'[d]]
        /\ sock' = [d \in Conn |-> sock'[d]] /\ ep' = [d \in Conn |-> ep'[d]]
    BY DEF LetGo, Destruct
  <2>3. /\ life' \in [Conn -> Lives] /\ http' \in [Conn -> HttpRec]
        /\ sock' \in [Conn -> SockRec] /\ ep' \in [Conn -> EpRec]
    BY <2>1, <2>2
  <2>4. Objects' /\ Records'
    BY <1>1, <1>2, <2>3 DEF IInv, Types, Objects, Records
  <2> QED BY <1>1, <2>4 DEF IInv, Types, Maps, Functors, Turns, Bells
<1>5. Descriptors' /\ NothingLingers'
  <2>1. Descriptors'
    BY <1>1, <1>3 DEF IInv, Descriptors
  <2>2. \A d \in Conn : life'[d] # "disconnected"
    BY <1>1
  <2> QED BY <2>1, <2>2 DEF NothingLingers
<1>6. Tables'
  <2>1. \A m \in Loop, g \in Fd : fd2http[m][g] \in Conn \cup {None}
    BY DEF IInv, Types, Maps
  <2> QED BY <1>1, <1>3, <2>1 DEF IInv, Tables
<1>7. Entries'
  <2>1. ~NoEntry.in
    BY DEF NoEntry
  <2>2. \A d \in Conn : ep'[d].in => ep[d].in
    BY <1>1, <2>1
  <2> QED BY <1>1, <1>3, <2>2 DEF IInv, Entries, Registered
<1>8. Queues' /\ Places'
  BY <1>1, <1>3 DEF IInv, Queues, Places, Installed, Waiting
<1>9. OneTimer' /\ Timed'
  BY <1>1, <1>3 DEF IInv, OneTimer, Timed, Installed
<1>10. Guarded'
  BY <1>1, <1>3 DEF IInv, Guarded, Installed
<1>11. States'
  BY <1>1 DEF IInv, States
<1>12. Rounds'
  <2>1. \A m \in Loop : \A a \in active[m] : a.c \in Conn
    BY DEF IInv, Types, Turns, ActiveRec
  <2>2. \A m \in Loop : cur[m].c # None => cur[m].c \in Conn
    BY DEF IInv, Types, Turns, CurRec
  <2> QED BY <1>1, <1>3, <2>1, <2>2 DEF IInv, Rounds, Registered
<1> QED BY <1>4, <1>5, <1>6, <1>7, <1>8, <1>9, <1>10, <1>11, <1>12 DEF IInv

-------------------------------------------------------------------------------
LEMMA Stutters == ASSUME IInv, UNCHANGED vars PROVE IInv'
<1> USE DEF vars, loops, tables, main
<1>1. Types'
  BY DEF IInv, Types, Objects, Records, Maps, Functors, Turns, Bells
<1>2. Descriptors' /\ Tables' /\ Entries'
  BY DEF IInv, Descriptors, Tables, Entries, Alive, Open, Registered
<1>3. Queues' /\ Places'
  BY DEF IInv, Queues, Places, Open, Installed, Waiting
<1>4. OneTimer' /\ Timed' /\ Guarded' /\ States' /\ NothingLingers'
  BY DEF IInv, OneTimer, Timed, Guarded, States, NothingLingers, Open, Installed
<1>5. Rounds'
  BY DEF IInv, Rounds, Open, Registered
<1> QED BY <1>1, <1>2, <1>3, <1>4, <1>5 DEF IInv

LEMMA Inductive == IInv /\ [Next]_vars => IInv'
<1> SUFFICES ASSUME IInv, [Next]_vars PROVE IInv'
  OBVIOUS
<1>1. ASSUME NEW c \in Conn, Accept(c) \/ Peer(c) \/ Lapse(c) PROVE IInv'
  BY <1>1, Accepts, Peers, Lapses
<1>2. ASSUME NEW l \in Loop, LoopStep(l) PROVE IInv'
  BY <1>2, Polls, HandlesEvents, HandlesReads, Replies, Writes, Rearms, Lingering, Closes, Swaps,
     NewEvents, BatchesDone, Expires, ExpiredAreDone DEF LoopStep
<1> QED BY <1>1, <1>2, LetsGo, Stutters DEF Next

LEMMA Invariant == Spec => []IInv
BY Initially, Inductive, PTL DEF Spec

(***************************************************************************)
(* Every variable keeps its type.                                          *)
(***************************************************************************)
THEOREM TypeCorrect == Spec => []TypeOK
<1>1. IInv => TypeOK
  BY TypeParts DEF IInv
<1> QED BY <1>1, Invariant, PTL

(***************************************************************************)
(* seperateTimer before addTimer on every path: no connection ever has a   *)
(* second timer node that could close it while it is in use.               *)
(***************************************************************************)
THEOREM TimersSingle == Spec => []OneTimer
<1>1. IInv => OneTimer
  BY DEF IInv
<1> QED BY <1>1, Invariant, PTL

(***************************************************************************)
(* A loop never takes the connection of another, or a closed one, for the  *)
(* owner of a descriptor that close and accept have made use of again.     *)
(***************************************************************************)
THEOREM TablesCorrect == Spec => []TablesAgree
<1>1. IInv => TablesAgree
  <2> SUFFICES ASSUME IInv PROVE TablesAgree
    OBVIOUS
  <2>1. ASSUME NEW l \in Loop, NEW f \in Fd, NEW c \in {fd2chan[l][f], fd2http[l][f]} \ {None}
        PROVE  Open(c) /\ fdOf[c] = f /\ loopOf[c] = l
    BY <2>1 DEF IInv, Tables
  <2>2. \A c \in Conn : ep[c].in => fd2chan[loopOf[c]][fdOf[c]] = c
    BY DEF IInv, Entries, Registered
  <2>3. \A c, d \in Conn : Alive(c) /\ Alive(d) /\ fdOf[c] = fdOf[d] => c = d
    BY DEF IInv, Descriptors
  <2> QED BY <2>1, <2>2, <2>3 DEF TablesAgree
<1> QED BY <1>1, Invariant, PTL

(***************************************************************************)
(* handleClose lets go of the last reference of its loop: what it gives up *)
(* is closed in the same step, unless the main thread has still to leave   *)
(* the handNewConn that made it.                                           *)
(***************************************************************************)
THEOREM ClosedUnlessHeld == Spec => []NothingLingers
<1>1. IInv => NothingLingers
  BY DEF IInv
<1> QED BY <1>1, Invariant, PTL

(***************************************************************************)
(* No handler of a round runs on a connection that an earlier step of the  *)
(* loop, or of another one, has destructed.                                *)
(***************************************************************************)
THEOREM HandlersRunOnLiving == Spec => []HandlersAlive
<1>1. IInv => HandlersAlive
  <2> SUFFICES ASSUME IInv PROVE HandlersAlive
    OBVIOUS
  <2>1. \A l \in Loop : cur[l] # NoCur => Open(cur[l].c) /\ loopOf[cur[l].c] = l
    BY DEF IInv, Rounds
  <2>2. \A l \in Loop : \A a \in active[l] : Open(a.c) /\ loopOf[a.c] = l
    BY DEF IInv, Rounds
  <2> QED BY <2>1, <2>2 DEF HandlersAlive
<1> QED BY <1>1, Invariant, PTL

(***************************************************************************)
(* Every open connection is waiting, being handled, timed, or stranded by  *)
(* the branch of handleConn that lingers.                                  *)
(***************************************************************************)
THEOREM AllWatched == Spec => []Watched
<1>1. IInv => Watched
  <2> SUFFICES ASSUME IInv, NEW c \in Conn, Open(c), ~Queued(c), ~Busy(c)
               PROVE  timer[c].live = 1 \/ Stranded(c)
    BY DEF Watched
  <2>1. loopOf[c] \in Loop
    BY DEF IInv, Types, Objects
  <2>2. ~Waiting(loopOf[c], c)
    BY <2>1 DEF Queued, Waiting
  <2>3. cur[loopOf[c]].c # c
    BY <2>1 DEF Busy
  <2>4. timer[c].live = 1 \/ http[c].st = "DISCONNECTING"
    BY <2>2, <2>3 DEF IInv, Places, Guarded
  <2> QED BY <2>4 DEF Stranded
<1> QED BY <1>1, Invariant, PTL

-------------------------------------------------------------------------------
(* No response is cut short.  When handleConn decides, what is still to be *)
(* sent has asked for room: every way to it passes a write, for an event   *)
(* is never empty, and without input or room it is ignored.                *)

Heard(h) == h.out => h.error \/ "OUT" \in h.events

Answered == \A l \in Loop : cur[l].phase = "conn" => Heard(http[cur[l].c])
Reported == \A l \in Loop : \A a \in active[l] : a.rev # {}

LEMMA WrittenIsHeard ==
    ASSUME NEW h \in HttpRec, NEW s, NEW w \in Written(h, s)
    PROVE  /\ Heard(w.http)
           /\ Heard([w.http EXCEPT !.events = @ \cup {"IN"}])
<1> DEFINE failed == [[h EXCEPT !.error = TRUE] EXCEPT !.events = {"OUT"}]
           full == [h EXCEPT !.events = @ \cup {"OUT"}]
           sent == [h EXCEPT !.out = FALSE]
           more(g) == [g EXCEPT !.events = @ \cup {"IN"}]
<1>1. \/ w.http = h /\ (h.error \/ ~h.out)
      \/ w.http \in {failed, full, sent}
  BY DEF Written
<1>2. Heard(failed) /\ Heard(more(failed))
  BY DEF Heard, HttpRec
<1>3. Heard(full) /\ Heard(more(full))
  BY DEF Heard, HttpRec
<1>4. Heard(sent) /\ Heard(more(sent))
  BY DEF Heard, HttpRec
<1>5. h.error \/ ~h.out => Heard(h) /\ Heard(more(h))
  BY DEF Heard, HttpRec
<1> HIDE DEF failed, full, sent
<1> QED BY <1>1, <1>2, <1>3, <1>4, <1>5

\* A step that neither moves a loop to handleConn nor changes what one is about to do.
LEMMA StaysAnswered ==
    ASSUME IInv, Answered,
           \A m \in Loop : \/ cur'[m].phase # "conn"
                           \/ cur'[m] = cur[m] /\ http'[cur[m].c] = http[cur[m].c]
    PROVE  Answered'
BY DEF Answered

\* A step of a handler of l.
LEMMA TurnAnswered ==
    ASSUME IInv, Answered, NEW l \in Loop, NEW c \in Conn, c = cur[l].c, cur[l].phase # "none",
           NEW h, http' = [http EXCEPT ![c] = h],
           NEW k, cur' = [cur EXCEPT ![l] = k],
           k.phase = "conn" => k.c = c /\ Heard(h)
    PROVE  Answered'
<1> SUFFICES ASSUME NEW m \in Loop, cur'[m].phase = "conn" PROVE Heard(http'[cur'[m].c])
  BY DEF Answered
<1>1. http \in [Conn -> HttpRec] /\ cur \in [Loop -> CurRec]
  BY DEF IInv, Types, Records, Turns
<1>2. CASE m = l
  BY <1>1, <1>2
<1>3. CASE m # l
  <2>1. cur'[m] = cur[m]
    BY <1>1, <1>3
  <2>2. cur[m].c \in Conn /\ cur[m].c # c
    BY <1>3, <2>1, Handled
  <2>3. http'[cur[m].c] = http[cur[m].c]
    BY <1>1, <2>2
  <2> QED BY <2>1, <2>3 DEF Answered
<1> QED BY <1>2, <1>3

LEMMA ReadIsHeard ==
    ASSUME NEW h \in HttpRec, NEW s, NEW r \in ReadResults(h, s), r.phase \in {"failed", "conn"}
    PROVE  Heard(r.http)
<1> DEFINE d == [h EXCEPT !.st = "DISCONNECTING"]
<1>1. d \in HttpRec
  <2>1. {} \in SUBSET Flags
    OBVIOUS
  <2> QED BY <2>1, HttpUpdates
<1>2. r \in Parsed(h) \/ r \in Parsed(d)
  BY DEF ReadResults, Parsed
<1> HIDE DEF d
<1>3. \A g \in HttpRec : r \in Parsed(g) => r.http = [g EXCEPT !.error = TRUE]
  <2> SUFFICES ASSUME NEW g \in HttpRec, r \in Parsed(g) PROVE r.http = [g EXCEPT !.error = TRUE]
    OBVIOUS
  <2> DEFINE e == [g EXCEPT !.error = TRUE]
             o == [g EXCEPT !.out = TRUE]
  <2>1. \/ r = [http |-> e, phase |-> "failed"] \/ r = [http |-> g, phase |-> "again"]
        \/ r = [http |-> o, phase |-> "ok"] \/ r = [http |-> o, phase |-> "more"]
    BY DEF Parsed, Error, Again, Done
  <2> HIDE DEF e, o
  <2>2. r.http = e
    BY <2>1
  <2> QED BY <2>2 DEF e
<1>4. \A g \in HttpRec : Heard([g EXCEPT !.error = TRUE])
  BY DEF Heard, HttpRec
<1> QED BY <1>1, <1>2, <1>3, <1>4

LEMMA ReadsAnswered == ASSUME IInv, Answered, NEW l \in Loop, HandleRead(l) PROVE Answered'
<1>1. cur[l].phase # "none"
  BY DEF HandleRead, Handling
<1>2. PICK c \in Conn : c = cur[l].c
  BY <1>1, Handled
<1> DEFINE p(r) == IF r.phase = "failed" THEN AfterRead(cur[l].rev) ELSE r.phase
           k(r) == [cur[l] EXCEPT !.phase = p(r)]
<1>3. PICK r \in ReadResults(http[c], sock[c]) : /\ http' = [http EXCEPT ![c] = r.http]
                                                 /\ cur' = [cur EXCEPT ![l] = k(r)]
  BY <1>2 DEF HandleRead
<1>4. p(r) = "conn" => Heard(r.http)
  BY Values, ReadIsHeard
<1> HIDE DEF p
<1>5. k(r).c = c /\ k(r).phase = p(r)
  BY <1>2 DEF IInv, Types, Turns, CurRec
<1> HIDE DEF k
<1> QED BY <1>1, <1>2, <1>3, <1>4, <1>5, TurnAnswered

LEMMA RepliesAnswered ==
    ASSUME IInv, Answered, NEW l \in Loop, NEW phase \in {"again", "ok", "more"}, Reply(l, phase)
    PROVE  Answered'
<1>1. cur[l].phase # "none"
  BY DEF Reply, Handling
<1>2. PICK c \in Conn : c = cur[l].c
  BY <1>1, Handled
<1> DEFINE done == phase \in {"ok", "more"}
           H(w) == IF ~w.http.error /\ ~done
                   THEN [w.http EXCEPT !.events = @ \cup {"IN"}] ELSE w.http
           P(w) == IF ~w.http.error /\ phase = "more" /\ w.http.st # "DISCONNECTING" THEN "read"
                   ELSE AfterRead(cur[l].rev)
           K(w) == [cur[l] EXCEPT !.phase = P(w)]
<1>3. PICK w \in Written(http[c], sock[c]) : /\ http' = [http EXCEPT ![c] = H(w)]
                                             /\ cur' = [cur EXCEPT ![l] = K(w)]
  BY <1>2 DEF Reply
<1>4. Heard(H(w))
  BY Values, WrittenIsHeard
<1> HIDE DEF P, H
<1>5. K(w).c = c
  BY <1>2 DEF IInv, Types, Turns, CurRec
<1> HIDE DEF K
<1> QED BY <1>1, <1>2, <1>3, <1>4, <1>5, TurnAnswered

LEMMA WritesAnswered == ASSUME IInv, Answered, NEW l \in Loop, HandleWrite(l) PROVE Answered'
<1>1. cur[l].phase # "none"
  BY DEF HandleWrite, Handling
<1>2. PICK c \in Conn : c = cur[l].c
  BY <1>1, Handled
<1> DEFINE k == [cur[l] EXCEPT !.phase = "conn"]
<1>3. PICK w \in Written(http[c], sock[c]) : http' = [http EXCEPT ![c] = w.http]
  BY <1>2 DEF HandleWrite
<1>4. Heard(w.http)
  BY Values, WrittenIsHeard
<1>5. cur' = [cur EXCEPT ![l] = k] /\ k.c = c
  BY <1>2 DEF HandleWrite, IInv, Types, Turns, CurRec
<1> HIDE DEF k
<1> QED BY <1>1, <1>2, <1>3, <1>4, <1>5, TurnAnswered

\* The ends of an event: the loop handles nothing any more.
LEMMA EndsAnswered ==
    ASSUME IInv, Answered, NEW l \in Loop, Rearm(l) \/ Linger(l) PROVE Answered'
<1>1. cur[l].phase # "none"
  BY DEF Rearm, Linger, Handling
<1>2. PICK c \in Conn : c = cur[l].c
  BY <1>1, Handled
<1>3. NoCur.phase # "conn" /\ cur' = [cur EXCEPT ![l] = NoCur]
  BY DEF NoCur, Rearm, Linger
<1>4. \E h : http' = [http EXCEPT ![c] = h]
  BY <1>2 DEF Rearm, Linger, ModFd
<1> QED BY <1>1, <1>2, <1>3, <1>4, TurnAnswered

LEMMA ClosingAnswered ==
    ASSUME IInv, Answered, NEW l \in Loop, NEW c \in Conn, ClosingOf(l, c) PROVE Answered'
<1> SUFFICES ASSUME NEW m \in Loop, cur'[m].phase = "conn"
             PROVE  cur'[m] = cur[m] /\ http'[cur[m].c] = http[cur[m].c]
  BY StaysAnswered
<1>1. NoCur.phase # "conn"
  BY DEF NoCur
<1>2. cur'[m] = cur[m] /\ cur[m].c # c
  BY <1>1 DEF ClosingOf
<1>3. cur[m].c \in Conn /\ Open(cur[m].c)
  BY <1>2, Handled
<1> QED BY <1>2, <1>3, ClosingStep

LEMMA EventsAnswered ==
    ASSUME IInv, Answered, Reported, NEW l \in Loop, HandleEvents(l) PROVE Answered' /\ Reported'
<1> DEFINE p(a) == IF "IN" \in a.rev THEN "read" ELSE AfterRead(a.rev)
           k(a) == IF Ignored(a.rev) THEN NoCur ELSE [c |-> a.c, rev |-> a.rev, phase |-> p(a)]
           h(a) == [http[a.c] EXCEPT !.events = {}]
<1>1. cur[l] = NoCur
  BY DEF HandleEvents
<1>2. PICK a \in active[l] : /\ active' = [active EXCEPT ![l] = active[l] \ {a}]
                             /\ http' = [http EXCEPT ![a.c] = h(a)]
                             /\ cur' = [cur EXCEPT ![l] = k(a)]
  BY DEF HandleEvents
<1>3. a.c \in Conn /\ loopOf[a.c] = l /\ a.rev \in SUBSET Revents /\ a.rev # {}
  BY DEF IInv, Types, Turns, ActiveRec, Rounds, Reported
<1>4. k(a).phase # "conn"
  <2>1. CASE Ignored(a.rev)
    BY <2>1 DEF NoCur
  <2>2. CASE ~Ignored(a.rev)
    <3>1. "IN" \in a.rev \/ "OUT" \in a.rev
      BY <2>2, <1>3 DEF Ignored, Revents
    <3> QED BY <2>2, <3>1 DEF AfterRead
  <2> QED BY <2>1, <2>2
<1> HIDE DEF k, h
<1>5. http \in [Conn -> HttpRec] /\ cur \in [Loop -> CurRec] /\ active \in [Loop -> SUBSET ActiveRec]
  BY DEF IInv, Types, Records, Turns
<1>6. Answered'
  <2> SUFFICES ASSUME NEW m \in Loop, cur'[m].phase = "conn"
               PROVE  cur'[m] = cur[m] /\ http'[cur[m].c] = http[cur[m].c]
    BY StaysAnswered
  <2>1. m # l /\ cur'[m] = cur[m]
    BY <1>2, <1>4, <1>5
  <2>2. cur[m].c \in Conn /\ cur[m].c # a.c
    BY <2>1, <1>3, Handled
  <2> QED BY <2>1, <2>2, <1>2, <1>5
<1>7. Reported'
  BY <1>2, <1>5 DEF Reported
<1> QED BY <1>6, <1>7

LEMMA PollsAnswered ==
    ASSUME IInv, Answered, Reported, NEW l \in Loop, Poll(l) PROVE Answered' /\ Reported'
<1>1. cur' = cur /\ http' = [c \in Conn |-> IF \E a \in active'[l] : a.c = c
                                           THEN [http[c] EXCEPT !.events = {}] ELSE http[c]]
  BY DEF Poll
<1>2. Rounds'
  BY Polls DEF IInv
<1>3. ASSUME NEW m \in Loop, cur'[m].phase = "conn"
      PROVE  cur'[m] = cur[m] /\ http'[cur[m].c] = http[cur[m].c]
  <2>1. cur[m].phase # "none" /\ loopOf' = loopOf
    BY <1>1, <1>3 DEF Poll
  <2>2. cur[m].c \in Conn
    BY <2>1, Handled
  <2>3. \A a \in active'[l] : a.c # cur[m].c
    BY <1>1, <1>2, <2>1, <2>2, Handled, NoneAssumption DEF Rounds
  <2> QED BY <1>1, <2>2, <2>3
<1>4. Reported'
  <2> DEFINE found == {c \in {d \in Conn : life[d] = "open" /\ loopOf[d] = l /\ Reportable(d)} :
                          fd2chan[l][fdOf[c]] # None}
             rev(c) == ReadyFor(sock[c], ep[c].mask)
             event(c) == [c |-> fd2chan[l][fdOf[c]], rev |-> rev(c)]
  <2>1. active' = [active EXCEPT ![l] = {event(c) : c \in found}]
    BY DEF Poll
  <2>2. \A c \in found : event(c).rev # {}
    BY DEF Reportable
  <2> HIDE DEF found, event
  <2>3. \A m \in Loop : \A a \in active'[m] : a \in active[m] \/ \E c \in found : a = event(c)
    BY <2>1 DEF IInv, Types, Turns
  <2> QED BY <2>2, <2>3 DEF Reported
<1> QED BY <1>3, <1>4, StaysAnswered

LEMMA NewEventsAnswered == ASSUME IInv, Answered, NEW l \in Loop, NewEvent(l) PROVE Answered'
<1>1. batch[l] # <<>> /\ batch[l] \in Seq(Conn) /\ cur' = cur
  BY DEF NewEvent, IInv, Types, Functors
<1>2. PICK c \in Conn : c = Head(batch[l])
  BY <1>1, SplitHead
<1>3. Range(batch[l]) = {c} \cup Range(Tail(batch[l]))
  BY <1>1, <1>2, SplitHead
<1>4. Waiting(l, c)
  BY <1>3 DEF Waiting
<1>5. ~Installed(c)
  BY <1>4 DEF IInv, Queues
<1>6. PICK h : http' = [http EXCEPT ![c] = h]
  BY <1>2 DEF NewEvent
<1> SUFFICES ASSUME NEW m \in Loop, cur'[m].phase = "conn"
             PROVE  cur'[m] = cur[m] /\ http'[cur[m].c] = http[cur[m].c]
  BY StaysAnswered
<1>7. cur[m].c \in Conn /\ cur[m].c # c
  BY <1>1, <1>5, Handled
<1> QED BY <1>1, <1>6, <1>7 DEF IInv, Types, Records

HInv == IInv /\ Answered /\ Reported

LEMMA HeardInductive == HInv /\ [Next]_vars => HInv'
<1> SUFFICES ASSUME HInv, [Next]_vars PROVE HInv'
  OBVIOUS
<1>1. IInv' /\ IInv
  BY Inductive DEF HInv
<1>2. ASSUME NEW c \in Conn, Accept(c) \/ Peer(c) \/ Lapse(c) PROVE Answered' /\ Reported'
  <2>1. cur' = cur /\ http' = http /\ active' = active
    BY <1>2 DEF Accept, Peer, Send, Shut, Reset, Drain, PeerStep, Lapse, loops
  <2> QED BY <2>1 DEF HInv, Answered, Reported
<1>3. ASSUME NEW l \in Loop, LoopStep(l) PROVE Answered' /\ Reported'
  <2>1. CASE Poll(l) \/ HandleEvents(l)
    BY <2>1, PollsAnswered, EventsAnswered DEF HInv
  <2>2. CASE Swap(l) \/ BatchDone(l) \/ ExpiredDone(l)
    <3>1. cur' = cur /\ http' = http /\ active' = active
      BY <2>2 DEF Swap, BatchDone, ExpiredDone
    <3> QED BY <3>1 DEF HInv, Answered, Reported
  <2>3. CASE ~(Poll(l) \/ HandleEvents(l) \/ Swap(l) \/ BatchDone(l) \/ ExpiredDone(l))
    <3>1. active' = active
      BY <1>3, <2>3 DEF LoopStep, HandleRead, Reply, HandleWrite, Rearm, Linger, Close, NewEvent,
                         HandleExpired, Handling
    <3>2. Reported'
      BY <3>1 DEF HInv, Reported
    <3>3. CASE Close(l)
      <4>1. cur[l].phase # "none"
        BY <3>3 DEF Close, Handling
      <4>2. PICK c \in Conn : c = cur[l].c
        BY <1>1, <4>1, Handled
      <4> QED BY <3>2, <3>3, <4>2, CloseIsClosing, ClosingAnswered DEF HInv
    <3>4. CASE HandleExpired(l)
      BY <3>2, <3>4, ExpiredIsClosing, ClosingAnswered DEF HInv
    <3>5. CASE ~Close(l) /\ ~HandleExpired(l)
      <4>1. \/ HandleRead(l) \/ HandleWrite(l) \/ Rearm(l) \/ Linger(l) \/ NewEvent(l)
            \/ \E phase \in {"again", "ok", "more"} : Reply(l, phase)
        BY <1>3, <2>3, <3>5 DEF LoopStep
      <4> QED BY <3>2, <4>1, ReadsAnswered, WritesAnswered, EndsAnswered, NewEventsAnswered,
                 RepliesAnswered DEF HInv
    <3> QED BY <3>3, <3>4, <3>5
  <2> QED BY <2>1, <2>2, <2>3
<1>4. ASSUME LetGo PROVE Answered' /\ Reported'
  <2>1. cur' = cur /\ active' = active /\ \A d \in Conn : Open(d) => http'[d] = http[d]
    BY <1>1, <1>4, LetGoOf DEF Open
  <2>2. \A l \in Loop : cur[l].phase = "conn" => http'[cur[l].c] = http[cur[l].c]
    BY <1>1, <2>1, Handled
  <2> QED BY <2>1, <2>2 DEF HInv, Answered, Reported
<1>5. ASSUME UNCHANGED vars PROVE Answered' /\ Reported'
  BY <1>5 DEF vars, loops, HInv, Answered, Reported
<1>6. Answered' /\ Reported'
  BY <1>2, <1>3, <1>4, <1>5 DEF Next
<1> QED BY <1>1, <1>6 DEF HInv

LEMMA HeardInvariant == Spec => []HInv
<1>1. Init => HInv
  <2>1. Init => Answered /\ Reported
    BY DEF Init, Answered, Reported, NoCur
  <2> QED BY <2>1, Initially DEF HInv
<1> QED BY <1>1, HeardInductive, PTL DEF Spec

\* The steps that close a connection.
LEMMA CutsNothing ==
    ASSUME HInv, [Next]_vars, NEW c \in Conn, Open(c), ~Open(c)', http[c].out
    PROVE  http[c].error \/ timer[c].due
<1>1. ASSUME NEW d \in Conn, Accept(d) \/ Peer(d) \/ Lapse(d) PROVE FALSE
  <2>1. life' = life \/ life' = [life EXCEPT ![d] = "open"]
    BY <1>1 DEF Accept, Peer, Send, Shut, Reset, Drain, PeerStep, Lapse
  <2> QED BY <2>1 DEF Open, HInv, IInv, Types, Objects
<1>2. ASSUME NEW l \in Loop, Close(l) PROVE http[c].error
  <2>1. cur[l].phase = "conn" /\ ~GoesOn(http[cur[l].c]) /\ ~Lingers(http[cur[l].c])
    BY <1>2 DEF Close, Handling
  <2>2. PICK d \in Conn : d = cur[l].c
    BY <2>1, Handled DEF HInv
  <2>3. d = c
    BY <1>2, <2>2, CloseIsClosing, ClosingStep DEF HInv, Open
  <2>4. http[c] \in HttpRec /\ Heard(http[c])
    BY <2>1, <2>2, <2>3, Values DEF HInv, Answered
  <2> QED BY <2>1, <2>2, <2>3, <2>4 DEF GoesOn, Lingers, Heard, HttpRec
<1>3. ASSUME NEW l \in Loop, HandleExpired(l) PROVE timer[c].due
  <2>1. PICK d \in Conn : ClosingOf(l, d) /\ timer[d].due
    BY <1>3, ExpiredIsClosing DEF HInv
  <2>2. d = c
    BY <2>1, ClosingStep DEF HInv, Open
  <2> QED BY <2>1, <2>2
<1>4. ASSUME NEW l \in Loop, LoopStep(l), ~Close(l), ~HandleExpired(l) PROVE FALSE
  <2>1. life' = life
    BY <1>4 DEF LoopStep, Poll, HandleEvents, HandleRead, Reply, HandleWrite, Rearm, Linger, Swap,
                NewEvent, BatchDone, ExpiredDone
  <2> QED BY <2>1 DEF Open
<1>5. ASSUME LetGo PROVE FALSE
  BY <1>5, LetGoOf DEF HInv, Open
<1>6. CASE UNCHANGED vars
  BY <1>6 DEF vars, Open
<1> QED BY <1>1, <1>2, <1>3, <1>4, <1>5, <1>6 DEF Next

(***************************************************************************)
(* handleConn closes no connection with a response that could still be     *)
(* sent: it goes on, lingers, or there is an error; or the timer ends it.  *)
(***************************************************************************)
THEOREM NothingCutShort == Spec => NoTruncation
<1>1. HInv /\ [Next]_vars
          => [\A c \in Conn : Open(c) /\ ~Open(c)' /\ http[c].out
                                  => http[c].error \/ timer[c].due]_vars
  BY CutsNothing
<1> QED BY HeardInvariant, <1>1, PTL DEF Spec, NoTruncation

-------------------------------------------------------------------------------
(* The poller waits for what a connection needs.  lastEvents_ is the mask, *)
(* unless the first, one-shot registration has fired; and while handleConn *)
(* has not decided yet, events that ask for room stand for a response that *)
(* is pending, or for room that has come since and put the connection on   *)
(* the ready list.                                                         *)

MaskOK(h, e) == e.in => \/ e.mask = h.last /\ h.last \in {{"IN", "ONESHOT"}, {"IN"}, {"OUT"}}
                        \/ e.mask = {} /\ h.last = {"IN", "ONESHOT"}

WaitsOK(h, s, e) == e.in /\ h.st = "CONNECTED" /\ ~s.rst
                        => \/ (IF h.out THEN "OUT" ELSE "IN") \in e.mask
                           \/ e.edge /\ ReadyFor(s, e.mask) # {}

TurnOK(h, s, e) == /\ h.events \subseteq {"IN", "OUT"}
                   /\ "OUT" \in h.events /\ ~s.rst
                          => /\ h.out \/ s.room
                             /\ s.room /\ e.in /\ "OUT" \in e.mask => e.edge

InHand(c) == \E l \in Loop : cur[l].c = c

Minded(c) == /\ MaskOK(http[c], ep[c])
             /\ ~Busy(c) => WaitsOK(http[c], sock[c], ep[c])
             /\ InHand(c) => TurnOK(http[c], sock[c], ep[c])

\* Nothing is to be sent before the connection is installed; and what handleEvents ignores has
\* been reset.
Silent == \A c \in Conn : life[c] = "fresh" \/ Queued(c) => ~http[c].out
Ignorable == \A l \in Loop : \A a \in active[l] : Ignored(a.rev) => sock[a.c].rst

MInv == /\ HInv
        /\ \A c \in Conn : Minded(c)
        /\ Silent
        /\ Ignorable

\* What a step leaves alone stays as it was.
LEMMA KeptMinded ==
    ASSUME NEW c \in Conn, Minded(c),
           http'[c] = http[c], sock'[c] = sock[c], ep'[c] = ep[c],
           Busy(c) => Busy(c)', InHand(c)' => InHand(c)
    PROVE  Minded(c)'
BY DEF Minded

\* A step of a handler, as far as it matters here.
Turned(l, c, h, s, e, k) ==
    /\ c = cur[l].c /\ cur[l].phase # "none"
    /\ http' = [http EXCEPT ![c] = h] /\ sock' = [sock EXCEPT ![c] = s]
    /\ ep' = [ep EXCEPT ![c] = e] /\ cur' = [cur EXCEPT ![l] = k]
    /\ UNCHANGED <<life, queue, batch, active>>
    /\ MaskOK(h, e)
    /\ \/ k.c = c /\ TurnOK(h, s, e)
       \/ k = NoCur /\ WaitsOK(h, s, e)

LEMMA TurnMinded ==
    ASSUME MInv, NEW l \in Loop, NEW c \in Conn, NEW h, NEW s, NEW e, NEW k,
           Turned(l, c, h, s, e, k)
    PROVE  (\A d \in Conn : Minded(d)') /\ Silent' /\ Ignorable'
<1>1. IInv
  BY DEF MInv, HInv
<1>2. /\ c = cur[l].c /\ http' = [http EXCEPT ![c] = h] /\ sock' = [sock EXCEPT ![c] = s]
      /\ ep' = [ep EXCEPT ![c] = e] /\ cur' = [cur EXCEPT ![l] = k]
      /\ UNCHANGED <<life, queue, batch, active>>
      /\ k.c = c \/ (k.c = None /\ k = NoCur)
  BY DEF Turned, NoCur
<1>3. /\ http'[c] = h /\ sock'[c] = s /\ ep'[c] = e /\ cur'[l] = k
      /\ \A d \in Conn \ {c} : http'[d] = http[d] /\ sock'[d] = sock[d] /\ ep'[d] = ep[d]
      /\ \A m \in Loop \ {l} : cur'[m] = cur[m]
  BY <1>1, <1>2 DEF IInv, Types, Records, Turns
<1>4. /\ ~Queued(c) /\ life[c] = "open" /\ \A m \in Loop \ {l} : cur[m].c # c
      /\ \A m \in Loop : \A a \in active[m] : a.c # c
  BY <1>1, Handled DEF Turned, Open, IInv, Rounds
<1>5. ASSUME NEW d \in Conn PROVE Minded(d)'
  <2>1. CASE d = c
    <3>1. k.c = c => Busy(c)' /\ TurnOK(h, s, e)
      BY <1>3, NoneAssumption DEF Busy, Turned, NoCur
    <3>2. k.c # c => ~InHand(c)' /\ WaitsOK(h, s, e)
      BY <1>3, <1>4 DEF InHand, Turned
    <3> QED BY <2>1, <3>1, <3>2, <1>3 DEF Minded, Turned
  <2>2. CASE d # c
    <3>1. k.c # d /\ cur[l].c # d
      BY <1>2, <2>2, NoneAssumption
    <3>2. (Busy(d) => Busy(d)') /\ (InHand(d)' => InHand(d))
      BY <1>2, <1>3, <3>1 DEF Busy, InHand
    <3> QED BY <1>3, <2>2, <3>2, KeptMinded DEF MInv
  <2> QED BY <2>1, <2>2
<1>6. Silent'
  <2> SUFFICES ASSUME NEW d \in Conn, life[d] = "fresh" \/ Queued(d) PROVE ~http'[d].out
    BY <1>2 DEF Silent, Queued
  <2>1. d # c
    BY <1>4
  <2> QED BY <1>3, <2>1 DEF MInv, Silent
<1>7. Ignorable'
  <2> SUFFICES ASSUME NEW m \in Loop, NEW a \in active[m], Ignored(a.rev)
               PROVE  sock'[a.c].rst
    BY <1>2 DEF Ignorable
  <2>1. a.c \in Conn /\ a.c # c
    BY <1>1, <1>4 DEF IInv, Types, Turns, ActiveRec
  <2> QED BY <1>3, <2>1 DEF MInv, Ignorable
<1> QED BY <1>5, <1>6, <1>7

\* The connection in a loop's hands, before the step.
LEMMA HeldInHand ==
    ASSUME MInv, NEW l \in Loop, NEW c \in Conn, c = cur[l].c
    PROVE  MaskOK(http[c], ep[c]) /\ TurnOK(http[c], sock[c], ep[c])
BY DEF MInv, Minded, InHand

LEMMA ReadKeeps ==
    ASSUME NEW h \in HttpRec, NEW s, NEW r \in ReadResults(h, s)
    PROVE  /\ r.http.events = h.events /\ r.http.last = h.last
           /\ h.out => r.http.out
<1> DEFINE d == [h EXCEPT !.st = "DISCONNECTING"]
<1>1. d.events = h.events /\ d.last = h.last /\ d.out = h.out /\ d \in HttpRec
  BY DEF HttpRec
<1>2. r \in Parsed(h) \/ r \in Parsed(d)
  BY DEF ReadResults, Parsed
<1> HIDE DEF d
<1>3. ASSUME NEW g \in HttpRec, r \in Parsed(g)
      PROVE  r.http.events = g.events /\ r.http.last = g.last /\ (g.out => r.http.out)
  <2> DEFINE e == [g EXCEPT !.error = TRUE]
             o == [g EXCEPT !.out = TRUE]
  <2>1. \/ r = [http |-> e, phase |-> "failed"] \/ r = [http |-> g, phase |-> "again"]
        \/ r = [http |-> o, phase |-> "ok"] \/ r = [http |-> o, phase |-> "more"]
    BY <1>3 DEF Parsed, Error, Again, Done
  <2>2. /\ e.events = g.events /\ e.last = g.last /\ e.out = g.out
        /\ o.events = g.events /\ o.last = g.last /\ o.out = TRUE
    BY DEF HttpRec
  <2> HIDE DEF e, o
  <2> QED BY <2>1, <2>2
<1> QED BY <1>1, <1>2, <1>3

LEMMA ReadsMinded ==
    ASSUME MInv, NEW l \in Loop, HandleRead(l)
    PROVE  (\A d \in Conn : Minded(d)') /\ Silent' /\ Ignorable'
<1>1. IInv /\ cur[l].phase # "none" /\ UNCHANGED <<life, queue, batch, active>> /\ ep' = ep
  BY DEF HandleRead, Handling, MInv, HInv
<1>2. PICK c \in Conn : c = cur[l].c
  BY <1>1, Handled
<1> DEFINE p(r) == IF r.phase = "failed" THEN AfterRead(cur[l].rev) ELSE r.phase
           k(r) == [cur[l] EXCEPT !.phase = p(r)]
           s == [sock[c] EXCEPT !.rx = FALSE]
<1>3. PICK r \in ReadResults(http[c], sock[c]) : /\ http' = [http EXCEPT ![c] = r.http]
                                                 /\ cur' = [cur EXCEPT ![l] = k(r)]
  BY <1>2 DEF HandleRead
<1>4. sock' = [sock EXCEPT ![c] = s]
  BY <1>2 DEF HandleRead
<1>5. s.rst = sock[c].rst /\ s.room = sock[c].room
  BY <1>1, Values DEF SockRec
<1>6. k(r).c = c
  BY <1>1, <1>2 DEF IInv, Types, Turns, CurRec
<1>7. ep' = [ep EXCEPT ![c] = ep[c]]
  BY <1>1 DEF IInv, Types, Records
<1> HIDE DEF p, k, s
<1>8. http[c] \in HttpRec
  BY <1>1, Values
<1>9. /\ r.http.events = http[c].events /\ r.http.last = http[c].last
      /\ http[c].out => r.http.out
  BY <1>8, ReadKeeps
<1>10. MaskOK(r.http, ep[c])
  BY <1>2, <1>9, HeldInHand DEF MaskOK
<1>11. TurnOK(r.http, s, ep[c])
  BY <1>2, <1>5, <1>9, HeldInHand DEF TurnOK
<1>12. Turned(l, c, r.http, s, ep[c], k(r))
  BY <1>1, <1>2, <1>3, <1>4, <1>6, <1>7, <1>10, <1>11 DEF Turned
<1> QED BY <1>12, TurnMinded

LEMMA WrittenKeeps ==
    ASSUME NEW h \in HttpRec, NEW s \in SockRec, NEW e, TurnOK(h, s, e), NEW w \in Written(h, s)
    PROVE  w.http.last = h.last /\ TurnOK(w.http, w.sock, e)
<1> DEFINE failed == [[h EXCEPT !.error = TRUE] EXCEPT !.events = {"OUT"}]
           full == [h EXCEPT !.events = @ \cup {"OUT"}]
           sent == [h EXCEPT !.out = FALSE]
           filled == [s EXCEPT !.room = FALSE]
<1>1. \/ w = [http |-> h, sock |-> s]
      \/ w = [http |-> failed, sock |-> s] /\ s.rst
      \/ w = [http |-> full, sock |-> filled] /\ h.out
      \/ w = [http |-> sent, sock |-> s] /\ s.room
  BY DEF Written
<1>2. failed.last = h.last /\ full.last = h.last /\ sent.last = h.last
  BY DEF HttpRec
<1>3. s.rst => TurnOK(failed, s, e)
  <2>1. failed.events = {"OUT"}
    BY DEF HttpRec
  <2> HIDE DEF failed
  <2> QED BY <2>1 DEF TurnOK
<1>4. h.out => TurnOK(full, filled, e)
  <2>1. full.events = h.events \cup {"OUT"} /\ full.out = h.out
    BY DEF HttpRec
  <2>2. filled.room = FALSE /\ filled.rst = s.rst
    BY DEF SockRec
  <2> HIDE DEF full, filled
  <2> QED BY <2>1, <2>2 DEF TurnOK
<1>5. s.room => TurnOK(sent, s, e)
  <2>1. sent.events = h.events
    BY DEF HttpRec
  <2> HIDE DEF sent
  <2> QED BY <2>1 DEF TurnOK
<1> HIDE DEF failed, full, sent, filled
<1> QED BY <1>1, <1>2, <1>3, <1>4, <1>5

LEMMA WritesMinded ==
    ASSUME MInv, NEW l \in Loop, HandleWrite(l)
    PROVE  (\A d \in Conn : Minded(d)') /\ Silent' /\ Ignorable'
<1>1. IInv /\ cur[l].phase # "none" /\ UNCHANGED <<life, queue, batch, active>> /\ ep' = ep
  BY DEF HandleWrite, Handling, MInv, HInv
<1>2. PICK c \in Conn : c = cur[l].c
  BY <1>1, Handled
<1> DEFINE k == [cur[l] EXCEPT !.phase = "conn"]
<1>3. PICK w \in Written(http[c], sock[c]) : /\ http' = [http EXCEPT ![c] = w.http]
                                             /\ sock' = [sock EXCEPT ![c] = w.sock]
  BY <1>2 DEF HandleWrite
<1>4. cur' = [cur EXCEPT ![l] = k] /\ k.c = c
  BY <1>1, <1>2 DEF HandleWrite, IInv, Types, Turns, CurRec
<1>5. ep' = [ep EXCEPT ![c] = ep[c]]
  BY <1>1 DEF IInv, Types, Records
<1>6. w.http.last = http[c].last /\ TurnOK(w.http, w.sock, ep[c])
  BY <1>1, <1>2, Values, HeldInHand, WrittenKeeps
<1>7. MaskOK(w.http, ep[c])
  BY <1>2, <1>6, HeldInHand DEF MaskOK
<1> HIDE DEF k
<1>8. Turned(l, c, w.http, w.sock, ep[c], k)
  BY <1>1, <1>2, <1>3, <1>4, <1>5, <1>6, <1>7 DEF Turned
<1> QED BY <1>8, TurnMinded

LEMMA RepliesMinded ==
    ASSUME MInv, NEW l \in Loop, NEW phase \in {"again", "ok", "more"}, Reply(l, phase)
    PROVE  (\A d \in Conn : Minded(d)') /\ Silent' /\ Ignorable'
<1>1. IInv /\ cur[l].phase # "none" /\ UNCHANGED <<life, queue, batch, active>> /\ ep' = ep
  BY DEF Reply, Handling, MInv, HInv
<1>2. PICK c \in Conn : c = cur[l].c
  BY <1>1, Handled
<1> DEFINE done == phase \in {"ok", "more"}
           M(w) == [w.http EXCEPT !.events = @ \cup {"IN"}]
           H(w) == IF ~w.http.error /\ ~done THEN M(w) ELSE w.http
           P(w) == IF ~w.http.error /\ phase = "more" /\ w.http.st # "DISCONNECTING" THEN "read"
                   ELSE AfterRead(cur[l].rev)
           K(w) == [cur[l] EXCEPT !.phase = P(w)]
<1>3. PICK w \in Written(http[c], sock[c]) : /\ http' = [http EXCEPT ![c] = H(w)]
                                             /\ sock' = [sock EXCEPT ![c] = w.sock]
                                             /\ cur' = [cur EXCEPT ![l] = K(w)]
  BY <1>2 DEF Reply
<1>4. K(w).c = c
  BY <1>1, <1>2 DEF IInv, Types, Turns, CurRec
<1>5. ep' = [ep EXCEPT ![c] = ep[c]]
  BY <1>1 DEF IInv, Types, Records
<1>6. http[c] \in HttpRec /\ sock[c] \in SockRec
  BY <1>1, Values
<1>7. w.http \in HttpRec /\ w.http.last = http[c].last /\ TurnOK(w.http, w.sock, ep[c])
  BY <1>2, <1>6, HeldInHand, WrittenKeeps, WrittenType
<1>8. M(w).last = http[c].last /\ TurnOK(M(w), w.sock, ep[c])
  <2>1. M(w).events = w.http.events \cup {"IN"} /\ M(w).out = w.http.out
        /\ M(w).last = w.http.last
    BY <1>7 DEF HttpRec
  <2> HIDE DEF M
  <2> QED BY <1>7, <2>1 DEF TurnOK
<1> HIDE DEF K, M, done
<1>9. H(w).last = http[c].last /\ TurnOK(H(w), w.sock, ep[c])
  BY <1>7, <1>8
<1> HIDE DEF H
<1>10. MaskOK(H(w), ep[c])
  BY <1>2, <1>9, HeldInHand DEF MaskOK
<1>11. Turned(l, c, H(w), w.sock, ep[c], K(w))
  BY <1>1, <1>2, <1>3, <1>4, <1>5, <1>9, <1>10 DEF Turned
<1> QED BY <1>11, TurnMinded

\* handleConn asks for what is needed: for room if it is asked for, which stands for a pending
\* response or for room that epoll is about to report.
LEMMA RearmsMinded ==
    ASSUME MInv, NEW l \in Loop, Rearm(l)
    PROVE  (\A d \in Conn : Minded(d)') /\ Silent' /\ Ignorable'
<1>1. /\ IInv /\ cur[l].phase = "conn" /\ UNCHANGED <<life, queue, batch, active>>
      /\ sock' = sock
  BY DEF Rearm, Handling, MInv, HInv
<1>2. PICK c \in Conn : c = cur[l].c
  BY <1>1, Handled
<1> DEFINE events == Wanted(http[c].events)
           h == [[http[c] EXCEPT !.events = events] EXCEPT !.last = events]
           e == IF events = http[c].last THEN ep[c] ELSE Armed(c, events)
<1>3. /\ http' = [http EXCEPT ![c] = h] /\ ep' = [ep EXCEPT ![c] = e]
      /\ cur' = [cur EXCEPT ![l] = NoCur] /\ ~http[c].error
  BY <1>2 DEF Rearm, ModFd, GoesOn
<1>4. http[c] \in HttpRec /\ sock[c] \in SockRec /\ ep[c] \in EpRec
  BY <1>1, Values
<1>5. sock' = [sock EXCEPT ![c] = sock[c]]
  BY <1>1 DEF IInv, Types, Records
<1>6. MaskOK(http[c], ep[c]) /\ TurnOK(http[c], sock[c], ep[c]) /\ Heard(http[c])
  BY <1>1, <1>2, HeldInHand DEF MInv, HInv, Answered
<1>7. h.last = events /\ h.out = http[c].out /\ h.st = http[c].st
  BY <1>4 DEF HttpRec
<1>8. \/ events = {"IN"} /\ "OUT" \notin http[c].events
      \/ events = {"OUT"} /\ "OUT" \in http[c].events
  BY <1>6 DEF TurnOK, Wanted
<1> HIDE DEF events
<1>9. /\ Armed(c, events).mask = events /\ Armed(c, events).in
      /\ Armed(c, events).edge = (ReadyFor(sock[c], events) # {})
  BY DEF Armed
<1>10. e.in => e.mask = events
  <2>1. CASE events = http[c].last
    BY <1>6, <1>8, <2>1 DEF MaskOK
  <2>2. CASE events # http[c].last
    BY <1>9, <2>2
  <2> QED BY <2>1, <2>2
<1>11. MaskOK(h, e)
  BY <1>7, <1>8, <1>10 DEF MaskOK
<1>12. WaitsOK(h, sock[c], e)
  <2> SUFFICES ASSUME e.in, ~sock[c].rst
               PROVE  \/ (IF http[c].out THEN "OUT" ELSE "IN") \in e.mask
                      \/ e.edge /\ ReadyFor(sock[c], e.mask) # {}
    BY <1>7 DEF WaitsOK
  <2>1. CASE events = {"IN"} /\ "OUT" \notin http[c].events
    BY <1>3, <1>6, <1>10, <2>1 DEF Heard
  <2>2. CASE events = {"OUT"} /\ "OUT" \in http[c].events
    <3>1. CASE http[c].out
      BY <1>10, <2>2, <3>1
    <3>2. CASE ~http[c].out
      <4>1. sock[c].room
        BY <1>6, <2>2, <3>2 DEF TurnOK
      <4>2. ReadyFor(sock[c], {"OUT"}) # {}
        BY <4>1 DEF ReadyFor, Revents
      <4>3. CASE events = http[c].last
        BY <1>6, <1>10, <2>2, <4>1, <4>2, <4>3 DEF TurnOK
      <4>4. CASE events # http[c].last
        BY <1>9, <2>2, <4>2, <4>4
      <4> QED BY <1>10, <2>2, <4>2, <4>3, <4>4
    <3> QED BY <3>1, <3>2
  <2> QED BY <1>8, <2>1, <2>2
<1> HIDE DEF h, e
<1>13. Turned(l, c, h, sock[c], e, NoCur)
  BY <1>1, <1>2, <1>3, <1>5, <1>11, <1>12 DEF Turned
<1> QED BY <1>13, TurnMinded

\* A connection that is only closing asks for nothing.
LEMMA LingeringMinded ==
    ASSUME MInv, NEW l \in Loop, Linger(l)
    PROVE  (\A d \in Conn : Minded(d)') /\ Silent' /\ Ignorable'
<1>1. /\ IInv /\ cur[l].phase = "conn" /\ UNCHANGED <<life, queue, batch, active>>
      /\ sock' = sock /\ ep' = ep
  BY DEF Linger, Handling, MInv, HInv
<1>2. PICK c \in Conn : c = cur[l].c
  BY <1>1, Handled
<1> DEFINE h == [http[c] EXCEPT !.events = {"OUT"}]
<1>3. /\ http' = [http EXCEPT ![c] = h] /\ cur' = [cur EXCEPT ![l] = NoCur]
      /\ http[c].st = "DISCONNECTING"
  BY <1>2 DEF Linger, Lingers
<1>4. http[c] \in HttpRec
  BY <1>1, Values
<1>5. sock' = [sock EXCEPT ![c] = sock[c]] /\ ep' = [ep EXCEPT ![c] = ep[c]]
  BY <1>1 DEF IInv, Types, Records
<1>6. h.last = http[c].last /\ h.st = "DISCONNECTING"
  BY <1>3, <1>4 DEF HttpRec
<1> HIDE DEF h
<1>7. MaskOK(h, ep[c]) /\ WaitsOK(h, sock[c], ep[c])
  BY <1>2, <1>6, HeldInHand DEF MaskOK, WaitsOK
<1>8. Turned(l, c, h, sock[c], ep[c], NoCur)
  BY <1>1, <1>2, <1>3, <1>5, <1>7 DEF Turned
<1> QED BY <1>8, TurnMinded

\* Events are cleared before their handlers run, and only a reset leaves an event without one.
LEMMA EventsMinded ==
    ASSUME MInv, NEW l \in Loop, HandleEvents(l)
    PROVE  (\A d \in Conn : Minded(d)') /\ Silent' /\ Ignorable'
<1> DEFINE p(a) == IF "IN" \in a.rev THEN "read" ELSE AfterRead(a.rev)
           k(a) == IF Ignored(a.rev) THEN NoCur ELSE [c |-> a.c, rev |-> a.rev, phase |-> p(a)]
           h(a) == [http[a.c] EXCEPT !.events = {}]
<1>1. IInv /\ cur[l] = NoCur /\ UNCHANGED <<life, queue, batch, sock, ep>>
  BY DEF HandleEvents, MInv, HInv
<1>2. PICK a \in active[l] : /\ active' = [active EXCEPT ![l] = active[l] \ {a}]
                             /\ http' = [http EXCEPT ![a.c] = h(a)]
                             /\ cur' = [cur EXCEPT ![l] = k(a)]
  BY DEF HandleEvents
<1>3. PICK c \in Conn : c = a.c
  BY <1>1 DEF IInv, Types, Turns, ActiveRec
<1>4. http[c] \in HttpRec
  BY <1>1, Values
<1>5. h(a).events = {} /\ h(a).last = http[c].last /\ h(a).out = http[c].out
  BY <1>3, <1>4 DEF HttpRec
<1>6. IF Ignored(a.rev) THEN k(a).c = None ELSE k(a).c = c
  BY <1>3 DEF NoCur
<1> HIDE DEF k, h
<1>7. /\ http'[c] = h(a) /\ \A d \in Conn \ {c} : http'[d] = http[d]
      /\ cur'[l] = k(a) /\ \A m \in Loop \ {l} : cur'[m] = cur[m]
      /\ active'[l] = active[l] \ {a} /\ \A m \in Loop \ {l} : active'[m] = active[m]
  BY <1>1, <1>2, <1>3 DEF IInv, Types, Records, Turns
<1>8. ASSUME NEW d \in Conn PROVE Minded(d)'
  <2>1. CASE d = c
    <3>1. MaskOK(http'[c], ep[c]) /\ TurnOK(http'[c], sock[c], ep[c])
      BY <1>5, <1>7 DEF MInv, Minded, MaskOK, TurnOK
    <3>2. Ignored(a.rev) => WaitsOK(http'[c], sock[c], ep[c])
      BY <1>3 DEF MInv, Ignorable, WaitsOK
    <3>3. ~Ignored(a.rev) => Busy(c)'
      BY <1>6, <1>7 DEF Busy
    <3> QED BY <1>1, <2>1, <3>1, <3>2, <3>3 DEF Minded
  <2>2. CASE d # c
    <3>1. cur[l].c # d /\ k(a).c # d
      BY <1>1, <1>6, <2>2, NoneAssumption DEF NoCur
    <3>2. (Busy(d) => Busy(d)') /\ (InHand(d)' => InHand(d))
      BY <1>3, <1>7, <2>2, <3>1 DEF Busy, InHand
    <3> QED BY <1>1, <1>7, <2>2, <3>2, KeptMinded DEF MInv
  <2> QED BY <2>1, <2>2
<1>9. Silent'
  <2>1. \A d \in Conn : http'[d].out = http[d].out
    BY <1>5, <1>7
  <2> QED BY <1>1, <2>1 DEF MInv, Silent, Queued
<1>10. Ignorable'
  BY <1>1, <1>7 DEF MInv, Ignorable
<1> QED BY <1>8, <1>9, <1>10

\* A poll takes the edges of what it reports, and puts it into the round.
LEMMA PollsMinded ==
    ASSUME MInv, NEW l \in Loop, Poll(l)
    PROVE  (\A d \in Conn : Minded(d)') /\ Silent' /\ Ignorable'
<1> DEFINE ready == {c \in Conn : life[c] = "open" /\ loopOf[c] = l /\ Reportable(c)}
           found == {c \in ready : fd2chan[l][fdOf[c]] # None}
           rev(c) == ReadyFor(sock[c], ep[c].mask)
           mask(c) == IF "ONESHOT" \in ep[c].mask THEN {} ELSE ep[c].mask
           e(c) == [[ep[c] EXCEPT !.edge = FALSE] EXCEPT !.mask = mask(c)]
<1>1. IInv /\ pc[l] = "poll" /\ UNCHANGED <<life, queue, batch, sock, cur>>
  BY DEF Poll, MInv, HInv
<1>2. /\ active' = [active EXCEPT ![l] = {[c |-> fd2chan[l][fdOf[c]], rev |-> rev(c)] : c \in found}]
      /\ http' = [c \in Conn |-> IF \E a \in active'[l] : a.c = c
                                 THEN [http[c] EXCEPT !.events = {}] ELSE http[c]]
      /\ ep' = [c \in Conn |-> IF c \notin ready THEN ep[c] ELSE e(c)]
  BY DEF Poll
<1>3. ready \subseteq Conn /\ \A c \in ready : fd2chan[l][fdOf[c]] = c
  BY <1>1 DEF IInv, Entries, Reportable, Registered
<1>4. found = ready
  BY <1>3, NoneAssumption
<1>5. \A c \in Conn : e(c).in = ep[c].in /\ e(c).mask = mask(c)
  BY <1>1 DEF IInv, Types, Records, EpRec
<1>6. \A c \in Conn : Ignored(rev(c)) => sock[c].rst
  BY DEF ReadyFor, Ignored
<1> HIDE DEF ready, rev, e
<1>7. /\ \A m \in Loop \ {l} : active'[m] = active[m]
      /\ active'[l] = {[c |-> c, rev |-> rev(c)] : c \in ready}
  <2> HIDE DEF found
  <2>1. active'[l] = {[c |-> fd2chan[l][fdOf[c]], rev |-> rev(c)] : c \in found}
    BY <1>1, <1>2 DEF IInv, Types, Turns
  <2>2. \A m \in Loop \ {l} : active'[m] = active[m]
    BY <1>1, <1>2 DEF IInv, Types, Turns
  <2> QED BY <1>3, <1>4, <2>1, <2>2
<1>8. ASSUME NEW c \in Conn PROVE c \in ready <=> \E a \in active'[l] : a.c = c
  <2> DEFINE rec(x) == [c |-> x, rev |-> rev(x)]
  <2>1. \A x : rec(x).c = x
    OBVIOUS
  <2>2. active'[l] = {rec(x) : x \in ready}
    BY <1>7
  <2> HIDE DEF rec
  <2> QED BY <2>1, <2>2
<1>9. ASSUME NEW c \in Conn PROVE Minded(c)'
  <2>1. CASE c \in ready
    <3>1. http'[c] = [http[c] EXCEPT !.events = {}] /\ ep'[c] = e(c)
      BY <1>2, <1>8, <2>1
    <3>2. http'[c].events = {} /\ http'[c].last = http[c].last
      BY <1>1, <3>1, Values DEF HttpRec
    <3>3. MaskOK(http'[c], ep'[c])
      BY <1>5, <3>1, <3>2 DEF MInv, Minded, MaskOK
    <3>4. TurnOK(http'[c], sock'[c], ep'[c])
      BY <3>2 DEF TurnOK
    <3>5. Busy(c)'
      BY <1>8, <2>1 DEF Busy
    <3> QED BY <3>3, <3>4, <3>5 DEF Minded
  <2>2. CASE c \notin ready
    <3>1. http'[c] = http[c] /\ ep'[c] = ep[c]
      BY <1>2, <1>8, <2>2
    <3>2. active[l] = {}
      BY <1>1 DEF IInv, Rounds
    <3>3. (Busy(c) => Busy(c)') /\ (InHand(c)' => InHand(c))
      BY <1>1, <1>7, <3>2 DEF Busy, InHand
    <3> QED BY <1>1, <3>1, <3>3, KeptMinded DEF MInv
  <2> QED BY <2>1, <2>2
<1>10. Silent'
  <2>1. \A c \in Conn : http'[c].out = http[c].out
    BY <1>1, <1>2, Values DEF HttpRec
  <2> QED BY <1>1, <2>1 DEF MInv, Silent, Queued
<1>11. Ignorable'
  BY <1>1, <1>3, <1>6, <1>7 DEF MInv, Ignorable
<1> QED BY <1>9, <1>10, <1>11

\* newEvent waits for a request, of a connection that nobody has heard of yet.
LEMMA NewEventsMinded ==
    ASSUME MInv, NEW l \in Loop, NewEvent(l)
    PROVE  (\A d \in Conn : Minded(d)') /\ Silent' /\ Ignorable'
<1>1. /\ IInv /\ batch[l] # <<>> /\ batch[l] \in Seq(Conn)
      /\ UNCHANGED <<life, queue, sock, cur, active>>
  BY DEF NewEvent, MInv, HInv, IInv, Types, Functors
<1>2. PICK c \in Conn : c = Head(batch[l])
  BY <1>1, SplitHead
<1>3. Range(batch[l]) = {c} \cup Range(Tail(batch[l]))
  BY <1>1, <1>2, SplitHead
<1>4. Waiting(l, c)
  BY <1>3 DEF Waiting
<1>5. ~Installed(c) /\ Open(c) /\ loopOf[c] = l
  BY <1>1, <1>4 DEF IInv, Queues
<1>6. ~Registered(c)
  BY <1>1, <1>5, NoneAssumption
  DEF IInv, Tables, Descriptors, Alive, Open, Registered, Installed
<1>7. ~ep[c].in /\ ~InHand(c)
  BY <1>1, <1>2, <1>6, NoneAssumption DEF IInv, Entries, Rounds, InHand
<1> DEFINE events == {"IN", "ONESHOT"}
           h == [[http[c] EXCEPT !.events = events] EXCEPT !.last = events]
<1>8. /\ http' = [http EXCEPT ![c] = h]
      /\ \/ ep' = [ep EXCEPT ![c] = Armed(c, events)]
         \/ ep' = [ep EXCEPT ![c] = ep[c]]
      /\ batch' = [batch EXCEPT ![l] = Tail(batch[l])]
  BY <1>2 DEF NewEvent
<1>9. http[c] \in HttpRec /\ ~http[c].out
  <2>1. Queued(c)
    BY <1>4 DEF Queued, Waiting
  <2> QED BY <1>1, <2>1, Values DEF MInv, Silent
<1>10. h.last = events /\ ~h.out
  BY <1>9 DEF HttpRec
<1>11. Armed(c, events).mask = events
  BY DEF Armed
<1> HIDE DEF h
<1>12. /\ http'[c] = h /\ (ep'[c] = Armed(c, events) \/ ep'[c] = ep[c])
       /\ \A d \in Conn \ {c} : http'[d] = http[d] /\ ep'[d] = ep[d]
  BY <1>1, <1>8 DEF IInv, Types, Records
<1>13. ASSUME NEW d \in Conn PROVE Minded(d)'
  <2>1. CASE d = c
    <3>1. MaskOK(http'[c], ep'[c])
      BY <1>7, <1>10, <1>11, <1>12 DEF MaskOK
    <3>2. WaitsOK(http'[c], sock'[c], ep'[c])
      BY <1>7, <1>10, <1>11, <1>12 DEF WaitsOK
    <3>3. ~InHand(c)'
      BY <1>1, <1>7 DEF InHand
    <3> QED BY <2>1, <3>1, <3>2, <3>3 DEF Minded
  <2>2. CASE d # c
    <3>1. (Busy(d) => Busy(d)') /\ (InHand(d)' => InHand(d))
      BY <1>1 DEF Busy, InHand
    <3> QED BY <1>1, <1>12, <2>2, <3>1, KeptMinded DEF MInv
  <2> QED BY <2>1, <2>2
<1>14. Silent'
  <2>1. \A m \in Loop : Range(batch'[m]) \subseteq Range(batch[m])
    BY <1>1, <1>3, <1>8 DEF IInv, Types, Functors
  <2>2. \A d \in Conn : Queued(d)' => Queued(d)
    BY <1>1, <2>1 DEF Queued
  <2> QED BY <1>1, <1>10, <1>12, <2>2 DEF MInv, Silent
<1>15. Ignorable'
  BY <1>1 DEF MInv, Ignorable
<1> QED BY <1>13, <1>14, <1>15

\* Whatever a peer does but a reset, there is only more to read and more room, and epoll
\* notices what the mask covers.
Grows(r, s) == (r.rx => s.rx) /\ (r.fin => s.fin) /\ (r.rst => s.rst) /\ (r.room => s.room)

LEMMA PeerGrows ==
    ASSUME IInv, NEW c \in Conn, Peer(c)
    PROVE  \E s \in SockRec : Grows(sock[c], s) /\ PeerStep(c, s)
<1>1. sock[c] \in SockRec
  BY Values
<1>2. \A s \in SockRec : /\ [s EXCEPT !.rx = TRUE] \in SockRec /\ Grows(s, [s EXCEPT !.rx = TRUE])
                         /\ [s EXCEPT !.fin = TRUE] \in SockRec /\ Grows(s, [s EXCEPT !.fin = TRUE])
                         /\ [s EXCEPT !.rst = TRUE] \in SockRec /\ Grows(s, [s EXCEPT !.rst = TRUE])
                         /\ [s EXCEPT !.room = TRUE] \in SockRec
                         /\ Grows(s, [s EXCEPT !.room = TRUE])
  BY DEF SockRec, Grows
<1> QED BY <1>1, <1>2 DEF Peer, Send, Shut, Reset, Drain

LEMMA PeersMinded ==
    ASSUME MInv, NEW c \in Conn, Peer(c)
    PROVE  (\A d \in Conn : Minded(d)') /\ Silent' /\ Ignorable'
<1>1. IInv
  BY DEF MInv, HInv
<1>2. PICK s \in SockRec : Grows(sock[c], s) /\ PeerStep(c, s)
  BY <1>1, PeerGrows
<1>3. /\ sock' = [sock EXCEPT ![c] = s] /\ ep' = Notice(c, s)
      /\ UNCHANGED <<life, http, queue, batch, active, cur>>
  BY <1>2 DEF PeerStep, loops
<1>4. /\ sock'[c] = s /\ ep'[c].in = ep[c].in /\ ep'[c].mask = ep[c].mask
      /\ ep'[c].edge = (ep[c].edge \/ (ep[c].in /\ ReadyFor(s, ep[c].mask) # {}))
      /\ \A d \in Conn \ {c} : sock'[d] = sock[d] /\ ep'[d] = ep[d]
  BY <1>1, <1>3 DEF Notice, IInv, Types, Records, EpRec
<1>5. ReadyFor(sock[c], ep[c].mask) # {} => ReadyFor(s, ep[c].mask) # {}
  BY <1>2 DEF ReadyFor, Grows
<1>6. ASSUME NEW d \in Conn PROVE Minded(d)'
  <2>1. (Busy(d) => Busy(d)') /\ (InHand(d)' => InHand(d)) /\ Minded(d)
    BY <1>3 DEF Busy, InHand, MInv
  <2>2. CASE d = c
    <3>1. MaskOK(http'[c], ep'[c])
      BY <1>3, <1>4, <2>1, <2>2 DEF Minded, MaskOK
    <3>2. WaitsOK(http[c], sock[c], ep[c]) => WaitsOK(http'[c], sock'[c], ep'[c])
      BY <1>2, <1>3, <1>4, <1>5 DEF WaitsOK, Grows
    <3>3. TurnOK(http[c], sock[c], ep[c]) => TurnOK(http'[c], sock'[c], ep'[c])
      <4>1. "OUT" \in ep[c].mask /\ s.room => ReadyFor(s, ep[c].mask) # {}
        BY DEF ReadyFor, Revents
      <4> QED BY <1>2, <1>3, <1>4, <4>1 DEF TurnOK, Grows
    <3> QED BY <2>1, <2>2, <3>1, <3>2, <3>3 DEF Minded
  <2>3. CASE d # c
    BY <1>3, <1>4, <2>1, <2>3, KeptMinded
  <2> QED BY <2>2, <2>3
<1>7. Silent'
  BY <1>3 DEF MInv, Silent, Queued
<1>8. Ignorable'
  <2> SUFFICES ASSUME NEW m \in Loop, NEW a \in active[m], Ignored(a.rev) PROVE sock'[a.c].rst
    BY <1>3 DEF Ignorable
  <2>1. a.c \in Conn /\ sock[a.c].rst
    BY <1>1 DEF MInv, Ignorable, IInv, Types, Turns, ActiveRec
  <2> QED BY <1>2, <1>4, <2>1 DEF Grows
<1> QED BY <1>6, <1>7, <1>8

\* Steps that change no connection.
LEMMA QuietMinded ==
    ASSUME MInv, UNCHANGED <<http, sock, ep, active, cur>>,
           \A c \in Conn : life'[c] = "fresh" \/ Queued(c)' => life[c] = "fresh" \/ Queued(c)
    PROVE  (\A d \in Conn : Minded(d)') /\ Silent' /\ Ignorable'
<1>1. ASSUME NEW d \in Conn PROVE Minded(d)'
  <2>1. (Busy(d) => Busy(d)') /\ (InHand(d)' => InHand(d)) /\ Minded(d)
    BY DEF Busy, InHand, MInv
  <2> QED BY <2>1, KeptMinded
<1>2. Silent'
  BY DEF MInv, Silent
<1>3. Ignorable'
  BY DEF MInv, Ignorable
<1> QED BY <1>1, <1>2, <1>3

LEMMA AcceptsMinded ==
    ASSUME MInv, NEW c \in Conn, Accept(c)
    PROVE  (\A d \in Conn : Minded(d)') /\ Silent' /\ Ignorable'
<1>1. IInv /\ next \in Loop
  BY DEF MInv, HInv, IInv, Types, Objects
<1>2. /\ life[c] = "fresh" /\ life' = [life EXCEPT ![c] = "open"]
      /\ queue' = [queue EXCEPT ![next] = Append(queue[next], c)] /\ batch' = batch
      /\ UNCHANGED <<http, sock, ep, active, cur>>
  BY DEF Accept
<1>3. Range(Append(queue[next], c)) = Range(queue[next]) \cup {c}
  BY <1>1, RangeAppend DEF IInv, Types, Functors
<1>4. \A d \in Conn : Queued(d)' => Queued(d) \/ d = c
  BY <1>1, <1>2, <1>3 DEF Queued, IInv, Types, Functors
<1>5. \A d \in Conn : life'[d] = "fresh" => life[d] = "fresh"
  BY <1>1, <1>2 DEF IInv, Types, Objects
<1> QED BY <1>2, <1>4, <1>5, QuietMinded

LEMMA SwapsMinded ==
    ASSUME MInv, NEW l \in Loop, Swap(l)
    PROVE  (\A d \in Conn : Minded(d)') /\ Silent' /\ Ignorable'
<1>1. IInv
  BY DEF MInv, HInv
<1>2. /\ queue' = [queue EXCEPT ![l] = <<>>] /\ batch' = [batch EXCEPT ![l] = queue[l]]
      /\ UNCHANGED <<life, http, sock, ep, active, cur>>
  BY DEF Swap
<1>3. \A c \in Conn : Queued(c)' => Queued(c)
  BY <1>1, <1>2, EmptySequence DEF Queued, IInv, Types, Functors
<1> QED BY <1>2, <1>3, QuietMinded

\* What a closing leaves is gone, or as it was.
LEMMA ClosingMinded ==
    ASSUME MInv, NEW l \in Loop, NEW c \in Conn, ClosingOf(l, c)
    PROVE  (\A d \in Conn : Minded(d)') /\ Silent' /\ Ignorable'
<1>1. IInv /\ IInv' /\ life'[c] # "fresh" /\ \A d \in Conn \ {c} : life'[d] = life[d]
  BY ClosingStep DEF MInv, HInv
<1>2. /\ Open(c) /\ Installed(c) /\ loopOf[c] = l
      /\ \A m \in Loop : \/ cur'[m] = cur[m] /\ cur[m].c # c
                         \/ cur'[m] = NoCur /\ cur[m].c = c
      /\ \A m \in Loop : \A a \in active[m] : a.c # c
      /\ UNCHANGED <<queue, batch, active>>
  BY DEF ClosingOf
<1> DEFINE lf == [life EXCEPT ![c] = "disconnected"]
           e == [ep EXCEPT ![c] = NoEntry]
<1>3. /\ life' = [d \in Conn |-> IF Alive(d) /\ ~Held(d)' THEN "closed" ELSE lf[d]]
      /\ http' = [d \in Conn |-> IF life'[d] = "closed" THEN NewHttp ELSE http[d]]
      /\ sock' = [d \in Conn |-> IF life'[d] = "closed" THEN NewSock ELSE sock[d]]
      /\ ep' = [d \in Conn |-> IF life'[d] = "closed" THEN NoEntry ELSE e[d]]
  BY DEF ClosingOf, HandleClose, Destruct
<1>4. e[c] = NoEntry /\ \A d \in Conn \ {c} : e[d] = ep[d]
  BY <1>1 DEF IInv, Types, Records
<1> HIDE DEF lf, e
<1>5. NoCur.c = None /\ ~NoEntry.in
  BY DEF NoCur, NoEntry
<1>6. ASSUME NEW d \in Conn PROVE Minded(d)'
  <2>1. CASE d = c \/ life'[d] = "closed"
    <3>1. ep'[d] = NoEntry
      BY <1>3, <1>4, <2>1
    <3>2. ~InHand(d)'
      <4>1. CASE d = c
        BY <1>2, <1>5, <4>1, NoneAssumption DEF InHand
      <4>2. CASE d # c
        <5>1. life[d] = "closed"
          BY <1>1, <2>1, <4>2
        <5>2. \A m \in Loop : cur[m].c # d
          BY <1>1, <5>1, NoneAssumption DEF IInv, Rounds, Open
        <5> QED BY <1>2, <1>5, <5>2, NoneAssumption DEF InHand
      <4> QED BY <4>1, <4>2
    <3> QED BY <1>5, <3>1, <3>2 DEF Minded, MaskOK, WaitsOK
  <2>2. CASE d # c /\ life'[d] # "closed"
    <3>1. http'[d] = http[d] /\ sock'[d] = sock[d] /\ ep'[d] = ep[d]
      BY <1>3, <1>4, <2>2
    <3>2. (Busy(d) => Busy(d)') /\ (InHand(d)' => InHand(d))
      BY <1>2, <1>5, <2>2, NoneAssumption DEF Busy, InHand
    <3> QED BY <3>1, <3>2, KeptMinded DEF MInv
  <2> QED BY <2>1, <2>2
<1>7. Silent'
  <2> SUFFICES ASSUME NEW d \in Conn, life'[d] = "fresh" \/ Queued(d) PROVE ~http'[d].out
    BY <1>2 DEF Silent, Queued
  <2>1. ~Queued(c)
    BY <1>1, <1>2 DEF IInv, Queues, Queued, Waiting
  <2>2. life'[c] # "fresh"
    BY <1>1
  <2>3. d # c /\ life'[d] # "closed"
    BY <1>1, <2>1, <2>2 DEF IInv, Queues, Queued, Waiting, Open
  <2>4. http'[d] = http[d] /\ life'[d] = life[d]
    BY <1>1, <1>3, <1>4, <2>3
  <2> QED BY <2>4 DEF MInv, Silent
<1>8. Ignorable'
  <2> SUFFICES ASSUME NEW m \in Loop, NEW a \in active[m], Ignored(a.rev) PROVE sock'[a.c].rst
    BY <1>2 DEF Ignorable
  <2>1. a.c \in Conn /\ a.c # c /\ Open(a.c) /\ sock[a.c].rst
    BY <1>1, <1>2 DEF MInv, Ignorable, IInv, Types, Turns, ActiveRec, Rounds
  <2> QED BY <1>1, <1>3, <2>1 DEF Open
<1> QED BY <1>6, <1>7, <1>8

\* What the end of req_info destructs is neither handled nor registered.
LEMMA LetGoMinded ==
    ASSUME MInv, LetGo
    PROVE  (\A d \in Conn : Minded(d)') /\ Silent' /\ Ignorable'
<1>1. IInv
  BY DEF MInv, HInv
<1>2. /\ UNCHANGED <<queue, batch, active, cur>>
      /\ \A d \in Conn : life'[d] = IF life[d] = "disconnected" THEN "closed" ELSE life[d]
      /\ \A d \in Conn : \/ /\ life'[d] = "closed" /\ http'[d] = NewHttp
                            /\ sock'[d] = NewSock /\ ep'[d] = NoEntry
                         \/ /\ life'[d] = life[d] /\ http'[d] = http[d]
                            /\ sock'[d] = sock[d] /\ ep'[d] = ep[d]
  BY <1>1, LetGoOf
<1>3. ~NoEntry.in
  BY DEF NoEntry
<1>4. ASSUME NEW d \in Conn PROVE Minded(d)'
  <2>1. CASE life'[d] = "closed" /\ ep'[d] = NoEntry
    <3>1. ~InHand(d)'
      BY <1>1, <1>2, <2>1, NoneAssumption DEF InHand, IInv, Rounds, Open
    <3> QED BY <1>3, <2>1, <3>1 DEF Minded, MaskOK, WaitsOK
  <2>2. CASE http'[d] = http[d] /\ sock'[d] = sock[d] /\ ep'[d] = ep[d]
    BY <1>2, <2>2, KeptMinded DEF MInv, Busy, InHand
  <2> QED BY <1>2, <2>1, <2>2
<1>5. Silent'
  BY <1>1, <1>2 DEF MInv, Silent, Queued, IInv, Queues, Waiting, Open
<1>6. Ignorable'
  <2> SUFFICES ASSUME NEW m \in Loop, NEW a \in active[m], Ignored(a.rev) PROVE sock'[a.c].rst
    BY <1>2 DEF Ignorable
  <2>1. a.c \in Conn /\ Open(a.c) /\ sock[a.c].rst
    BY <1>1 DEF MInv, Ignorable, IInv, Types, Turns, ActiveRec, Rounds
  <2> QED BY <1>2, <2>1 DEF Open
<1> QED BY <1>4, <1>5, <1>6

LEMMA MindedInductive == MInv /\ [Next]_vars => MInv'
<1> SUFFICES ASSUME MInv, [Next]_vars PROVE MInv'
  OBVIOUS
<1>1. HInv' /\ IInv
  BY HeardInductive DEF MInv, HInv
<1> DEFINE Goal == (\A d \in Conn : Minded(d)') /\ Silent' /\ Ignorable'
<1> HIDE DEF Goal
<1>2. ASSUME NEW c \in Conn, Accept(c) \/ Peer(c) \/ Lapse(c) PROVE Goal
  <2>1. CASE Lapse(c)
    BY <2>1, QuietMinded DEF Lapse, loops, Queued, Goal
  <2> QED BY <1>2, <2>1, AcceptsMinded, PeersMinded DEF Goal
<1>3. ASSUME NEW l \in Loop, LoopStep(l) PROVE Goal
  <2>1. CASE Close(l)
    <3>1. cur[l].phase # "none"
      BY <2>1 DEF Close, Handling
    <3>2. PICK c \in Conn : c = cur[l].c
      BY <1>1, <3>1, Handled
    <3> QED BY <1>1, <2>1, <3>2, CloseIsClosing, ClosingMinded DEF Goal
  <2>2. CASE HandleExpired(l)
    BY <1>1, <2>2, ExpiredIsClosing, ClosingMinded DEF Goal
  <2>3. CASE BatchDone(l) \/ ExpiredDone(l)
    <3>1. UNCHANGED <<life, http, sock, ep, queue, batch, active, cur>>
      BY <2>3 DEF BatchDone, ExpiredDone
    <3> QED BY <3>1, QuietMinded DEF Queued, Goal
  <2> QED BY <1>3, <2>1, <2>2, <2>3, PollsMinded, EventsMinded, ReadsMinded, RepliesMinded,
             WritesMinded, RearmsMinded, LingeringMinded, SwapsMinded, NewEventsMinded
          DEF LoopStep, Goal
<1>4. ASSUME LetGo \/ UNCHANGED vars PROVE Goal
  BY <1>4, LetGoMinded, QuietMinded DEF vars, loops, Queued, Goal
<1>5. Goal
  BY <1>2, <1>3, <1>4 DEF Next
<1> QED BY <1>1, <1>5 DEF MInv, Goal

LEMMA MindedInvariant == Spec => []MInv
<1>1. Init => MInv
  <2> SUFFICES ASSUME Init PROVE MInv
    OBVIOUS
  <2>1. IInv /\ Answered /\ Reported
    BY Initially DEF Init, Answered, Reported, NoCur
  <2>2. /\ \A c \in Conn : http[c] = NewHttp /\ sock[c] = NewSock /\ ep[c] = NoEntry
        /\ \A l \in Loop : cur[l] = NoCur /\ active[l] = {}
    BY DEF Init
  <2>3. \A c \in Conn : Minded(c)
    BY <2>2, NoneAssumption DEF Minded, MaskOK, WaitsOK, InHand, NoEntry, NoCur
  <2>4. Silent /\ Ignorable
    BY <2>2 DEF Silent, Ignorable, NewHttp
  <2> QED BY <2>1, <2>3, <2>4 DEF MInv, HInv
<1> QED BY <1>1, MindedInductive, PTL DEF Spec

(***************************************************************************)
(* Between two events the poller waits for what the connection needs, or   *)
(* has something to report: modfd, which asks only when the events differ  *)
(* from the last ones, never leaves a connection deaf.                     *)
(***************************************************************************)
THEOREM WaitsForWhatItNeeds == Spec => []InterestMatches
<1>1. MInv => InterestMatches
  BY DEF MInv, Minded, WaitsOK, InterestMatches, Reportable
<1> QED BY <1>1, MindedInvariant, PTL

-------------------------------------------------------------------------------
(* When a timer lapses.                                                    *)

\* The periods that have gone by at t.
Wraps(t) == (t \div 1000) \div Period

\* The clock is what is left of the time when the whole periods are taken away.
LEMMA ClockIsRest ==
    ASSUME NEW t \in Nat
    PROVE  /\ Wraps(t) \in Nat
           /\ Clock(t) \in Nat /\ Clock(t) < 10000000
           /\ t = 10000000 * Wraps(t) + Clock(t)
<1> DEFINE s == t \div 1000
           r == t % 1000
           w == s \div 10000
           q == s % 10000
<1>1. s \in Nat /\ r \in Nat /\ r < 1000 /\ t = 1000 * s + r
  BY SMT
<1> HIDE DEF s, r
<1>2. w \in Nat /\ q \in Nat /\ q < 10000 /\ s = 10000 * w + q
  BY <1>1, SMT
<1>3. Wraps(t) = w /\ Clock(t) = q * 1000 + r
  BY SMT DEF Wraps, Clock, Period, s, r
<1> HIDE DEF w, q
<1>4. t = 10000000 * w + (q * 1000 + r) /\ q * 1000 + r < 10000000
  BY <1>1, <1>2, SMT
<1> QED BY <1>1, <1>2, <1>3, <1>4, SMT

\* The clock never shows as much as a period.
LEMMA ClockInPeriod ==
    ASSUME NEW t \in Nat
    PROVE  Clock(t) \in Nat /\ Clock(t) < 10000000
<1>1. /\ Wraps(t) \in Nat
      /\ Clock(t) \in Nat /\ Clock(t) < 10000000
  BY ClockIsRest, SMT
<1> QED BY <1>1, SMT

(***************************************************************************)
(* Timer.cpp:29-39: no node lapses before its timeout has gone by, however *)
(* often the clock has started again since it was made: a connection is    *)
(* never closed too early.                                                 *)
(***************************************************************************)
THEOREM NeverEarly ==
    ASSUME NEW t \in Nat, NEW timeout \in Nat, NEW u \in Nat, u >= t,
           ~isValid(expiredTime(t, timeout), u)
    PROVE  u >= t + timeout
<1>1. Clock(u) >= Clock(t) + timeout
  BY ClockIsRest, SMT DEF isValid, expiredTime
<1>2. /\ Wraps(t) \in Nat /\ Clock(t) \in Nat /\ Clock(t) < 10000000
      /\ Wraps(u) \in Nat /\ Clock(u) \in Nat /\ Clock(u) < 10000000
      /\ t = 10000000 * Wraps(t) + Clock(t) /\ u = 10000000 * Wraps(u) + Clock(u)
  BY ClockIsRest, SMT
<1>3. Wraps(u) >= Wraps(t)
  BY <1>2, SMT
<1> QED BY <1>1, <1>2, <1>3, SMT

(***************************************************************************)
(* Within one period of the clock a node lapses as soon as its timeout has *)
(* gone by: what Connection has a timer do, which only knows whether its   *)
(* time has come.                                                          *)
(***************************************************************************)
THEOREM LapsesInTime ==
    ASSUME NEW t \in Nat, NEW timeout \in Nat, NEW u \in Nat,
           Wraps(u) = Wraps(t)
    PROVE  ~isValid(expiredTime(t, timeout), u) <=> u >= t + timeout
<1>1. /\ Wraps(t) \in Nat /\ Clock(t) \in Nat /\ Clock(u) \in Nat
      /\ t = 10000000 * Wraps(t) + Clock(t) /\ u = 10000000 * Wraps(t) + Clock(u)
  BY ClockIsRest, SMT
<1>2. Clock(u) >= Clock(t) + timeout <=> u >= t + timeout
  BY <1>1, SMT
<1> QED BY <1>1, <1>2, SMT DEF isValid, expiredTime

(***************************************************************************)
(* Timer.cpp:12: a node that is made so late in a period that its timeout  *)
(* reaches beyond it is valid for ever: the connection of an idle peer     *)
(* keeps its descriptor until something else closes it.                    *)
(***************************************************************************)
THEOREM NeverLapsesAcrossWrap ==
    ASSUME NEW t \in Nat, NEW timeout \in Nat, NEW u \in Nat,
           expiredTime(t, timeout) >= 10000000
    PROVE  isValid(expiredTime(t, timeout), u)
<1>1. Clock(u) \in Nat /\ Clock(u) < 10000000
  BY ClockInPeriod, SMT
<1>2. expiredTime(t, timeout) \in Nat
  BY ClockInPeriod, SMT DEF expiredTime
<1> QED BY <1>1, <1>2, SMT DEF isValid
===============================================================================
