# webserver-v1 in TLA+

This directory models the web servers of this repository in TLA+. TLC checks
the models on small instances, and TLAPS proves some of the results for all.
The paths below are under `src/`; `version3.0` is the current server and
`version2.0` an earlier one.

## The system

### version3.0: one loop per thread

The main thread accepts connections and hands each of them to one of the loops
of a pool, in turn. Each loop runs in a thread of its own, with its own epoll.
A line that any thread logs goes through an asynchronous back end.

| part | state | operations | what makes it correct |
|---|---|---|---|
| `net/EventLoop` | `pendingFunctors_` (under `mutex_`), the eventfd, `quit_`, `callingPendingFunctors_` | `loop`, `runInLoop`, `queueInLoop`, `quit`, `wakeup` | no wakeup is lost; functors run once and in order; `quit` ends the loop |
| `net/EpollPoller`, `net/Channel` | `fd2chan_`, `fd2http_`, a mask and `lastEvents_` per descriptor | `addfd`, `modfd`, `delfd`, `poll`, `handleEvents` | the tables only hold what the loop owns; the mask is what the connection waits for |
| `net/HttpData` | buffers, parser states, `error_`, `connectionState_`, `timer_`, references to itself | `newEvent`, `handleRead`, `handleWrite`, `handleConn`, `handleClose`, the destructor | no handler of a dead object; no leak; no response cut short; requests parsed whatever way they are cut |
| `net/Timer` | a heap of nodes that keep connections alive | `addTimer`, `clearReq`, `handleExpiredEvent` | one node per connection; what times out is closed |
| `Server`, `net/EventLoopThreadPool` | the listener, `next_` | `start`, `handNewConn`, `handThisConn`, `getNextLoop` | the listener is never deaf; no connection or descriptor lost between accept and loop; loops get their turns |
| `net/EventLoopThread` | `loop_` under a mutex | `startLoop`, `threadFunc`, the destructor | a loop is used only when its thread has published it |
| `base/AsyncLogging` | buffers passed between front end and back end under `mutex_`, `running_` | `append`, `threadFunc`, `start`, `stop` | buffers have one owner; lines are written once, in order |
| `base/Condition` and the other locks | | `wait`, `timewait`, `signal` | a timed wait waits |
| `base/Logging`, `LogStream`, `LogFile` | a line, a buffer, a file | formatting and writing | sequential |

The threads interact through the pending functors of a loop and its eventfd
(main thread to loop), through descriptor numbers (what one loop closes, the main thread
may get from the next `accept` and give to another loop), and through the
buffers of the log. Everything else belongs to one loop. What is hard: the
interleaving of a producer with the rounds of a loop; edge-triggered and
one-shot registrations, which report a change once; the lifetime of an
`HttpData`, which ends where its last reference goes; partial writes and half
closed connections; timers that run between events; bytes that come in pieces.

### version2.0: one thread for events, workers for requests

| part | state | operations | what makes it correct |
|---|---|---|---|
| `server.cpp` | `users`, `users_timer`, the listener, the pipe of the signals, `stop_server`, `timeout` | the loop of `start` with its five branches | every event gets to its handler; what closes a connection leaves no trace of it behind |
| `http/http_conn` | `m_sockfd`, buffers, `bytes_to_send`, `m_linger` | `init`, `read`, `process`, `write`, `close_conn` | one thread at a time; each handler renews the one-shot registration or closes |
| `timer/lst_timer` | a doubly linked list with `head` and `tail` | `add_timer`, `adjust_timer`, `del_timer`, `tick` | ascending, linked both ways, no deleted node in it |
| `threadpool/threadpool.h` | `m_workqueue`, `m_queuestat`, `m_max_requests` | `append`, `run` | as many requests as the semaphore says; none lost |
| `logger` | a file, its day and its count of lines under `m_mutex`; `block_queue`, a ring with a mutex and a condition of its own | `write_log`, `flush`, `async_write_log`, `push`, `pop`, `full` | every line is in one place; the ring is a FIFO without lost wakeups; what a call has written is on disk. `main.cpp:6` uses it synchronously |

The main thread accepts, reads and writes; workers parse requests and prepare
responses. They share the table of connections without a lock: a one-shot
registration keeps them apart. What is hard is that, timers of connections that
were closed on a hang-up and whose descriptor is in use again, a queue at its
limit, writes that end within a header, and a log that asks whether its queue is
full before it pushes.

`webbench-1.5` is a load generator by a third party.

PROJECT.json lists every part with what is modelled of it, and every hazard
with its line and the properties that would show it.

## Modules

A definition has the name of the code it stands for where it can; PROJECT.json
maps each one to its lines. The modules of MC runs only give values to
constants. A definition `A_x` under the comment "Slip" is a mistake that one
could make in `A`; it is there to show that a property notices it.

| module | what it models |
|---|---|
| `LoopContract` | what a loop promises: queued functors run once, in order, and in the end |
| `EventLoop` | one loop, the threads that queue functors on it or stop it, and what a callback may call; `Contract` is its refinement of `LoopContract` |
| `LogContract` | what the log promises: lines written once and in order, lost only under overload |
| `AsyncLogging` | front end and back end with their buffers as objects that pointers and vectors refer to; `Contract` is its refinement of `LogContract` |
| `Connection` | connections from accept to the destructor, over the loops of the pool: tables, timers, sockets, masks, handlers |
| `TimerClock` | the clock of version3.0's timers, which starts again every 10000 seconds |
| `HttpParser` | what the parser makes of a stream of requests that is cut into pieces |
| `Acceptor` | the start of the pool's threads, the listener, and the dealing of connections to loops |
| `TimerList` | version2.0: the operations on the list of timers, as operators on a record of links |
| `Proactor` | version2.0: main thread, workers, sockets, registrations, signals; its timers are in `TimerList` |
| `HttpWrite` | version2.0: what `http_conn::write` keeps of an answer between two calls of `writev` |
| `QueueContract` | what a blocking queue promises: a bounded FIFO that is emptied in the end |
| `Logger` | version2.0: the threads that log, the ring and the thread that empties it, the files; `Contract` is its refinement of `QueueContract` |
| `EventLoop_proofs`, `AsyncLogging_proofs`, `Connection_proofs`, `HttpParser_proofs`, `Acceptor_proofs`, `Proactor_proofs`, `Logger_proofs` | theorems about the module of that name; `Connection_proofs` also about `TimerClock`, `Proactor_proofs` about `HttpWrite` |
| `SequenceLemmas` | what the proofs use about sequences, their ranges and parts, iterations and `FlattenSeq` |

### EventLoop

Each critical section of `mutex_`, each system call and each access to `quit_`
is a step. `pc` is where the loop's thread is: it checks `quit_`, polls, handles
events, swaps the pending functors, runs them, and expires timers. `caller[t]`
says that a thread has queued a functor, or set `quit_`, and has not yet written
to the eventfd: this is the gap in which a wakeup could be lost. `edge` is what
an edge-triggered epoll remembers of the eventfd. A loop is quit by another
thread at most once, as by `~EventLoopThread`; a `quit` before `loop` has begun
is erased (line 85), so the properties speak of loops that have begun.

`NoLostWakeup`, `NoDeafQuit`, `ExactlyOnce` and `QuitReturns` are stated in the
module, with the comments that explain them. Refinement: `waiting` is the rest
of the batch followed by the pending functors, `done` is what was run.

### AsyncLogging

A buffer is an address; that two pointers are the same buffer is possible, and
`OneOwner` says that it does not happen. The back end is a loop of steps: the
critical section with its wait, the cut of a batch of more than `MaxBuffers`
(25 in the code) buffers, one write per buffer, and the recycling of two. The
deadline is what `Condition::timewait` passes on: an absolute time made of the
interval alone, which lies in 1970. So the wait returns at once, and a back end
with nothing to write goes round and round (`AsyncLogging.cpp:63`); `MayReturn`
has that. `AssertsHold` has the assertions of the code: they rest on the fact
that `nextBuffer_` is missing only while full buffers wait to be swapped out
(`NextIsMissed`, in the proofs).

### Connection

`life` is that of the `HttpData`: fresh, open, disconnected by `handleClose`, and
closed in the step that drops its last reference (`Held`: the `req_info` of the
main thread, a queued functor, `fd2http_`, or a timer node); its descriptor may
then be accepted again. `req_info` lives on in `handNewConn` after the functor
has been queued (`Server.cpp:69`): the loop may run `newEvent`, read the end of
the stream and finish `handleClose` before the main thread lets go (`LetGo`),
and the destructor then runs there. `NothingLingers` says that this is all that
can delay it. `sock` is the connection's socket, `ep`
its registration: `mask` is empty when a one-shot entry has fired, and `edge`
says that it is on the ready list. Each loop polls, handles the events of the
round, runs the functors it has swapped, and expires timers (`pc`); a handler
has phases (`cur`), between which a peer may send, shut down, reset or read.
What a request says is left to chance: parsing what was read may ask for more,
fail, finish a request, or finish one with more input behind it, which
`handleRead` handles by calling itself (unless the end of the stream came). Left out: the page that `handleError`
writes, the lengths of the timeouts (a timer is due or not), nodes that have
been emptied, and `EPOLL_CTL_MOD` failing. A queued functor and its wakeup are
one step, because `EventLoop` shows that the gap between the two does no harm;
`req_info` outlives both.

### HttpParser

Bytes are symbols; the method is two of them since the parser may lose the first
character of a request. `Arrive` is `readn`, with a piece of any length and,
with it or alone, the end of the stream (`connectionState_`); it also stands for
the `readn` of the `handleRead` that `handleRead` calls for what is left in the
buffer, which may find nothing new (`again`). After the end of the stream there
is no such call (line 256): a request that came in one piece with another, and
with the end, is neither answered nor refused, which is the exception of
`NothingPending`. `Stoi` is `stoi` of any text that a header can have; what it
throws nobody catches, and the process is `crashed`. `CrashesOnlyOnBadLength`
says that this takes a POST that was sent with such a length: an invalid length
ends the process, but no cut of valid requests does. Left out are errors of
reading, which `Connection` has, and the `handleRead` after the end of the
stream, which only clears a buffer that nobody reads again.

`ParseURI`, `ParseHeaders` (with `Scan`, which takes `Switch` from symbol to
symbol of the buffer), `ReceiveBody` and `Analyse` are the states of
`handleRead`. A header whose parts arrive separately makes the code read before
the start of a string, which is the symbol "junk". Every request of a stream has a header, because the parser does
not see the end of one without: it waits.

### Acceptor

`main` is where the main thread is: it starts the threads one by one (`start`,
`test` for the test of `loop_` under the mutex, `asleep` in the wait), polls,
accepts in the loop of `handNewConn`, and comes to `handThisConn` (`conn`). The
registration of the listener is in four variables: `events` and `last` of its
channel, `armed` for what epoll was told, and `edge`. Each way out of
`handNewConn` is an action: nothing left, `accept` failing, a connection handed over, one
refused for its number, one that cannot be made non-blocking. A loop of the pool
is a queue of `newEvent` functors, which `EventLoop` shows to be run. A failing
call is the exception that `ListenerHears` and `EveryPeerAnswered` make: after
it, `handNewConn` may leave peers in the backlog until another one comes
(line 37), or the listener without events (line 61).

### TimerList and Proactor

A list is a record of `head`, `tail` and the links of each timer; `Sound` is
what a list has to be. `Place` is the loop that looks for the place, a recursive
function over the links. The head insertion of `add_timer` leaves `head` as it is, as in
the code; it takes a clock that was set back, and in `Proactor` time goes on.

The main thread of `Proactor` polls, and handles the events of a round one at a
time, in any order; `Branch` is the order of the tests in `Server::start`, and
`Handling(e, b)` the entry to a branch. `reg` is the registration: `off` after
an event, until somebody calls `modfd`. `epoll_wait` reports what has to be
reported, and room in a socket's buffer whenever it likes. A client's requests
are pieces, of which "end" completes one; `process` may find a file, none, or a
bad request. Descriptor 0 is the standard input: the event of the
pipe is taken for that of a connection whose `m_sockfd` is 0, in a table of
zeros, and the input is closed. A later connection gets its number.

### Logger

Each critical section is a step of a writer: `Stamp` (the time, before the
mutex); `Rotate`, `Split` or `Stay` for another day, one line too many, and
neither; `Route`, the call of `full()` alone, with the mutex of the queue;
`Enqueue` or `Direct`; and `Flush`, the second half of a LOG macro. The
consumer has `Pop`, `Wait` and `WriteOut`. `stream` is what `fputs` has left in
the buffer of `m_fp`, and `file` what is on the disk. `lines`, `popped`, `lost`
and `seen` are histories. `push` may be refused although `full()` has said no,
and its answer is ignored: this is how a line gets `lost`, and
`LostOnlyByRace` says that there is no other way. The name of the next file of
a day is put together by a format with one `%s` more than there are strings
(`logger.cpp:101`); in `Split` the process ends there. A late writer of
yesterday rotates back to yesterday's file, as in the code.

### TimerClock and HttpWrite

Operators without a state: what `TimerNode` keeps and compares, for a time in
milliseconds; and the two vectors of an answer with the counters that `write`
updates, as offsets into the header and the file. What is said of them is in
`Connection_proofs` and in `Proactor_proofs`.

## Runs

| run | instance | shows |
|---|---|---|
| `event_loop` | 2 threads, 3 functors | the invariants, `QuitReturns`, and the refinement of `LoopContract` with its liveness |
| `async_log` | 9 lines, 2 to a buffer, batches cut above 3, 10 buffers | the invariants and the refinement of `LogContract` |
| `connection` | 2 connections on one loop | `OneTimer`, `NothingLingers`, `HandlersAlive`, `Watched`, `InterestMatches`, `NoTruncation` |
| `connection_reuse` | 2 connections on two loops, with one descriptor | `TablesAgree`, and `RequestsRead` under fairness |
| `connection_timeout` | 1 connection | violated: a connection that times out is closed (`README.md:5`); on an idle loop it is not |
| `connection_pending` | 1 connection | violated: pending data is sent before a connection is released (`README.md:245`); after a half-close it is not |
| `http_parser` | streams of up to 2 of 5 requests, or with a length that `stoi` may refuse; all cuts, the end of the stream anywhere | `Exact` for whole requests; `NoExtraAnswer`, `HeadersTrue`, `CrashesOnlyOnBadLength`, `NothingPending` for any cut |
| `http_pipeline` | the same | violated: pipelined requests are answered (`README.md:10`) |
| `acceptor` | 4 peers, 2 loops, 4 descriptors of which `MAXFDS` allows 2 | `LoopsPublished`, `ListenerHears`, `DescriptorsAccounted`, `Balanced`, and `EveryPeerAnswered` under fairness |
| `proactor` | 3 connections, 2 workers, 2 descriptors, a queue of 1 | `OneAtATime`, `TimersSound`, `EveryoneTimed` |
| `proactor_signals` | 1 connection | violated: the last branch of `start` handles signals (`server.cpp:103`); none comes to it |
| `logger` | 2 writers, a ring of 2, 4 lines, a split at the fourth, 2 days | `LinesAccounted`, `Durable`, `LostOnlyByRace`, and the refinement of `QueueContract` with its liveness |

Bounds. Three functors are one in the batch, one behind it and one that a
callback queues; the eventfd counter is bounded by the number of calls. Nine
lines fill more buffers than a batch may keep, so that lines are lost, and the
clock passes the deadline. Two connections on one loop meet in one round of
events, in one batch and among the expired; with two loops and one descriptor the
second can only be accepted when the first is closed, and it gets the other
loop. Peers send as often as they like. Two requests are enough for one to be
behind another in the buffer, and the requests have one or two headers, so that
cuts fall into a first header and into a later one. `IntMax` is 20, so that a
length of two digits may be too large; other lengths have a sign, a blank before
the digits, letters behind them, or no digit. Four peers are enough for
two rounds over two loops, and for one to be refused. Three connections of version2.0 are two at
once, of which one may be in the other's place in the list, and one that takes
over a descriptor and finds an old timer in the list; each sends one piece on a
clock of one step, which is enough for equal and for different deadlines. The pool
refuses a second request in its queue. Two writers and a ring of two: one of them
finds room, the other takes it; four lines go around the ring twice, and the
fourth splits the file; on two days a writer that was stamped before midnight
comes to a file that was opened after it. Deadlock is checked for
`EventLoop` only, which ends in a `Return` of the loop's thread or goes on by
events from outside; the log may be stopped or has no more lines, connections and peers are finite, and a
stream ends.

Fairness. A thread that can take a step takes it: the loop's thread while it is
not blocked in `epoll_wait`, a producer that has queued a functor and has not
yet written to the eventfd, the back end of the log, the consumer of version2.0's
queue while the process is alive. Nobody has to queue, log or
send anything. For `Connection` time passes, peers read in the end what was
sent to them, and a response is finite, so that one of its writes is its last:
strong fairness of the write that empties the buffer. The violated properties
of `Connection` are violated under all of that. `Acceptor` and `Proactor` only
have their threads scheduled: no peer has to come, no call to succeed.

## Proofs

`EventLoop_proofs` proves, for any sets of threads and functors:

- `TypeCorrect`: `Spec => []TypeOK`;
- `WakeupNotLost`, `QuitNotLost`, `RunsExactlyOnce`: the invariants
  `NoLostWakeup`, `NoDeafQuit` and `ExactlyOnce`;
- `ImplementsContractSafety`: every behaviour of the loop is one of
  `LoopContract`, without its liveness.

They follow from one inductive invariant, `IInv`: the types; `BatchOK`, which
ties `callingPendingFunctors_` and the local batch to the place in the loop (a
callback's `queueInLoop` decides by it whether to write to the eventfd, and a
swap overwrites a batch unless it is empty); the two wakeup invariants, each
inductive only with `BatchOK` and the types; and `ExactlyOnce` with the
finiteness of `sent`, as a count of three sequences. Each action has one step per conjunct
that it disturbs. The refinement uses `IInv` for the old and the new state: a
step of `RunFunctor` is `RunNext`, which needs the batch to be the front of
what waits; a swap is a stutter, which needs the old batch to be empty.

`Acceptor_proofs` proves every invariant of `Acceptor`, for any number of loops,
peers and descriptors (from `SizesAssumption` alone):

- `TypeCorrect`, `LoopsArePublished`, `ListenerNeverDeaf`, `NoDescriptorLost`,
  and `LoopsBalanced`, for `TypeOK`, `LoopsPublished`, `ListenerHears`,
  `DescriptorsAccounted`, and `Balanced`.

Its `IInv` has: the types; `StartOK` (the loops that are there are the first
ones, in order, and all of them when the server listens), which the types need
for `loops_[next_]`; `BacklogOK` and `QueueOK` (a peer in the backlog or in a queue is
there once and in that state), so that no step moves a peer out of another place;
`Hearing`, which says of each place of the main loop what `ListenerHears` says
of `epoll_wait`; `Owned`, injectivity instead of equal cardinalities; and `Turns`, the exact
number of connections of each loop by the position of `next_`. That a free
descriptor exists as a least one is `MinIsMember`, from the
well-foundedness of the naturals.

`AsyncLogging_proofs`, for any set of buffers and any sizes, from
`SizesAssumption`:

- `TypeCorrect`, `BuffersHaveOneOwner` and `AssertionsHold`, for `TypeOK`,
  `OneOwner` and `AssertsHold`;
- `ImplementsContractSafety`: every behaviour is one of `LogContract`, without
  its liveness.

No assertion of the back end follows from the pointers alone. The invariant has
the types in three parts, `BackOK` (what the vectors hold at each place of the
back end, and how long they are), `SparesEmpty` (a spare buffer has been reset),
`Apart` (the pointers and vectors as disjoint sets and injective sequences,
instead of a sum of lengths), and `NextIsMissed`, because of which the round that
finds `nextBuffer_` missing has two buffers to recycle.

The refinement maps the backlog of the contract to the lines of the batch that
are not written yet, of the full buffers and of the current buffer, in this
order. It needs a second invariant, `LogInv`: every line that is anywhere was
appended (`Numbered`, so that an appended one is new); buffers that nobody
refers to, and the next one, are empty (`Empties`, so that the buffer that
becomes current adds nothing); the full buffers are full, also in a batch that
is about to be cut (`Fills`, so that a cut happens only to a back end that is
overloaded, and spares the first two buffers whole); and how far the batch is
written (`Progress`). `FlattenAppend`, `FlattenConcat`, `FlattenRange` and
`FlattenLength` say what the lines of a sequence of buffers are. A write of a
buffer without lines and a cut that erases none are stutters.

`Connection_proofs`, for any number of connections, descriptors and loops:

- `TypeCorrect`, `TimersSingle`, `TablesCorrect`, `ClosedUnlessHeld`,
  `HandlersRunOnLiving`, `AllWatched`, for `TypeOK`, `OneTimer`, `TablesAgree`,
  `NothingLingers`, `HandlersAlive`, `Watched`;
- `NothingCutShort` for `NoTruncation`, and `WaitsForWhatItNeeds` for
  `InterestMatches`.

Their `IInv` follows a connection through its life: which places refer to it
(`Queues`, `Entries`, `OneTimer`, `Rounds`), that the tables of a loop agree
with the registration and with `loopOf` (`Tables`, `Descriptors`, `Places`),
and what each phase of a handler has done already (`Guarded`, `States`). The
parts need each other: that nothing lingers in the step of `handleClose` is
true, but for `req_info`, because no queue and no other loop refers to a
connection that is in the tables, and the tables are right because an entry is
taken out before the last reference goes. A connection that only `req_info` still
holds keeps its descriptor, but is in no table, queue or round. A step of a handler touches one connection of one loop; the
lemmas say once what such a step leaves alone, and each action then has to show
what it does to its own connection. `NothingCutShort` adds `Answered` and
`Reported`: when `handleConn` decides, what is still to be sent has asked for
room or has failed, because no event that is handled is empty. `WaitsForWhatItNeeds` adds `Minded`: the mask is
what `lastEvents_` says or has fired as a one-shot, and events that ask for room
stand for a response, or for room that has come and is on the ready list;
`Silent` (nothing is to be sent before the registration) and `Ignorable` (what
`handleEvents` drops is a reset connection).

`Proactor_proofs`, for any number of descriptors and workers and any limits:

- `TypeCorrect` and `OnePlace`, for `TypeOK` and `OneAtATime`;
- `TimersAlwaysSound` and `EachHasItsTimer`, for `TimersSound` and
  `EveryoneTimed`.

`OnePlace` is one formula per descriptor (`One`): of the round, the queue, a
worker and epoll, exactly one has it, unless the pool refused it. It needs that a
round has one event of a descriptor, that the queue repeats nothing and that no
two workers have the same connection. The types come after it (`TInv`):
`m_user_count` is the number of connections, less one when the event of the pipe
has been taken for the end of one, and so never below -1.

The list of timers is sound when there is a sequence without repetition that
its links follow both ways from `head` to `tail`, in ascending order, without
deleted nodes (`SoundList`). The operations are proved to keep that, with the
sequence that they make of the old one, in the setting of this server, where
what is set anew is due last of all: `Added` puts a timer at the end; `Deleted`
takes one out; `Adjusted` takes one that is put off out and puts it at the end,
or leaves it there. The walk of `add_timer_after` reaches the end since nothing
is due later than what is put off (`LatestPlace`). That is why the invariant has
`Nodes` beside the list: no node expires after `now + Lasts`, and one that is
not made yet has no links. `ListInv` says that there is a sequence of made
timers for which the list is sound, with the timer of every open connection in
it, and no two connections sharing one (`Timed`); the steps of a connection
disturb one of them.

`Logger_proofs`, for any writers and any size of the ring:

- `TypeCorrect`, `EveryLineAccounted`, `ReturnsWhenDurable`, `LosesOnlyByRace`,
  for `TypeOK`, `LinesAccounted`, `Durable`, `LostOnlyByRace`;
- `ImplementsQueueSafety`: every behaviour is one of `QueueContract`, without
  its liveness.

`RingOK` ties `m_back` to `m_front` and `m_size` modulo the size of the ring;
from it `PushAppends` and `PopTakes` say that a slot is not used twice.
`WriterOK` keeps the lines of writers apart, and `SeenOK` is what `full()`
saw: as long as nobody has pushed since, there is room. For `LinesAccounted` the
places are six predicates of which exactly one holds (`One`), and each list is
injective (`Distinct`).

What is only arithmetic is proved for all times, lengths and files:

- in `Connection_proofs`, `NeverEarly`, `LapsesInTime`, `NeverLapsesAcrossWrap`:
  a timer never lapses early; it lapses in time in the period of the clock that
  it was made in; and one whose timeout reaches beyond that period is valid for
  ever;
- in `Proactor_proofs`, `FirstWriteSafe`, `StaysInOrder`, `SkipsHeader`,
  `TwoShortWrites`: one short write is harmless; a call that ends within the
  header, at or beyond what was left of it when the call began, makes the next
  one skip the rest of it; two short writes are enough for that.

`HttpParser_proofs`, for any letters and any streams of requests, with any
number of headers of any text, cut into pieces in any way (from
`LettersAssumption`, that a letter is not one of the symbols that delimit, and
`StreamsAssumption`, that a stream is a sequence of `Request`s):

- `TypesCorrect`, `NoAnswerIsExtra`, `AnswersAreExact`, `HeadersAreTrue`,
  `CrashIsSent`, `NothingIsPending`, for every invariant of the run: `TypeOK`,
  `NoExtraAnswer`, `Exact`, `HeadersTrue`, `CrashesOnlyOnBadLength`,
  `NothingPending`.

None of them is inductive: what a step does depends on the text in the buffer.
`Window` says that the buffer and what is still to come are the end of the
stream, so that each symbol has a place in the request that is next (`Offset`),
and `Sizes`, `Seen` and `HeaderText` say which symbol has which place. `Turn`
says that the requests answered are the first ones, none of them a POST. `AtURI`,
`AtHEADERS` and `Past` give the place that the buffer may begin at in each
state of the parser: because of the symbol that the scan skips too many, a
request may be missed by one symbol on either side. `Whole` is what holds as
long as every piece is one request.

A scan of the headers stops wherever a piece ends, keeps `hState_`, and begins
anew at the line that it was in, without its marks. So `Tracked` follows a scan from
symbol to symbol: either it has ended in an error, or it is at the place in the
line that its state belongs to, with marks that are those of the line or, in a
line that an earlier scan has left, are lost. What is stored is then a header that was sent,
or has a key that no request has (`StaleText`: it is empty, or begins with "junk" or a line
end); `Content-length` is thus only found with its own value, and `stoi` throws only
if that was sent so. `TrackStep` does
this by a lemma for each state of `hState_`, and `ScanTracked` goes over the
whole scan. A POST without its length or with more body than that ends in
an error or leaves symbols that no request begins with; the invariants hold for
it too.

The provers have no induction rule that can be instantiated: the library's takes
an operator. What is proved about iterations (the walks of `TimerList`,
`FlattenSeq`, the scan of the parser) rests on `LeastMember`, that a set of naturals has a least member:
the first step at which a claim fails has one before it at which it holds
(`Iterated`, `UpTo`, `ByAppend` in `SequenceLemmas`).

Every invariant of a run that passes is also a theorem. Only model-checked are
liveness (`QuitReturns`, the liveness of the three contracts, `RequestsRead`,
`EveryPeerAnswered`), which rests on fairness and ENABLED, and that `EventLoop`
does not deadlock.

## Plan

Modelled, in this order: the loop and its contract, the log, the connections of
version3.0, their parser, the listener and the threads, the server of
version2.0, its log, and the arithmetic of the timers and of short writes. What
could follow:

1. the buffer of version2.0's parser, with requests in pieces, as `HttpParser`
   does it for version3.0;
2. the heap of `TimerManager`, with nodes whose order is wrong around a wrap of
   the clock.

## Not modelled

Formatting and files (sequential, nothing to interleave), MIME types and the
contents of responses, socket options, command line, and `webbench-1.5`. The
timer heap is a set of what is due; the clock behind it is `TimerClock`, which
`Connection` does not use: a timer there may become due at any time, or never
without fairness. An answer of `Proactor` is two writes; its bytes are in
`HttpWrite`. The ends of both programs are left out: nobody stops the main loop
of version3.0, and version2.0 does not hear SIGTERM. `sort_timer_lst::tick` and
`timer_handler` are never reached in version2.0, and `heaptimer` is only
declared. Of `block_queue`, what nobody calls is left out: `clear`, `front`,
`back`, and `pop` with a timeout. A first line without a
blank, after which version2.0's parser writes through the null pointer that
`strpbrk` has returned (`http_conn.cpp:147`), is left out of `Proactor`: it ends
the process, and with it every behaviour. Memory exhaustion is left out, and the
lack of descriptors except in `Acceptor`.
