----------------------------- MODULE AsyncLogging ------------------------------
(***************************************************************************)
(* The asynchronous log of version3.0 (base/AsyncLogging.cpp): any thread  *)
(* appends a line to the current buffer; one back-end thread swaps the     *)
(* full buffers out, together with the current one, writes them to the     *)
(* file and recycles two of them.  A buffer is an object on the heap that  *)
(* four pointers and two vectors refer to; a pointer is a member of Buffer *)
(* or Null, so that two of them may be the same buffer.                    *)
(*                                                                         *)
(* Lines are numbered in the order of the calls of append (the order in    *)
(* which they get mutex_), and have length 1; a buffer has room for        *)
(* BufferSize - 1 of them, because append tests avail() > len.  A critical *)
(* section of mutex_ is one step, except that timewait gives the mutex up  *)
(* in the middle of one.  running_ is a plain bool: each access is a step. *)
(*                                                                         *)
(* A definition A_x that follows the comment "Slip" is A with a plausible  *)
(* mistake; no specification uses it.  Putting it in A's place shows that  *)
(* a property notices the mistake.                                         *)
(***************************************************************************)
EXTENDS Naturals, Sequences, FiniteSets, SequencesExt

CONSTANTS Buffer,               \* the addresses of buffers
          Null,
          BufferSize,           \* kLargeBuffer
          MaxBuffers,           \* 25: a longer batch is cut down to two buffers
          FlushInterval,        \* flushInterval_, in seconds
          BootTime,             \* the time of day (CLOCK_REALTIME) at the start
          MaxLines,             \* bound: lines appended
          MaxTime               \* bound: the clock

Kept == 2                       \* buffers that survive the cut, and are recycled

\* The first allocations succeed.
ASSUME BufferAssumption == /\ Null \notin Buffer
                           /\ \E s \in [1 .. 4 -> Buffer] : IsInjective(s)
ASSUME SizeAssumption == /\ BufferSize \in Nat /\ BufferSize >= 2
                         /\ MaxBuffers \in Nat /\ MaxBuffers >= Kept
ASSUME TimeAssumption == /\ FlushInterval \in Nat /\ BootTime \in Nat
                         /\ BootTime > FlushInterval
                         /\ MaxLines \in Nat /\ MaxTime \in Nat

VARIABLES
    data,                       \* the lines in each buffer
    currentBuffer, nextBuffer,  \* the front end's pointers, guarded by mutex_
    buffers,                    \* full buffers, guarded by mutex_
    newBuffer1, newBuffer2,     \* the back end's spare buffers, local to its thread
    buffersToWrite,             \* the batch being written, local too
    written,                    \* how many buffers of the batch are in the file
    running,                    \* running_
    latch,                      \* the count of latch_
    pc,                         \* where the back end is
    signalled,                  \* cond_ was signalled since the back end began to wait
    now,                        \* the time of day
    appended,                   \* history: the lines appended are 1 .. appended
    file,                       \* history: the lines written, in order
    lost                        \* history: the lines in buffers erased unwritten

front == <<currentBuffer, nextBuffer, buffers, appended>>
back == <<newBuffer1, newBuffer2, buffersToWrite, written, pc, file, lost>>
vars == <<data, front, back, running, latch, signalled, now>>

\* begin: the thread has started; check: the while condition; top: the asserts,
\* and the lock; waiting: in timewait; swapped: after the critical section;
\* write: the loop over the batch; recycle: the rest of the round.
Place == {"begin", "check", "top", "waiting", "swapped", "write", "recycle", "exited"}

Pointers == {currentBuffer, nextBuffer, newBuffer1, newBuffer2}
InUse == (Pointers \ {Null}) \cup Range(buffers) \cup Range(buffersToWrite)
Free == Buffer \ InUse
\* new Buffer.
Fresh == CHOOSE b \in Free : TRUE

\* The first two allocations are the constructor's; the back end makes the
\* others before its loop.
Init ==
    LET b1 == CHOOSE b \in Buffer : TRUE
        b2 == CHOOSE b \in Buffer \ {b1} : TRUE
        b3 == CHOOSE b \in Buffer \ {b1, b2} : TRUE
        b4 == CHOOSE b \in Buffer \ {b1, b2, b3} : TRUE
    IN  /\ data = [b \in Buffer |-> <<>>]
        /\ currentBuffer = b1 /\ nextBuffer = b2 /\ buffers = <<>>
        /\ newBuffer1 = b3 /\ newBuffer2 = b4
        /\ buffersToWrite = <<>> /\ written = 0
        /\ running = TRUE /\ latch = 1 /\ pc = "begin"
        /\ signalled = FALSE /\ now = BootTime
        /\ appended = 0 /\ file = <<>> /\ lost = {}

-------------------------------------------------------------------------------
(* The front end.                                                          *)

Avail(b) == BufferSize - Len(data[b])

\* FixedBuffer::append: a line that does not fit is dropped.
Appended(d, b, line) == IF BufferSize - Len(d[b]) > 1
                        THEN [d EXCEPT ![b] = Append(@, line)] ELSE d

\* append: the current buffer goes to the full ones and the next one, or a new
\* one, takes its place.
AppendFits ==
    /\ latch = 0
    /\ appended < MaxLines
    /\ Avail(currentBuffer) > 1
    /\ data' = Appended(data, currentBuffer, appended + 1)
    /\ appended' = appended + 1
    /\ UNCHANGED <<currentBuffer, nextBuffer, buffers, back, running, latch, signalled, now>>

\* Slip: the next buffer is copied, not moved.
AppendRotates_Copies ==
    /\ latch = 0
    /\ appended < MaxLines
    /\ Avail(currentBuffer) <= 1
    /\ nextBuffer = Null => Free # {}
    /\ buffers' = Append(buffers, currentBuffer)
    /\ currentBuffer' = IF nextBuffer # Null THEN nextBuffer ELSE Fresh
    /\ data' = Appended(data, currentBuffer', appended + 1)
    /\ appended' = appended + 1
    /\ signalled' = TRUE
    /\ UNCHANGED <<nextBuffer, back, running, latch, now>>

AppendRotates ==
    /\ latch = 0
    /\ appended < MaxLines
    /\ Avail(currentBuffer) <= 1
    /\ nextBuffer = Null => Free # {}
    /\ buffers' = Append(buffers, currentBuffer)
    /\ currentBuffer' = IF nextBuffer # Null THEN nextBuffer ELSE Fresh
    /\ nextBuffer' = Null
    /\ data' = Appended(data, currentBuffer', appended + 1)
    /\ appended' = appended + 1
    /\ signalled' = TRUE
    /\ UNCHANGED <<back, running, latch, now>>

\* stop(), up to the join: running_ = false, outside the mutex, and a signal.
Stop ==
    /\ latch = 0
    /\ running
    /\ running' = FALSE
    /\ signalled' = TRUE
    /\ UNCHANGED <<data, front, back, latch, now>>

Tick == /\ now < MaxTime
        /\ now' = now + 1
        /\ UNCHANGED <<data, front, back, running, latch, signalled>>

-------------------------------------------------------------------------------
(* The back end's thread.                                                  *)

\* Slip: the latch counts up.
Begin_CountsUp ==
    /\ pc = "begin"
    /\ latch' = latch + 1
    /\ pc' = "check"
    /\ UNCHANGED <<data, front, newBuffer1, newBuffer2, buffersToWrite, written,
                   file, lost, running, signalled, now>>

Begin ==
    /\ pc = "begin"
    /\ latch' = 0
    /\ pc' = "check"
    /\ UNCHANGED <<data, front, newBuffer1, newBuffer2, buffersToWrite, written,
                   file, lost, running, signalled, now>>

Check ==
    /\ pc = "check"
    /\ pc' = IF running THEN "top" ELSE "exited"
    /\ UNCHANGED <<data, front, newBuffer1, newBuffer2, buffersToWrite, written,
                   file, lost, running, latch, signalled, now>>

\* cond_.timewait(flushInterval_), which gives the mutex up.
Wait ==
    /\ pc = "top"
    /\ buffers = <<>>
    /\ signalled' = FALSE
    /\ pc' = "waiting"
    /\ UNCHANGED <<data, front, newBuffer1, newBuffer2, buffersToWrite, written, file,
                   lost, running, latch, now>>

\* pthread_cond_timedwait returns when it is signalled or when the clock has
\* reached the absolute time it was given: timewait gives it the interval.
Deadline == FlushInterval
\* Slip: wait() in place of timewait().
MayReturn_Signal == signalled
MayReturn == signalled \/ now >= Deadline

SwapFrom == \/ pc = "top" /\ buffers # <<>>
            \/ pc = "waiting" /\ MayReturn

\* Slip: the test of nextBuffer_ left out.
Swap_NoTest ==
    /\ SwapFrom
    /\ buffersToWrite' = Append(buffers, currentBuffer)
    /\ buffers' = <<>>
    /\ currentBuffer' = newBuffer1
    /\ newBuffer1' = Null
    /\ nextBuffer' = newBuffer2
    /\ newBuffer2' = Null
    /\ pc' = "swapped"
    /\ UNCHANGED <<data, appended, written, file, lost, running, latch,
                   signalled, now>>

\* The rest of the critical section.
Swap ==
    /\ SwapFrom
    /\ buffersToWrite' = Append(buffers, currentBuffer)
    /\ buffers' = <<>>
    /\ currentBuffer' = newBuffer1
    /\ newBuffer1' = Null
    /\ nextBuffer' = IF nextBuffer = Null THEN newBuffer2 ELSE nextBuffer
    /\ newBuffer2' = IF nextBuffer = Null THEN Null ELSE newBuffer2
    /\ pc' = "swapped"
    /\ UNCHANGED <<data, appended, written, file, lost, running, latch,
                   signalled, now>>

\* The lines in the buffers of a sequence, as a set, and buffers emptied.
LinesOf(s) == UNION {Range(data[s[i]]) : i \in DOMAIN s}
Emptied(bs) == [b \in Buffer |-> IF b \in bs THEN <<>> ELSE data[b]]

\* A batch that is too long loses all but its first two buffers.
Cut ==
    /\ pc = "swapped"
    /\ written' = 0
    /\ pc' = "write"
    /\ IF Len(buffersToWrite) > MaxBuffers
       THEN LET erased == SubSeq(buffersToWrite, Kept + 1, Len(buffersToWrite))
            IN  /\ buffersToWrite' = SubSeq(buffersToWrite, 1, Kept)
                /\ lost' = lost \cup LinesOf(erased)
                /\ data' = Emptied(Range(erased))
       ELSE UNCHANGED <<buffersToWrite, lost, data>>
    /\ UNCHANGED <<front, newBuffer1, newBuffer2, file, running, latch,
                   signalled, now>>

\* output.append of the next buffer of the batch.
Write ==
    /\ pc = "write"
    /\ written < Len(buffersToWrite)
    /\ file' = file \o data[buffersToWrite[written + 1]]
    /\ written' = written + 1
    /\ UNCHANGED <<data, front, newBuffer1, newBuffer2, buffersToWrite, pc, lost, running, latch, signalled, now>>

\* resize(2): what is beyond goes back to the heap.
Written ==
    /\ pc = "write"
    /\ written = Len(buffersToWrite)
    /\ pc' = "recycle"
    /\ buffersToWrite' = IF Len(buffersToWrite) > Kept
                         THEN SubSeq(buffersToWrite, 1, Kept) ELSE buffersToWrite
    /\ data' = Emptied(Range(SubSeq(buffersToWrite, Kept + 1, Len(buffersToWrite))))
    /\ UNCHANGED <<front, newBuffer1, newBuffer2, written, file, lost, running,
                   latch, signalled, now>>

\* The spare buffers are taken back from the end of what is left of the batch.
Recycle ==
    /\ pc = "recycle"
    /\ LET n == Len(buffersToWrite)
           m == IF newBuffer1 = Null THEN n - 1 ELSE n
       IN  /\ newBuffer1' = IF newBuffer1 = Null THEN buffersToWrite[n] ELSE newBuffer1
           /\ newBuffer2' = IF newBuffer2 = Null THEN buffersToWrite[m] ELSE newBuffer2
    /\ buffersToWrite' = <<>>
    /\ data' = Emptied(Range(buffersToWrite))
    /\ written' = 0
    /\ pc' = "check"
    /\ UNCHANGED <<front, file, lost, running, latch, signalled, now>>

-------------------------------------------------------------------------------
AppendLine == AppendFits \/ AppendRotates

BackStep == Begin \/ Check \/ Wait \/ Swap \/ Cut \/ Write \/ Written \/ Recycle

Next == AppendLine \/ Stop \/ Tick \/ BackStep

Spec == Init /\ [][Next]_vars

\* The back end's thread is scheduled; nothing else has to happen.
FairSpec == Spec /\ WF_vars(BackStep)

-------------------------------------------------------------------------------
TypeOK ==
    /\ data \in [Buffer -> Seq(1 .. MaxLines)]
    /\ currentBuffer \in Buffer
    /\ nextBuffer \in Buffer \cup {Null}
    /\ newBuffer1 \in Buffer \cup {Null}
    /\ newBuffer2 \in Buffer \cup {Null}
    /\ buffers \in Seq(Buffer)
    /\ buffersToWrite \in Seq(Buffer)
    /\ written \in Nat
    /\ running \in BOOLEAN /\ signalled \in BOOLEAN
    /\ latch \in {0, 1}
    /\ pc \in Place
    /\ now \in Nat
    /\ appended \in 0 .. MaxLines
    /\ file \in Seq(1 .. MaxLines)
    /\ lost \in SUBSET (1 .. MaxLines)

(***************************************************************************)
(* The assertions of threadFunc, which are compiled in: at the top of the  *)
(* loop the back end has two empty spare buffers and no batch; after the   *)
(* critical section it has a batch; and the batch has the buffers that the *)
(* two pops take from it.                                                  *)
(***************************************************************************)
AssertsHold ==
    /\ pc = "begin" => running
    /\ pc = "top" => /\ newBuffer1 # Null /\ data[newBuffer1] = <<>>
                     /\ newBuffer2 # Null /\ data[newBuffer2] = <<>>
                     /\ buffersToWrite = <<>>
    /\ pc = "swapped" => buffersToWrite # <<>>
    /\ pc = "recycle" =>
          LET missing == {i \in {1, 2} : <<newBuffer1, newBuffer2>>[i] = Null}
          IN  Len(buffersToWrite) >= Cardinality(missing)

(***************************************************************************)
(* Every buffer has one owner: no two of the front end's pointers, the     *)
(* full buffers, the spare buffers and the batch are the same object.  The *)
(* front end fills its current buffer while the back end reads its batch   *)
(* and empties its spare buffers, all of that without the mutex.           *)
(***************************************************************************)
OneOwner ==
    LET p == <<currentBuffer, nextBuffer, newBuffer1, newBuffer2>>
    IN  /\ \A i, j \in 1 .. 4 : p[i] = p[j] /\ p[i] # Null => i = j
        /\ IsInjective(buffers) /\ IsInjective(buffersToWrite)
        /\ Range(buffers) \cap Range(buffersToWrite) = {}
        /\ Pointers \cap (Range(buffers) \cup Range(buffersToWrite)) = {}

-------------------------------------------------------------------------------
\* The lines in a sequence of buffers, in order.
Contents(d, s) == FlattenSeq([i \in DOMAIN s |-> d[s[i]]])

\* A buffer that was written is still in the batch until it is recycled.
Unwritten == IF pc \in {"swapped", "write"}
             THEN SubSeq(buffersToWrite, written + 1, Len(buffersToWrite)) ELSE <<>>

Backlog == Contents(data, Unwritten) \o Contents(data, buffers) \o data[currentBuffer]

\* The back end falls behind by MaxBuffers buffers, all of them full but the last.
Contract == INSTANCE LogContract
            WITH Line     <- 1 .. MaxLines,
                 Overload <- MaxBuffers * (BufferSize - 1),
                 Safe     <- Kept * (BufferSize - 1),
                 backlog  <- Backlog,
                 open     <- running

(***************************************************************************)
(* The log implements its contract: lines reach the file once and in       *)
(* order, only an overloaded back end loses any, and each line is settled  *)
(* while the log is running, even if no other line follows it.             *)
(***************************************************************************)
ImplementsContract == Contract!Spec
================================================================================
