-------------------------------- MODULE Logger ---------------------------------
(***************************************************************************)
(* The log of version2.0 (logger/): any thread writes a line, either       *)
(* straight to the file, or into a blocking queue from which one thread    *)
(* takes it and writes it.  The queue is a ring of slots with a mutex and  *)
(* a condition variable of its own; the file, its day and its count of     *)
(* lines are under the mutex of the logger.                                *)
(*                                                                         *)
(* A critical section is one step.  A line is a number, a new one for each *)
(* call of write_log, and 0 stands for no line.  m_buf is left out: a      *)
(* line is put together in it and copied from it under one hold of the     *)
(* mutex.  A file is known by its day, whatever it is called, and can be   *)
(* opened.  What fputs has written is in the buffer of the stream until    *)
(* fflush or fclose.  Of the queue there are the operations that the       *)
(* logger calls.                                                           *)
(*                                                                         *)
(* A definition A_x that follows the comment "Slip" is A with a plausible  *)
(* mistake; no specification uses it.  Putting it in A's place shows that  *)
(* a property notices the mistake.                                         *)
(***************************************************************************)
EXTENDS Integers, Sequences, FiniteSets, Functions

CONSTANTS Writer,               \* the threads that log
          MaxQueue,             \* m_max_size
          SplitLines,           \* m_split_lines
          MaxLines,             \* bound: lines logged
          MaxDay                \* bound: the calendar

ASSUME SizesAssumption == /\ MaxQueue \in Nat \ {0} /\ SplitLines \in Nat \ {0}
                          /\ MaxLines \in Nat /\ MaxDay \in Nat \ {0}

Line == 1 .. MaxLines
NoLine == 0
Day == 1 .. MaxDay
Slot == 0 .. MaxQueue - 1

VARIABLES
    m_is_async,
    m_array, m_size, m_front, m_back,   \* the queue
    m_today, m_count,                   \* the day and the lines of the open file
    stream,                             \* lines in the buffer of m_fp
    file,                               \* lines on the disk, by the day of their file
    today,                              \* the calendar
    pc, line, day,                      \* where each writer is, its line, and the day it read
                                        \* (1 when it is done with it)
    cpc, sinlge_log,                    \* where the consumer is, and the line it has taken
    dead,                               \* the process has crashed
    lines,                              \* history: the lines logged are 1 .. lines
    popped,                             \* history: the lines taken from the queue
    lost,                               \* history: the lines that push refused
    seen                                \* history: pushes so far, when the writer asked full()

queue == <<m_array, m_size, m_front, m_back, popped>>
disk == <<m_today, m_count, stream, file>>
consumer == <<cpc, sinlge_log>>
vars == <<m_is_async, queue, disk, today, pc, line, day, consumer, dead, lines, lost, seen>>

Init == /\ m_is_async \in BOOLEAN
        /\ m_array = [i \in Slot |-> NoLine]
        /\ m_size = 0 /\ m_front = -1 /\ m_back = -1
        /\ m_today = 1 /\ m_count = 0
        /\ stream = <<>>
        /\ file = [d \in Day |-> <<>>]
        /\ today = 1
        /\ pc = [w \in Writer |-> "idle"]
        /\ line = [w \in Writer |-> NoLine]
        /\ day = [w \in Writer |-> 1]
        /\ cpc = IF m_is_async THEN "pop" ELSE "none"
        /\ sinlge_log = NoLine
        /\ dead = FALSE
        /\ lines = 0
        /\ popped = <<>>
        /\ lost = {}
        /\ seen = [w \in Writer |-> 0]

-------------------------------------------------------------------------------
(* The file.                                                               *)

\* fputs, and fflush, which fclose calls too.
Fputs(l) == stream' = Append(stream, l) /\ UNCHANGED <<m_today, m_count, file>>
Fflush == /\ file' = [file EXCEPT ![m_today] = @ \o stream]
          /\ stream' = <<>>

-------------------------------------------------------------------------------
(* The queue.                                                              *)

Succ(i) == (i + 1) % MaxQueue

Pushes == Len(popped) + m_size

\* Slips: the index grows beyond the ring; the waiting consumer is not woken.
Push_NoWrap(l) ==
    IF m_size >= MaxQueue THEN UNCHANGED <<queue, cpc>>
    ELSE /\ m_back' = m_back + 1
         /\ m_array' = [i \in Slot \cup {m_back'} |-> IF i = m_back' THEN l ELSE m_array[i]]
         /\ m_size' = m_size + 1
         /\ cpc' = IF cpc = "waiting" THEN "pop" ELSE cpc
         /\ UNCHANGED <<m_front, popped>>
Push_Silent(l) ==
    IF m_size >= MaxQueue THEN UNCHANGED <<queue, cpc>>
    ELSE /\ m_back' = Succ(m_back)
         /\ m_array' = [m_array EXCEPT ![m_back'] = l]
         /\ m_size' = m_size + 1
         /\ UNCHANGED <<m_front, popped, cpc>>

\* push: both ways it broadcasts, but nobody waits on a full queue.
Push(l) ==
    IF m_size >= MaxQueue THEN UNCHANGED <<queue, cpc>>
    ELSE /\ m_back' = Succ(m_back)
         /\ m_array' = [m_array EXCEPT ![m_back'] = l]
         /\ m_size' = m_size + 1
         /\ cpc' = IF cpc = "waiting" THEN "pop" ELSE cpc
         /\ UNCHANGED <<m_front, popped>>

-------------------------------------------------------------------------------
(* write_log and flush, in the thread w.                                   *)

\* Everything that a step of a writer is, but for the file and the queue.
Goes(w, from, to) == /\ pc[w] = from
                     /\ pc' = [pc EXCEPT ![w] = to]
                     /\ UNCHANGED <<m_is_async, today, sinlge_log>>

\* gettimeofday and localtime, before the mutex.
Stamp(w) == /\ pc[w] = "idle"
            /\ lines < MaxLines
            /\ lines' = lines + 1
            /\ line' = [line EXCEPT ![w] = lines']
            /\ day' = [day EXCEPT ![w] = today]
            /\ pc' = [pc EXCEPT ![w] = "rotate"]
            /\ UNCHANGED <<m_is_async, queue, disk, today, consumer, dead, lost, seen>>

Splits == (m_count + 1) % SplitLines = 0

\* The first critical section: a line of another day closes the file, and opens
\* that of its day.
Rotate(w) == /\ Goes(w, "rotate", "route")
             /\ day[w] # m_today
             /\ Fflush
             /\ m_today' = day[w]
             /\ m_count' = 0
             /\ day' = [day EXCEPT ![w] = 1]
             /\ UNCHANGED <<queue, cpc, line, dead, lines, lost, seen>>

\* One line too many closes it as well, and the name of the next file is put
\* together by a format that takes a number for the address of a string.
Split(w) == /\ Goes(w, "rotate", "route")
            /\ day[w] = m_today /\ Splits
            /\ Fflush
            /\ m_count' = m_count + 1
            /\ dead' = TRUE
            /\ UNCHANGED <<m_today, queue, cpc, line, day, lines, lost, seen>>

Stay(w) == /\ Goes(w, "rotate", "route")
           /\ day[w] = m_today /\ ~Splits
           /\ m_count' = m_count + 1
           /\ day' = [day EXCEPT ![w] = 1]
           /\ UNCHANGED <<m_today, stream, file, queue, cpc, line, dead, lines, lost, seen>>

\* Slip: full() is not asked.
Fits_Always == m_is_async

Fits == m_is_async /\ m_size < MaxQueue

\* The line is complete; the question which way it goes, with the mutex of the
\* queue held for full() alone.
Route(w) == /\ Goes(w, "route", IF Fits THEN "push" ELSE "direct")
            /\ seen' = [seen EXCEPT ![w] = Pushes]
            /\ UNCHANGED <<queue, disk, cpc, line, day, dead, lines, lost>>

Enqueue(w) == /\ Goes(w, "push", "flush")
              /\ Push(line[w])
              /\ lost' = IF m_size >= MaxQueue THEN lost \cup {line[w]} ELSE lost
              /\ UNCHANGED <<disk, line, day, dead, lines, seen>>

Direct(w) == /\ Goes(w, "direct", "flush")
             /\ Fputs(line[w])
             /\ UNCHANGED <<queue, cpc, line, day, dead, lines, lost, seen>>

\* Slip: the macros do not flush.
Flush_Not(w) == /\ Goes(w, "flush", "idle")
                /\ line' = [line EXCEPT ![w] = NoLine]
                /\ seen' = [seen EXCEPT ![w] = 0]
                /\ UNCHANGED <<disk, queue, cpc, day, dead, lines, lost>>

Flush(w) == /\ Goes(w, "flush", "idle")
            /\ Fflush
            /\ line' = [line EXCEPT ![w] = NoLine]
            /\ seen' = [seen EXCEPT ![w] = 0]
            /\ UNCHANGED <<m_today, m_count, queue, cpc, day, dead, lines, lost>>

-------------------------------------------------------------------------------
(* async_write_log, in the thread that init has created.                   *)

\* Slip: the slot is read before the index is moved, as front() does.
Taken_Before == m_array[IF m_front < 0 THEN 0 ELSE m_front]

Taken == m_array[Succ(m_front)]

Pop == /\ cpc = "pop"
       /\ m_size > 0
       /\ m_front' = Succ(m_front)
       /\ sinlge_log' = Taken
       /\ m_size' = m_size - 1
       /\ cpc' = "write"
       /\ popped' = Append(popped, Taken)
       /\ UNCHANGED <<m_is_async, m_array, m_back, disk, today, pc, line, day, dead, lines, lost,
                      seen>>

Wait == /\ cpc = "pop"
        /\ m_size <= 0
        /\ cpc' = "waiting"
        /\ UNCHANGED <<m_is_async, queue, disk, today, pc, line, day, sinlge_log, dead, lines,
                       lost, seen>>

\* pthread_cond_wait may return without a broadcast.
Spurious == /\ cpc = "waiting"
            /\ cpc' = "pop"
            /\ UNCHANGED <<m_is_async, queue, disk, today, pc, line, day, sinlge_log, dead, lines,
                           lost, seen>>

WriteOut == /\ cpc = "write"
            /\ Fputs(sinlge_log)
            /\ sinlge_log' = NoLine
            /\ cpc' = "pop"
            /\ UNCHANGED <<m_is_async, queue, today, pc, line, day, dead, lines, lost, seen>>

-------------------------------------------------------------------------------
Midnight == /\ today < MaxDay
            /\ today' = today + 1
            /\ UNCHANGED <<m_is_async, queue, disk, pc, line, day, consumer, dead, lines, lost,
                           seen>>

WriterStep(w) == \/ Stamp(w) \/ Rotate(w) \/ Split(w) \/ Stay(w) \/ Route(w)
                 \/ Enqueue(w) \/ Direct(w) \/ Flush(w)

ConsumerStep == Pop \/ Wait \/ WriteOut

Next == /\ ~dead
        /\ \/ \E w \in Writer : WriterStep(w)
           \/ ConsumerStep \/ Spurious \/ Midnight

Spec == Init /\ [][Next]_vars

\* The consumer's thread is scheduled; nobody has to log.
FairSpec == Spec /\ WF_vars(~dead /\ ConsumerStep)

-------------------------------------------------------------------------------
\* The items of the queue, from the one that pop takes next.
Ring == [i \in 1 .. m_size |-> m_array[(m_front + i) % MaxQueue]]

TypeOK ==
    /\ m_is_async \in BOOLEAN /\ dead \in BOOLEAN
    /\ m_array \in [Slot -> Line \cup {NoLine}]
    /\ m_size \in 0 .. MaxQueue
    /\ m_front \in Slot \cup {-1} /\ m_back \in Slot \cup {-1}
    /\ m_today \in Day /\ today \in Day
    /\ m_count \in Nat
    /\ stream \in Seq(Line)
    /\ file \in [Day -> Seq(Line)]
    /\ pc \in [Writer -> {"idle", "rotate", "route", "push", "direct", "flush"}]
    /\ line \in [Writer -> Line \cup {NoLine}]
    /\ day \in [Writer -> Day]
    /\ cpc \in {"none", "pop", "waiting", "write"}
    /\ sinlge_log \in Line \cup {NoLine}
    /\ lines \in 0 .. MaxLines
    /\ popped \in Seq(Line)
    /\ lost \in SUBSET Line
    /\ seen \in [Writer -> Nat]

(***************************************************************************)
(* Every line that was logged is in one place and there once: with its     *)
(* writer, in the queue, with the consumer, in the buffer of the stream,   *)
(* in one of the files, or lost.  The ring never gives a slot to a second  *)
(* line before the first is out, and a rotation takes the buffer of the    *)
(* stream to the file that it closes.                                      *)
(***************************************************************************)
Holds(w) == pc[w] \in {"rotate", "route", "push", "direct"}

Places(l) == {<<"writer", w>> : w \in {v \in Writer : Holds(v) /\ line[v] = l}}
             \cup {<<"queue", i>> : i \in {j \in 1 .. m_size : Ring[j] = l}}
             \cup {<<"consumer">> : x \in {1} \cap {y \in {1} : sinlge_log = l}}
             \cup {<<"stream", i>> : i \in {j \in DOMAIN stream : stream[j] = l}}
             \cup (UNION {{<<"file", d, i>> : i \in {j \in DOMAIN file[d] : file[d][j] = l}}
                             : d \in Day})
             \cup {<<"lost">> : x \in lost \cap {l}}

LinesAccounted == \A l \in 1 .. lines : \E p \in Places(l) : Places(l) = {p}

(***************************************************************************)
(* A line is lost only if another thread has pushed one after full() was   *)
(* asked for it, which write_log does before and apart from push: a queue  *)
(* that is full already sends the line straight to the file, and a thread  *)
(* that logs alone loses nothing.                                          *)
(***************************************************************************)
LostOnlyByRace ==
    [][\A w \in Writer : line[w] \in lost' \ lost => seen[w] < Pushes]_vars

(***************************************************************************)
(* What is still in the buffer of the stream, and would be missing if the  *)
(* server were killed, belongs to a call that has not returned, unless it  *)
(* went through the queue: a LOG macro returns when its line is on disk,   *)
(* also when another thread has rotated the file in between.               *)
(***************************************************************************)
Durable == \A l \in Range(stream) : \/ l \in Range(popped)
                                    \/ \E w \in Writer : pc[w] = "flush" /\ line[w] = l

\* The queue alone: what is in it, and what has been taken.
Contract == INSTANCE QueueContract
            WITH Item <- Line, Room <- MaxQueue,
                 waiting <- Ring, taken <- popped, alive <- ~dead

(***************************************************************************)
(* The ring implements a bounded FIFO, and the consumer never sleeps while *)
(* there is something in it: a broadcast that comes between its test and   *)
(* its wait is not missed, since it holds the mutex of the queue.          *)
(***************************************************************************)
ImplementsQueue == Contract!Spec
===============================================================================
