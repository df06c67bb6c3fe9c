----------------------------- MODULE Logger_proofs -----------------------------
(***************************************************************************)
(* Theorems about Logger, for any writers and any size of the queue.       *)
(***************************************************************************)
EXTENDS Logger, SequenceLemmas

\* m_back is the last of the m_size slots that follow m_front, which hold lines.
RingOK == /\ IF m_size = 0 THEN m_back = m_front
             ELSE m_back = (m_front + m_size) % MaxQueue
          /\ \A i \in 1 .. m_size : m_array[(m_front + i) % MaxQueue] \in Line

\* A line that was logged has one writer, and the consumer writes what it has popped.
WriterOK == /\ \A w \in Writer : (pc[w] = "idle" <=> line[w] = NoLine) /\ line[w] <= lines
            /\ \A v, w \in Writer : line[v] = line[w] /\ line[v] # NoLine => v = w
            /\ cpc = "write" => sinlge_log \in Range(popped)

\* A writer that is about to push found room, and there still is if nobody pushed since.
SeenOK == \A w \in Writer : pc[w] = "push" => /\ seen[w] <= Pushes
                                              /\ seen[w] = Pushes => m_size < MaxQueue

\* The types of what is true or false, and of the rest.
Flags == m_is_async \in BOOLEAN /\ dead \in BOOLEAN

Data ==
    /\ m_array \in [Slot -> Line \cup {NoLine}]
    /\ m_size \in 0 .. MaxQueue
    /\ m_front \in Slot \cup {-1} /\ m_back \in Slot \cup {-1}
    /\ m_today \in Day /\ today \in Day
    /\ m_count \in Nat
    /\ stream \in Seq(Line)
    /\ file \in [Day -> Seq(Line)]
    /\ pc \in [Writer -> {"idle", "rotate", "route", "push", "direct", "flush"}]
    /\ line \in [Writer -> Line \cup {NoLine}]
    /\ day \in [Writer -> Day]
    /\ cpc \in {"none", "pop", "waiting", "write"}
    /\ sinlge_log \in Line \cup {NoLine}
    /\ lines \in 0 .. MaxLines
    /\ popped \in Seq(Line)
    /\ lost \in SUBSET Line
    /\ seen \in [Writer -> Nat]

(***************************************************************************)
(* The inductive invariant.                                                *)
(***************************************************************************)
IInv == Flags /\ Data /\ RingOK /\ WriterOK /\ SeenOK /\ Durable

LEMMA FlagsAndData == TypeOK <=> Flags /\ Data
BY DEF TypeOK, Flags, Data

-------------------------------------------------------------------------------
(* The ring.                                                               *)

\* What % MaxQueue is for the sums of an index and a size.
LEMMA ModOnce ==
    ASSUME NEW x \in 0 .. 2 * MaxQueue - 1
    PROVE  x % MaxQueue = IF x < MaxQueue THEN x ELSE x - MaxQueue
<1>1. /\ MaxQueue \in Nat /\ MaxQueue > 0 /\ x \in Nat
  BY SizesAssumption
<1>2. /\ x % MaxQueue \in 0 .. MaxQueue - 1
      /\ x \div MaxQueue \in Nat
      /\ x = MaxQueue * (x \div MaxQueue) + (x % MaxQueue)
  BY <1>1
<1>3. CASE x \div MaxQueue = 0
  BY <1>1, <1>2, <1>3
<1>4. CASE x \div MaxQueue = 1
  BY <1>1, <1>2, <1>4
<1>5. CASE x \div MaxQueue >= 2
  <2>1. MaxQueue * (x \div MaxQueue) >= MaxQueue * 2
    BY <1>1, <1>2, <1>5
  <2> QED BY <1>1, <1>2, <2>1
<1> QED BY <1>2, <1>3, <1>4, <1>5

LEMMA SuccType ==
    ASSUME NEW i \in Slot \cup {-1}
    PROVE  /\ Succ(i) \in Slot
           /\ Succ(i) = IF i = MaxQueue - 1 THEN 0 ELSE i + 1
<1>1. i + 1 \in 0 .. 2 * MaxQueue - 1
  BY SizesAssumption DEF Slot
<1> QED BY <1>1, ModOnce, SizesAssumption DEF Succ, Slot

\* The slots of the items, and that they are different.
LEMMA SlotsApart ==
    ASSUME NEW f \in Slot \cup {-1}, NEW i \in 1 .. MaxQueue, NEW j \in 1 .. MaxQueue, i # j
    PROVE  /\ (f + i) % MaxQueue \in Slot
           /\ (f + i) % MaxQueue # (f + j) % MaxQueue
<1>1. f + i \in 0 .. 2 * MaxQueue - 1 /\ f + j \in 0 .. 2 * MaxQueue - 1
  BY SizesAssumption DEF Slot
<1> QED BY <1>1, ModOnce, SizesAssumption DEF Slot

LEMMA SlotType ==
    ASSUME NEW f \in Slot \cup {-1}, NEW i \in 1 .. MaxQueue
    PROVE  (f + i) % MaxQueue \in Slot
<1>1. f + i \in 0 .. 2 * MaxQueue - 1
  BY SizesAssumption DEF Slot
<1> QED BY <1>1, ModOnce, SizesAssumption DEF Slot

\* The slot after the last item is the next one's, and the first item's is the one after
\* m_front.
LEMMA SlotAfter ==
    ASSUME NEW f \in Slot \cup {-1}, NEW n \in 0 .. MaxQueue - 1, NEW b,
           b = IF n = 0 THEN f ELSE (f + n) % MaxQueue
    PROVE  Succ(b) = (f + n + 1) % MaxQueue
<1>1. f + n + 1 \in 0 .. 2 * MaxQueue - 1
  BY SizesAssumption DEF Slot
<1>2. CASE n = 0
  BY <1>2, SizesAssumption DEF Succ, Slot
<1>3. CASE n # 0
  <2>1. f + n \in 0 .. 2 * MaxQueue - 1
    BY <1>3, SizesAssumption DEF Slot
  <2>a. (f + n) % MaxQueue = IF f + n < MaxQueue THEN f + n ELSE f + n - MaxQueue
    BY <2>1, ModOnce, SizesAssumption DEF Slot
  <2>2. /\ b \in Slot
        /\ b = IF f + n < MaxQueue THEN f + n ELSE f + n - MaxQueue
    BY <1>3, <2>1, <2>a, SizesAssumption DEF Slot
  <2>3. Succ(b) = IF b = MaxQueue - 1 THEN 0 ELSE b + 1
    BY <2>2, SuccType
  <2>4. (f + n + 1) % MaxQueue
           = IF f + n + 1 < MaxQueue THEN f + n + 1 ELSE f + n + 1 - MaxQueue
    BY <1>1, ModOnce, SizesAssumption DEF Slot
  <2> QED BY <1>1, <2>1, <2>2, <2>3, <2>4, SizesAssumption DEF Slot
<1> QED BY <1>2, <1>3

LEMMA SlotShift ==
    ASSUME NEW f \in Slot \cup {-1}, NEW i \in 1 .. MaxQueue - 1
    PROVE  (Succ(f) + i) % MaxQueue = (f + (i + 1)) % MaxQueue
<1>1. /\ Succ(f) \in Slot
      /\ Succ(f) = IF f = MaxQueue - 1 THEN 0 ELSE f + 1
  BY SuccType
<1>2. /\ Succ(f) + i \in 0 .. 2 * MaxQueue - 1
      /\ f + (i + 1) \in 0 .. 2 * MaxQueue - 1
  BY <1>1, SizesAssumption DEF Slot
<1> QED BY <1>1, <1>2, ModOnce, SizesAssumption DEF Slot

\* The part of Data that the queue is.
QueueData == /\ m_array \in [Slot -> Line \cup {NoLine}]
             /\ m_size \in 0 .. MaxQueue
             /\ m_front \in Slot \cup {-1} /\ m_back \in Slot \cup {-1}
             /\ popped \in Seq(Line)

\* The items of a queue that is like this.
LEMMA RingType ==
    ASSUME NEW a, NEW n \in Nat, NEW f,
           \A i \in 1 .. n : a[(f + i) % MaxQueue] \in Line
    PROVE  LET r == [i \in 1 .. n |-> a[(f + i) % MaxQueue]]
           IN  /\ r \in Seq(Line) /\ Len(r) = n
               /\ \A i \in 1 .. n : r[i] = a[(f + i) % MaxQueue]
OBVIOUS

\* push puts its line behind the others, and wakes the consumer.
LEMMA PushAppends ==
    ASSUME QueueData, RingOK, NEW l \in Line, Push(l), m_size < MaxQueue
    PROVE  /\ QueueData' /\ RingOK'
           /\ Ring' = Append(Ring, l)
           /\ popped' = popped /\ m_size' = m_size + 1
           /\ cpc' = IF cpc = "waiting" THEN "pop" ELSE cpc
<1>1. /\ m_size \in 0 .. MaxQueue - 1
      /\ m_front \in Slot \cup {-1} /\ m_back \in Slot \cup {-1}
      /\ m_array \in [Slot -> Line \cup {NoLine}]
  BY SizesAssumption DEF QueueData
<1>2. /\ m_back' = Succ(m_back)
      /\ m_array' = [m_array EXCEPT ![m_back'] = l]
      /\ m_size' = m_size + 1
      /\ m_front' = m_front /\ popped' = popped
      /\ cpc' = IF cpc = "waiting" THEN "pop" ELSE cpc
  BY <1>1, SizesAssumption DEF Push
<1>3. m_back' \in Slot
  BY <1>1, <1>2, SuccType
<1>4. m_back' = (m_front + m_size') % MaxQueue
  <2>1. m_back = IF m_size = 0 THEN m_front ELSE (m_front + m_size) % MaxQueue
    BY DEF RingOK
  <2>2. Succ(m_back) = (m_front + m_size + 1) % MaxQueue
    BY <1>1, <2>1, SlotAfter
  <2>3. m_front + m_size + 1 = m_front + (m_size + 1)
    BY <1>1, SizesAssumption DEF Slot
  <2> QED BY <1>2, <2>2, <2>3
<1>5. QueueData'
  BY <1>1, <1>2, <1>3, SizesAssumption DEF QueueData
<1>6. m_array'[(m_front + m_size') % MaxQueue] = l
  BY <1>1, <1>2, <1>3, <1>4
<1>7. ASSUME NEW i \in 1 .. m_size
      PROVE  m_array'[(m_front + i) % MaxQueue] = m_array[(m_front + i) % MaxQueue]
  <2>1. i \in 1 .. MaxQueue /\ m_size + 1 \in 1 .. MaxQueue /\ i # m_size + 1
    BY <1>1, SizesAssumption
  <2>2. /\ (m_front + i) % MaxQueue \in Slot
        /\ (m_front + i) % MaxQueue # (m_front + (m_size + 1)) % MaxQueue
    BY <1>1, <2>1, SlotsApart
  <2> QED BY <1>1, <1>2, <1>3, <1>4, <2>2
<1>8. \A i \in 1 .. m_size' : i \in 1 .. m_size \/ i = m_size'
  BY <1>1, <1>2, SizesAssumption
<1>9. RingOK'
  <2>1. \A i \in 1 .. m_size' : m_array'[(m_front + i) % MaxQueue] \in Line
    BY <1>6, <1>7, <1>8 DEF RingOK
  <2>2. m_size' # 0
    BY <1>1, <1>2
  <2> QED BY <1>2, <1>4, <2>1, <2>2 DEF RingOK
<1>10. Ring' = Append(Ring, l)
  <2>1. /\ Ring \in Seq(Line) /\ Len(Ring) = m_size
        /\ \A i \in 1 .. m_size : Ring[i] = m_array[(m_front + i) % MaxQueue]
    BY <1>1, RingType, SizesAssumption DEF Ring, RingOK
  <2>2. /\ Ring' \in Seq(Line) /\ Len(Ring') = m_size + 1
        /\ \A i \in 1 .. m_size + 1 : Ring'[i] = m_array'[(m_front + i) % MaxQueue]
    <3>1. \A i \in 1 .. m_size' : m_array'[(m_front' + i) % MaxQueue] \in Line
      BY <1>9 DEF RingOK
    <3>2. Ring' = [i \in 1 .. m_size' |-> m_array'[(m_front' + i) % MaxQueue]]
      BY DEF Ring
    <3>3. m_size' \in Nat
      BY <1>1, <1>2, SizesAssumption
    <3> QED BY <1>2, <3>1, <3>2, <3>3, RingType
  <2>3. /\ Append(Ring, l) \in Seq(Line) /\ Len(Append(Ring, l)) = m_size + 1
        /\ \A i \in 1 .. m_size : Append(Ring, l)[i] = Ring[i]
        /\ Append(Ring, l)[m_size + 1] = l
    BY <2>1
  <2>4. \A i \in 1 .. m_size + 1 : Ring'[i] = Append(Ring, l)[i]
    BY <1>2, <1>6, <1>7, <1>8, <2>1, <2>2, <2>3
  <2> QED BY <2>2, <2>3, <2>4, SeqEqual
<1> QED BY <1>2, <1>5, <1>9, <1>10

\* pop takes the first one.
LEMMA PopTakes ==
    ASSUME QueueData, RingOK, Pop
    PROVE  /\ QueueData' /\ RingOK'
           /\ Taken \in Line /\ Ring # <<>>
           /\ Head(Ring) = Taken /\ Ring' = Tail(Ring)
           /\ popped' = Append(popped, Taken)
<1>1. /\ m_size \in 1 .. MaxQueue
      /\ m_front \in Slot \cup {-1} /\ m_back \in Slot \cup {-1}
      /\ m_array \in [Slot -> Line \cup {NoLine}]
      /\ popped \in Seq(Line)
  BY SizesAssumption DEF QueueData, Pop
<1>2. /\ m_front' = Succ(m_front) /\ m_size' = m_size - 1
      /\ m_array' = m_array /\ m_back' = m_back
      /\ popped' = Append(popped, Taken)
  BY DEF Pop
<1>3. /\ m_front' \in Slot
      /\ Succ(m_front) = (m_front + 1) % MaxQueue
  BY <1>1, <1>2, SuccType DEF Succ
<1>4. Taken \in Line
  BY <1>1, <1>3 DEF Taken, RingOK
<1>5. QueueData'
  BY <1>1, <1>2, <1>3, <1>4, SizesAssumption DEF QueueData
<1>6. ASSUME NEW i \in 1 .. m_size - 1
      PROVE  (m_front' + i) % MaxQueue = (m_front + (i + 1)) % MaxQueue
  BY <1>1, <1>2, SlotShift, SizesAssumption
<1>7. RingOK'
  <2>1. \A i \in 1 .. m_size' : m_array'[(m_front' + i) % MaxQueue] \in Line
    BY <1>1, <1>2, <1>6 DEF RingOK
  <2>2. CASE m_size = 1
    BY <1>1, <1>2, <1>3, <2>1, <2>2 DEF RingOK
  <2>3. CASE m_size # 1
    <3>1. m_size - 1 \in 1 .. m_size - 1 /\ m_size - 1 + 1 = m_size
      BY <1>1, <2>3
    <3>2. (m_front' + (m_size - 1)) % MaxQueue = (m_front + m_size) % MaxQueue
      BY <1>6, <3>1
    <3>3. m_back = (m_front + m_size) % MaxQueue
      BY <1>1 DEF RingOK
    <3> QED BY <1>2, <2>1, <3>1, <3>2, <3>3 DEF RingOK
  <2> QED BY <2>2, <2>3
<1>8. /\ Ring \in Seq(Line) /\ Len(Ring) = m_size
      /\ \A i \in 1 .. m_size : Ring[i] = m_array[(m_front + i) % MaxQueue]
  BY <1>1, RingType, SizesAssumption DEF Ring, RingOK
<1>9. Ring # <<>> /\ Head(Ring) = Ring[1] /\ Ring[1] = Taken
  BY <1>1, <1>3, <1>8 DEF Taken
<1>10. Ring' = Tail(Ring)
  <2>1. /\ Ring' \in Seq(Line) /\ Len(Ring') = m_size - 1
        /\ \A i \in 1 .. m_size - 1 : Ring'[i] = m_array[(m_front' + i) % MaxQueue]
    <3>1. \A i \in 1 .. m_size' : m_array'[(m_front' + i) % MaxQueue] \in Line
      BY <1>7 DEF RingOK
    <3>2. Ring' = [i \in 1 .. m_size' |-> m_array'[(m_front' + i) % MaxQueue]]
      BY DEF Ring
    <3>3. m_size' \in Nat
      BY <1>1, <1>2, SizesAssumption
    <3> QED BY <1>2, <3>1, <3>2, <3>3, RingType
  <2>2. /\ Tail(Ring) \in Seq(Line) /\ Len(Tail(Ring)) = m_size - 1
        /\ \A i \in 1 .. m_size - 1 : Tail(Ring)[i] = Ring[i + 1]
    BY <1>8, <1>9, HeadTailProperties
  <2>3. ASSUME NEW i \in 1 .. m_size - 1
        PROVE  Ring'[i] = Tail(Ring)[i]
    <3>1. i + 1 \in 1 .. m_size
      BY <1>1
    <3>2. Ring'[i] = m_array[(m_front + (i + 1)) % MaxQueue]
      BY <1>6, <2>1
    <3> QED BY <1>8, <2>2, <3>1, <3>2
  <2> QED BY <2>1, <2>2, <2>3, SeqEqual
<1> QED BY <1>2, <1>4, <1>5, <1>7, <1>9, <1>10

-------------------------------------------------------------------------------
(* The invariant.                                                          *)

LEMMA Initially == Init => IInv
<1> SUFFICES ASSUME Init PROVE IInv
  OBVIOUS
<1>1. Flags
  BY DEF Init, Flags
<1>2. Data
  BY SizesAssumption DEF Init, Data, Slot, Day
<1>3. RingOK /\ SeenOK /\ Durable
  BY DEF Init, RingOK, SeenOK, Durable, Range
<1>4. WriterOK
  BY DEF Init, WriterOK, NoLine
<1> QED BY <1>1, <1>2, <1>3, <1>4 DEF IInv

LEMMA FlagsStep == Flags /\ [Next]_vars => Flags'
<1> SUFFICES ASSUME Flags, [Next]_vars PROVE Flags'
  OBVIOUS
<1> USE DEF Flags, Goes
<1>1. ASSUME NEW w \in Writer, WriterStep(w) PROVE Flags'
  BY <1>1 DEF WriterStep, Stamp, Rotate, Split, Stay, Route, Enqueue, Direct, Flush
<1>2. CASE ConsumerStep \/ Spurious \/ Midnight
  BY <1>2 DEF ConsumerStep, Pop, Wait, WriteOut, Spurious, Midnight
<1>3. CASE UNCHANGED vars
  BY <1>3 DEF vars
<1> QED BY <1>1, <1>2, <1>3 DEF Next

\* What a writer has in its hands when it comes to the queue or the file.
LEMMA HasLine ==
    ASSUME Data, WriterOK, NEW w \in Writer, pc[w] \in {"push", "direct"}
    PROVE  line[w] \in Line
BY DEF Data, WriterOK

\* A refused push changes nothing.
LEMMA PushRefused ==
    ASSUME QueueData, NEW l, Push(l), ~(m_size < MaxQueue)
    PROVE  UNCHANGED <<m_array, m_size, m_front, m_back, popped, cpc>>
BY SizesAssumption DEF QueueData, Push, queue

\* The queue through a step.
LEMMA QueueStep ==
    ASSUME Data, RingOK, WriterOK, [Next]_vars
    PROVE  /\ QueueData' /\ RingOK'
           /\ \/ Ring' = Ring /\ popped' = popped
              \/ /\ m_size < MaxQueue /\ popped' = popped
                 /\ \E l \in Line : Ring' = Append(Ring, l)
              \/ /\ Ring # <<>> /\ Ring' = Tail(Ring)
                 /\ popped' = Append(popped, Head(Ring))
           /\ dead' # dead => Ring' = Ring /\ popped' = popped /\ dead' = TRUE
<1> DEFINE Kept == UNCHANGED <<m_array, m_size, m_front, m_back, popped>>
<1>1. QueueData
  BY DEF Data, QueueData
<1>2. ASSUME Kept
      PROVE  QueueData' /\ RingOK' /\ Ring' = Ring /\ popped' = popped
  BY <1>1, <1>2 DEF QueueData, RingOK, Ring
<1>3. ASSUME NEW w \in Writer, WriterStep(w), ~Enqueue(w)
      PROVE  Kept /\ (dead' # dead => dead' = TRUE)
  BY <1>3 DEF WriterStep, Stamp, Rotate, Split, Stay, Route, Direct, Flush, queue
<1>4. ASSUME NEW w \in Writer, Enqueue(w), m_size < MaxQueue
      PROVE  /\ QueueData' /\ RingOK' /\ popped' = popped
             /\ \E l \in Line : Ring' = Append(Ring, l)
  <2>1. line[w] \in Line /\ Push(line[w])
    BY <1>4, HasLine DEF Enqueue, Goes
  <2> QED BY <1>1, <1>4, <2>1, PushAppends
<1>5. ASSUME NEW w \in Writer, Enqueue(w), ~(m_size < MaxQueue)
      PROVE  Kept
  BY <1>1, <1>5, PushRefused DEF Enqueue
<1>6. ASSUME Pop
      PROVE  /\ QueueData' /\ RingOK'
             /\ Ring # <<>> /\ Ring' = Tail(Ring)
             /\ popped' = Append(popped, Head(Ring))
  BY <1>1, <1>6, PopTakes
<1>7. CASE Wait \/ WriteOut \/ Spurious \/ Midnight \/ UNCHANGED vars
  <2>1. Kept /\ dead' = dead
    BY <1>7 DEF Wait, WriteOut, Spurious, Midnight, vars, queue
  <2> QED BY <1>2, <2>1
<1>8. CASE \E w \in Writer : WriterStep(w)
  <2>1. PICK w \in Writer : WriterStep(w)
    BY <1>8
  <2>2. Enqueue(w) => dead' = dead
    BY DEF Enqueue
  <2> QED BY <1>2, <1>3, <1>4, <1>5, <2>1, <2>2
<1>9. CASE Pop
  BY <1>6, <1>9 DEF Pop
<1> QED BY <1>7, <1>8, <1>9 DEF Next, ConsumerStep

\* fputs and fflush move lines, and nothing else.
LEMMA FputsType ==
    ASSUME Data, NEW l \in Line, Fputs(l)
    PROVE  /\ stream' \in Seq(Line)
           /\ UNCHANGED <<m_today, m_count, file>>
BY DEF Data, Fputs

LEMMA FflushType ==
    ASSUME Data, Fflush
    PROVE  /\ stream' = <<>> /\ stream' \in Seq(Line)
           /\ file' \in [Day -> Seq(Line)]
BY DEF Data, Fflush

LEMMA DataStep ==
    ASSUME Data, RingOK, WriterOK, [Next]_vars
    PROVE  Data'
<1> DEFINE DiskData == /\ m_today \in Day /\ m_count \in Nat
                       /\ stream \in Seq(Line) /\ file \in [Day -> Seq(Line)]
           OtherData == /\ today \in Day
                        /\ pc \in [Writer -> {"idle", "rotate", "route", "push", "direct",
                                               "flush"}]
                        /\ line \in [Writer -> Line \cup {NoLine}]
                        /\ day \in [Writer -> Day]
                        /\ lines \in 0 .. MaxLines
                        /\ lost \in SUBSET Line
                        /\ seen \in [Writer -> Nat]
           ConsumerData == /\ cpc \in {"none", "pop", "waiting", "write"}
                           /\ sinlge_log \in Line \cup {NoLine}
<1>0. DiskData /\ OtherData /\ ConsumerData /\ QueueData
  BY DEF Data, QueueData
<1>a. 1 \in Day /\ MaxLines \in Nat /\ MaxDay \in Nat
  BY SizesAssumption DEF Day
<1>b. Pushes \in Nat
  BY <1>0, LenProperties, SizesAssumption DEF QueueData, Pushes
<1>c. UNCHANGED <<m_today, m_count, stream, file>> => DiskData'
  BY <1>0
<1>d. UNCHANGED <<today, pc, line, day, lines, lost, seen>> => OtherData'
  BY <1>0
<1>e. UNCHANGED <<cpc, sinlge_log>> => ConsumerData'
  BY <1>0
<1>1. ASSUME NEW w \in Writer, Stamp(w) PROVE DiskData' /\ OtherData' /\ ConsumerData'
  <2>1. lines' \in Line /\ lines' \in 0 .. MaxLines
    BY <1>0, <1>1, <1>a DEF Stamp, Line
  <2>2. OtherData'
    BY <1>0, <1>1, <2>1 DEF Stamp
  <2> QED BY <1>1, <1>c, <1>e, <2>2 DEF Stamp, disk, consumer
<1>2. ASSUME NEW w \in Writer, Rotate(w) PROVE DiskData' /\ OtherData' /\ ConsumerData'
  <2>1. DiskData'
    BY <1>0, <1>2, FflushType DEF Rotate
  <2>2. OtherData'
    BY <1>0, <1>2, <1>a DEF Rotate, Goes
  <2> QED BY <1>2, <1>e, <2>1, <2>2 DEF Rotate, Goes
<1>3. ASSUME NEW w \in Writer, Split(w) PROVE DiskData' /\ OtherData' /\ ConsumerData'
  <2>1. DiskData'
    BY <1>0, <1>3, FflushType DEF Split
  <2>2. OtherData'
    BY <1>0, <1>3 DEF Split, Goes
  <2> QED BY <1>3, <1>e, <2>1, <2>2 DEF Split, Goes
<1>4. ASSUME NEW w \in Writer, Stay(w) PROVE DiskData' /\ OtherData' /\ ConsumerData'
  <2>1. DiskData'
    BY <1>0, <1>4 DEF Stay
  <2>2. OtherData'
    BY <1>0, <1>4, <1>a DEF Stay, Goes
  <2> QED BY <1>4, <1>e, <2>1, <2>2 DEF Stay, Goes
<1>5. ASSUME NEW w \in Writer, Route(w) PROVE DiskData' /\ OtherData' /\ ConsumerData'
  <2>1. OtherData'
    BY <1>0, <1>5, <1>b DEF Route, Goes
  <2> QED BY <1>5, <1>c, <1>e, <2>1 DEF Route, Goes, disk
<1>6. ASSUME NEW w \in Writer, Enqueue(w) PROVE DiskData' /\ OtherData' /\ ConsumerData'
  <2>1. line[w] \in Line /\ Push(line[w])
    BY <1>6, HasLine DEF Enqueue, Goes
  <2>2. OtherData'
    BY <1>0, <1>6, <2>1 DEF Enqueue, Goes
  <2>3. cpc' \in {cpc, "pop"}
    BY <2>1 DEF Push
  <2> QED BY <1>0, <1>6, <1>c, <2>2, <2>3 DEF Enqueue, Goes, disk
<1>7. ASSUME NEW w \in Writer, Direct(w) PROVE DiskData' /\ OtherData' /\ ConsumerData'
  <2>1. line[w] \in Line
    BY <1>7, HasLine DEF Direct, Goes
  <2>2. DiskData'
    BY <1>0, <1>7, <2>1, FputsType DEF Direct
  <2>3. OtherData'
    BY <1>0, <1>7 DEF Direct, Goes
  <2> QED BY <1>7, <1>e, <2>2, <2>3 DEF Direct, Goes
<1>8. ASSUME NEW w \in Writer, Flush(w) PROVE DiskData' /\ OtherData' /\ ConsumerData'
  <2>1. DiskData'
    BY <1>0, <1>8, FflushType DEF Flush
  <2>2. OtherData'
    BY <1>0, <1>8 DEF Flush, Goes
  <2> QED BY <1>8, <1>e, <2>1, <2>2 DEF Flush, Goes
<1>9. ASSUME Pop PROVE DiskData' /\ OtherData' /\ ConsumerData'
  <2>1. Taken \in Line
    BY <1>0, <1>9, PopTakes
  <2>2. ConsumerData'
    BY <1>9, <2>1 DEF Pop
  <2> QED BY <1>9, <1>c, <1>d, <2>2 DEF Pop, disk
<1>10. ASSUME WriteOut PROVE DiskData' /\ OtherData' /\ ConsumerData'
  <2>1. sinlge_log \in Line
    BY <1>0, <1>10, RangeEquality DEF WriteOut, WriterOK, QueueData, Range
  <2>2. DiskData'
    BY <1>0, <1>10, <2>1, FputsType DEF WriteOut
  <2>3. ConsumerData'
    BY <1>10 DEF WriteOut
  <2> QED BY <1>10, <1>d, <2>2, <2>3 DEF WriteOut
<1>11. ASSUME Wait \/ Spurious PROVE DiskData' /\ OtherData' /\ ConsumerData'
  <2>1. ConsumerData'
    BY <1>0, <1>11 DEF Wait, Spurious
  <2> QED BY <1>11, <1>c, <1>d, <2>1 DEF Wait, Spurious, disk
<1>12. ASSUME Midnight PROVE DiskData' /\ OtherData' /\ ConsumerData'
  <2>1. OtherData'
    BY <1>0, <1>12, <1>a DEF Midnight, Day
  <2> QED BY <1>12, <1>c, <1>e, <2>1 DEF Midnight, disk, consumer
<1>13. ASSUME UNCHANGED vars PROVE DiskData' /\ OtherData' /\ ConsumerData'
  BY <1>13, <1>c, <1>d, <1>e DEF vars, disk, consumer
<1>14. DiskData' /\ OtherData' /\ ConsumerData'
  BY <1>1, <1>2, <1>3, <1>4, <1>5, <1>6, <1>7, <1>8, <1>9, <1>10, <1>11, <1>12, <1>13
     DEF Next, WriterStep, ConsumerStep
<1>15. QueueData'
  BY QueueStep
<1> QED BY <1>14, <1>15 DEF Data, QueueData

\* What popping does to the range of what was popped.
LEMMA PoppedGrows ==
    ASSUME QueueData, RingOK, Pop
    PROVE  Range(popped') = Range(popped) \cup {sinlge_log'}
BY PopTakes, RangeAppend DEF QueueData, Pop

LEMMA WriterOKStep ==
    ASSUME Data, RingOK, WriterOK, [Next]_vars
    PROVE  WriterOK'
<1> DEFINE Lines == /\ \A w \in Writer : (pc[w] = "idle" <=> line[w] = NoLine)
                                         /\ line[w] <= lines
                    /\ \A v, w \in Writer : line[v] = line[w] /\ line[v] # NoLine => v = w
           Consumed == cpc = "write" => sinlge_log \in Range(popped)
<1>0. /\ Lines /\ Consumed /\ QueueData
      /\ line \in [Writer -> Line \cup {NoLine}] /\ lines \in Nat
      /\ pc \in [Writer -> {"idle", "rotate", "route", "push", "direct", "flush"}]
  BY SizesAssumption DEF Data, WriterOK, QueueData
<1>a. UNCHANGED <<cpc, sinlge_log, popped>> => Consumed'
  BY <1>0
<1>b. UNCHANGED <<pc, line, lines>> => Lines'
  BY <1>0
<1>c. ASSUME NEW w \in Writer, NEW from \in {"rotate", "route", "push", "direct"},
             NEW to \in {"route", "push", "direct", "flush"},
             Goes(w, from, to), UNCHANGED <<line, lines>>
      PROVE  Lines'
  BY <1>0, <1>c DEF Goes
<1>1. ASSUME NEW w \in Writer, Stamp(w) PROVE Lines' /\ Consumed'
  <2>1. /\ line' = [line EXCEPT ![w] = lines + 1] /\ lines' = lines + 1
        /\ pc' = [pc EXCEPT ![w] = "rotate"]
    BY <1>1 DEF Stamp
  <2>2. Lines'
    BY <1>0, <2>1 DEF NoLine, Line
  <2> QED BY <1>1, <1>a, <2>2 DEF Stamp, consumer, queue
<1>2. ASSUME NEW w \in Writer, Rotate(w) \/ Split(w) \/ Stay(w) PROVE Lines' /\ Consumed'
  <2>1. Goes(w, "rotate", "route") /\ UNCHANGED <<line, lines, queue, cpc>>
    BY <1>2 DEF Rotate, Split, Stay
  <2> QED BY <1>a, <1>c, <2>1 DEF queue, Goes
<1>3. ASSUME NEW w \in Writer, Route(w) PROVE Lines' /\ Consumed'
  <2>1. /\ Goes(w, "route", "push") \/ Goes(w, "route", "direct")
        /\ UNCHANGED <<line, lines, queue, cpc>>
    BY <1>3 DEF Route
  <2> QED BY <1>a, <1>c, <2>1 DEF queue, Goes
<1>4. ASSUME NEW w \in Writer, Enqueue(w) PROVE Lines' /\ Consumed'
  <2>1. Goes(w, "push", "flush") /\ UNCHANGED <<line, lines>>
    BY <1>4 DEF Enqueue
  <2>2. /\ cpc' = "write" => cpc = "write"
        /\ popped' = popped
    BY <1>4 DEF Enqueue, Push, queue
  <2> QED BY <1>0, <1>c, <2>1, <2>2 DEF Goes
<1>5. ASSUME NEW w \in Writer, Direct(w) PROVE Lines' /\ Consumed'
  <2>1. Goes(w, "direct", "flush") /\ UNCHANGED <<line, lines, queue, cpc>>
    BY <1>5 DEF Direct
  <2> QED BY <1>a, <1>c, <2>1 DEF queue, Goes
<1>6. ASSUME NEW w \in Writer, Flush(w) PROVE Lines' /\ Consumed'
  <2>1. /\ line' = [line EXCEPT ![w] = NoLine] /\ lines' = lines
        /\ pc' = [pc EXCEPT ![w] = "idle"]
    BY <1>6 DEF Flush, Goes
  <2>2. Lines'
    BY <1>0, <2>1 DEF NoLine, Line
  <2> QED BY <1>6, <1>a, <2>2 DEF Flush, Goes, queue
<1>7. ASSUME Pop PROVE Lines' /\ Consumed'
  <2>1. Consumed'
    BY <1>0, <1>7, PoppedGrows
  <2> QED BY <1>7, <1>b, <2>1 DEF Pop
<1>8. ASSUME Wait \/ WriteOut \/ Spurious PROVE Lines' /\ Consumed'
  BY <1>8, <1>b DEF Wait, WriteOut, Spurious
<1>9. ASSUME Midnight \/ UNCHANGED vars PROVE Lines' /\ Consumed'
  BY <1>9, <1>a, <1>b DEF Midnight, vars, queue, consumer
<1>10. Lines' /\ Consumed'
  BY <1>1, <1>2, <1>3, <1>4, <1>5, <1>6, <1>7, <1>8, <1>9
     DEF Next, WriterStep, ConsumerStep
<1> QED BY <1>10 DEF WriterOK

\* A push adds one to Pushes; a pop does not change it.
LEMMA PushesGrow ==
    ASSUME QueueData, RingOK
    PROVE  /\ Pushes \in Nat
           /\ UNCHANGED queue => Pushes' = Pushes /\ m_size' = m_size
           /\ \A l \in Line : Push(l) => \/ /\ m_size < MaxQueue
                                          /\ Pushes' = Pushes + 1 /\ m_size' = m_size + 1
                                       \/ /\ ~(m_size < MaxQueue)
                                          /\ Pushes' = Pushes /\ m_size' = m_size
           /\ Pop => Pushes' = Pushes /\ m_size' < MaxQueue
<1>1. Len(popped) \in Nat /\ m_size \in 0 .. MaxQueue /\ MaxQueue \in Nat
  BY LenProperties, SizesAssumption DEF QueueData
<1>2. Pushes \in Nat
  BY <1>1 DEF Pushes
<1>3. UNCHANGED queue => Pushes' = Pushes /\ m_size' = m_size
  BY DEF Pushes, queue
<1>4. ASSUME NEW l \in Line, Push(l), m_size < MaxQueue
      PROVE  Pushes' = Pushes + 1 /\ m_size' = m_size + 1
  BY <1>1, <1>4 DEF Push, Pushes
<1>5. ASSUME NEW l \in Line, Push(l), ~(m_size < MaxQueue)
      PROVE  Pushes' = Pushes /\ m_size' = m_size
  BY <1>5, PushRefused DEF Pushes
<1>6. ASSUME Pop PROVE Pushes' = Pushes /\ m_size' < MaxQueue
  <2>1. Taken \in Line /\ popped \in Seq(Line)
    BY <1>6, PopTakes DEF QueueData
  <2>2. Len(popped') = Len(popped) + 1 /\ m_size' = m_size - 1
    BY <1>6, <2>1, AppendProperties DEF Pop
  <2> QED BY <1>1, <2>2 DEF Pushes
<1> QED BY <1>2, <1>3, <1>4, <1>5, <1>6

LEMMA SeenOKStep ==
    ASSUME Data, RingOK, WriterOK, SeenOK, [Next]_vars
    PROVE  SeenOK'
<1>0. /\ QueueData /\ Pushes \in Nat /\ MaxQueue \in Nat /\ m_size \in 0 .. MaxQueue
      /\ seen \in [Writer -> Nat]
      /\ pc \in [Writer -> {"idle", "rotate", "route", "push", "direct", "flush"}]
  BY PushesGrow, SizesAssumption DEF Data, QueueData
<1>a. ASSUME UNCHANGED queue, UNCHANGED seen,
             \A v \in Writer : pc'[v] = "push" => pc[v] = "push"
      PROVE  SeenOK'
  BY <1>0, <1>a, PushesGrow DEF SeenOK
<1>1. ASSUME NEW w \in Writer, Stamp(w) \/ Rotate(w) \/ Split(w) \/ Stay(w) \/ Direct(w)
      PROVE  SeenOK'
  <2>1. UNCHANGED queue /\ UNCHANGED seen
    BY <1>1 DEF Stamp, Rotate, Split, Stay, Direct
  <2>2. \A v \in Writer : pc'[v] = "push" => pc[v] = "push"
    BY <1>0, <1>1 DEF Stamp, Rotate, Split, Stay, Direct, Goes
  <2> QED BY <1>a, <2>1, <2>2
<1>2. ASSUME NEW w \in Writer, Route(w) PROVE SeenOK'
  <2>1. /\ UNCHANGED queue /\ seen' = [seen EXCEPT ![w] = Pushes]
        /\ pc' = [pc EXCEPT ![w] = IF Fits THEN "push" ELSE "direct"]
    BY <1>2 DEF Route, Goes
  <2>2. pc'[w] = "push" => m_size < MaxQueue
    BY <1>0, <2>1 DEF Fits
  <2>3. Pushes' = Pushes /\ m_size' = m_size
    BY <1>0, <2>1, PushesGrow
  <2> QED BY <1>0, <2>1, <2>2, <2>3 DEF SeenOK
<1>3. ASSUME NEW w \in Writer, Enqueue(w) PROVE SeenOK'
  <2>1. line[w] \in Line /\ Push(line[w])
    BY <1>3, HasLine DEF Enqueue, Goes
  <2>2. \/ Pushes' = Pushes + 1
        \/ Pushes' = Pushes /\ m_size' = m_size
    BY <1>0, <2>1, PushesGrow
  <2>3. \A v \in Writer : pc'[v] = "push" => pc[v] = "push"
    BY <1>0, <1>3 DEF Enqueue, Goes
  <2>4. seen' = seen
    BY <1>3 DEF Enqueue
  <2> QED BY <1>0, <2>2, <2>3, <2>4 DEF SeenOK
<1>4. ASSUME NEW w \in Writer, Flush(w) PROVE SeenOK'
  <2>1. /\ UNCHANGED queue /\ seen' = [seen EXCEPT ![w] = 0]
        /\ pc' = [pc EXCEPT ![w] = "idle"]
    BY <1>4 DEF Flush, Goes
  <2>2. Pushes' = Pushes /\ m_size' = m_size
    BY <1>0, <2>1, PushesGrow
  <2> QED BY <1>0, <2>1, <2>2 DEF SeenOK
<1>5. ASSUME Pop PROVE SeenOK'
  <2>1. Pushes' = Pushes /\ m_size' < MaxQueue
    BY <1>0, <1>5, PushesGrow
  <2>2. UNCHANGED <<pc, seen>>
    BY <1>5 DEF Pop
  <2> QED BY <2>1, <2>2 DEF SeenOK
<1>6. ASSUME Wait \/ WriteOut \/ Spurious \/ Midnight \/ UNCHANGED vars PROVE SeenOK'
  <2>1. UNCHANGED queue /\ UNCHANGED seen /\ UNCHANGED pc
    BY <1>6 DEF Wait, WriteOut, Spurious, Midnight, vars
  <2> QED BY <1>a, <2>1
<1> QED BY <1>1, <1>2, <1>3, <1>4, <1>5, <1>6 DEF Next, WriterStep, ConsumerStep

LEMMA DurableStep ==
    ASSUME Data, RingOK, WriterOK, Durable, [Next]_vars
    PROVE  Durable'
<1>0. /\ QueueData /\ stream \in Seq(Line)
      /\ pc \in [Writer -> {"idle", "rotate", "route", "push", "direct", "flush"}]
  BY DEF Data, QueueData
<1>a. ASSUME stream' = stream, Range(popped) \subseteq Range(popped'),
             \A w \in Writer : pc[w] = "flush" => pc'[w] = "flush" /\ line'[w] = line[w]
      PROVE  Durable'
  BY <1>a DEF Durable
<1>b. stream' = <<>> => Durable'
  BY DEF Durable, Range
<1>c. UNCHANGED queue => Range(popped) \subseteq Range(popped')
  BY DEF queue
<1>1. ASSUME NEW w \in Writer, Stamp(w) \/ Stay(w) \/ Route(w) PROVE Durable'
  <2>1. stream' = stream /\ UNCHANGED queue
    BY <1>1 DEF Stamp, Stay, Route, disk
  <2>2. ASSUME NEW v \in Writer, pc[v] = "flush"
        PROVE  pc'[v] = "flush" /\ line'[v] = line[v]
    BY <1>0, <1>1, <2>2 DEF Stamp, Stay, Route, Goes, Data
  <2> QED BY <1>a, <1>c, <2>1, <2>2
<1>2. ASSUME NEW w \in Writer, Rotate(w) \/ Split(w) \/ Flush(w) PROVE Durable'
  BY <1>2, <1>b DEF Rotate, Split, Flush, Fflush
<1>3. ASSUME NEW w \in Writer, Enqueue(w) PROVE Durable'
  <2>1. stream' = stream /\ popped' = popped
    BY <1>3 DEF Enqueue, Push, disk, queue
  <2>2. ASSUME NEW v \in Writer, pc[v] = "flush"
        PROVE  pc'[v] = "flush" /\ line'[v] = line[v]
    BY <1>0, <1>3, <2>2 DEF Enqueue, Goes
  <2> QED BY <1>a, <2>1, <2>2
<1>4. ASSUME NEW w \in Writer, Direct(w) PROVE Durable'
  <2>1. line[w] \in Line
    BY <1>4, HasLine DEF Direct, Goes
  <2>2. Range(stream') = Range(stream) \cup {line[w]}
    BY <1>0, <1>4, <2>1, RangeAppend DEF Direct, Fputs
  <2>3. /\ popped' = popped /\ line' = line /\ pc'[w] = "flush"
        /\ \A v \in Writer : pc[v] = "flush" => pc'[v] = "flush"
    BY <1>0, <1>4 DEF Direct, Goes, queue
  <2> QED BY <2>2, <2>3 DEF Durable
<1>5. ASSUME Pop PROVE Durable'
  <2>1. /\ Range(popped') = Range(popped) \cup {sinlge_log'}
        /\ UNCHANGED <<stream, pc, line>>
    BY <1>0, <1>5, PoppedGrows DEF Pop, disk
  <2> QED BY <1>a, <2>1
<1>6. ASSUME WriteOut PROVE Durable'
  <2>1. sinlge_log \in Range(popped)
    BY <1>6 DEF WriteOut, WriterOK
  <2>2. sinlge_log \in Line
    BY <1>0, <2>1 DEF QueueData, Range
  <2>3. Range(stream') = Range(stream) \cup {sinlge_log}
    BY <1>0, <1>6, <2>2, RangeAppend DEF WriteOut, Fputs
  <2>4. UNCHANGED <<popped, pc, line>>
    BY <1>6 DEF WriteOut, queue
  <2> QED BY <2>1, <2>3, <2>4 DEF Durable
<1>7. ASSUME Wait \/ Spurious \/ Midnight \/ UNCHANGED vars PROVE Durable'
  <2>1. UNCHANGED <<stream, queue, pc, line>>
    BY <1>7 DEF Wait, Spurious, Midnight, vars, disk
  <2> QED BY <1>a, <1>c, <2>1
<1> QED BY <1>1, <1>2, <1>3, <1>4, <1>5, <1>6, <1>7 DEF Next, WriterStep, ConsumerStep

-------------------------------------------------------------------------------
THEOREM Invariance == Spec => []IInv
<1>1. IInv /\ [Next]_vars => IInv'
  BY FlagsStep, DataStep, QueueStep, WriterOKStep, SeenOKStep, DurableStep DEF IInv
<1> QED BY Initially, <1>1, PTL DEF Spec

(***************************************************************************)
(* The types: the indices stay in the ring, whatever its size.             *)
(***************************************************************************)
THEOREM TypeCorrect == Spec => []TypeOK
<1>1. IInv => TypeOK
  BY FlagsAndData DEF IInv
<1> QED BY Invariance, <1>1, PTL

(***************************************************************************)
(* A LOG macro returns when its line is on disk, unless the line went      *)
(* through the queue.                                                      *)
(***************************************************************************)
THEOREM ReturnsWhenDurable == Spec => []Durable
<1>1. IInv => Durable
  BY DEF IInv
<1> QED BY Invariance, <1>1, PTL

\* The lines that a step loses: that of a writer whose push was refused.
LEMMA LosesOnlyRaced ==
    ASSUME IInv, [Next]_vars, NEW w \in Writer, line[w] \in lost' \ lost
    PROVE  seen[w] < Pushes
<1>0. /\ Data /\ RingOK /\ WriterOK /\ SeenOK
      /\ QueueData /\ Pushes \in Nat /\ seen[w] \in Nat
  BY PushesGrow DEF IInv, Data, QueueData
<1>1. \E v \in Writer : Enqueue(v) /\ line[v] \in lost' \ lost /\ lost' \subseteq lost \cup {line[v]}
  <2>1. \A v \in Writer : WriterStep(v) => Enqueue(v) \/ lost' = lost
    BY DEF WriterStep, Stamp, Rotate, Split, Stay, Route, Direct, Flush
  <2>2. ConsumerStep \/ Spurious \/ Midnight \/ UNCHANGED vars => lost' = lost
    BY DEF ConsumerStep, Pop, Wait, WriteOut, Spurious, Midnight, vars
  <2>3. PICK v \in Writer : Enqueue(v)
    BY <2>1, <2>2 DEF Next
  <2>4. lost' \subseteq lost \cup {line[v]}
    BY <2>3 DEF Enqueue
  <2> QED BY <2>3, <2>4
<1>2. PICK v \in Writer : Enqueue(v) /\ line[v] \in lost' \ lost /\ lost' \subseteq lost \cup {line[v]}
  BY <1>1
<1>3. pc[v] = "push" /\ line[v] = line[w]
  BY <1>2 DEF Enqueue, Goes
<1>4. v = w
  <2>1. line[v] # NoLine
    BY <1>0, <1>3 DEF WriterOK
  <2> QED BY <1>0, <1>3, <2>1 DEF WriterOK
<1>5. m_size >= MaxQueue
  BY <1>2 DEF Enqueue
<1>6. ~(m_size < MaxQueue)
  BY <1>0, <1>5, SizesAssumption DEF QueueData
<1> QED BY <1>0, <1>3, <1>4, <1>6 DEF SeenOK

(***************************************************************************)
(* A line is lost only if another thread has pushed between full() and     *)
(* push.                                                                   *)
(***************************************************************************)
THEOREM LosesOnlyByRace == Spec => LostOnlyByRace
<1>1. IInv /\ [Next]_vars
          => [\A w \in Writer : line[w] \in lost' \ lost => seen[w] < Pushes]_vars
  BY LosesOnlyRaced
<1> QED BY Invariance, <1>1, PTL DEF Spec, LostOnlyByRace

(***************************************************************************)
(* The ring of any size implements a bounded FIFO: every behaviour of the  *)
(* logger is one of QueueContract, without its liveness.                   *)
(***************************************************************************)
THEOREM ImplementsQueueSafety == Spec => Contract!Safety
<1>1. Init => Contract!Init
  BY DEF Init, Contract!Init, Ring
<1>2. IInv /\ [Next]_vars => [Contract!Next]_(Contract!vars)
  <2> SUFFICES ASSUME IInv, [Next]_vars
               PROVE  [Contract!Next]_(Contract!vars)
    OBVIOUS
  <2>0. /\ \/ Ring' = Ring /\ popped' = popped
           \/ /\ m_size < MaxQueue /\ popped' = popped
              /\ \E l \in Line : Ring' = Append(Ring, l)
           \/ /\ Ring # <<>> /\ Ring' = Tail(Ring)
              /\ popped' = Append(popped, Head(Ring))
        /\ dead' # dead => Ring' = Ring /\ popped' = popped /\ dead' = TRUE
    BY QueueStep DEF IInv
  <2>1. CASE dead' # dead
    BY <2>0, <2>1 DEF Contract!Next, Contract!Die
  <2>2. CASE dead' = dead /\ Ring' = Ring /\ popped' = popped
    BY <2>2 DEF Contract!vars
  <2>3. CASE dead' = dead /\ m_size < MaxQueue /\ popped' = popped
             /\ \E l \in Line : Ring' = Append(Ring, l)
    <3>1. Len(Ring) = m_size
      BY RingType, SizesAssumption DEF Ring, RingOK, IInv, Data
    <3> QED BY <2>3, <3>1 DEF Contract!Next, Contract!Put
  <2>4. CASE dead' = dead /\ Ring # <<>> /\ Ring' = Tail(Ring)
             /\ popped' = Append(popped, Head(Ring))
    BY <2>4 DEF Contract!Next, Contract!Take
  <2> QED BY <2>0, <2>1, <2>2, <2>3, <2>4
<1> QED BY Invariance, <1>1, <1>2, PTL DEF Spec, Contract!Safety

-------------------------------------------------------------------------------
(* Every line is in one place.                                             *)

InWriter(l) == \E w \in Writer : Holds(w) /\ line[w] = l
InQueue(l) == l \in Range(Ring)
InStream(l) == l \in Range(stream)
OnDisk(l) == \E d \in Day : l \in Range(file[d])

\* Of the six at most one holds, and one does for what was logged.
Exactly(w, q, c, s, f, x, logged) ==
    /\ logged <=> w \/ q \/ c \/ s \/ f \/ x
    /\ w => ~q /\ ~c /\ ~s /\ ~f /\ ~x
    /\ q => ~c /\ ~s /\ ~f /\ ~x
    /\ c => ~s /\ ~f /\ ~x
    /\ s => ~f /\ ~x
    /\ f => ~x

One(l) == Exactly(InWriter(l), InQueue(l), sinlge_log = l, InStream(l), OnDisk(l), l \in lost,
                  l <= lines)

\* No place has a line twice, and the consumer has one only while it writes it.
Distinct == /\ IsInjective(Ring)
            /\ IsInjective(stream)
            /\ \A d \in Day : IsInjective(file[d])
            /\ \A d, e \in Day : \A l \in Line : l \in Range(file[d]) /\ l \in Range(file[e])
                                                     => d = e
            /\ cpc # "write" => sinlge_log = NoLine

PInv == /\ IInv
        /\ Distinct
        /\ \A l \in Line : One(l)

LEMMA StaysOne ==
    ASSUME NEW l \in Line, One(l),
           InWriter(l)' <=> InWriter(l), InQueue(l)' <=> InQueue(l),
           (sinlge_log' = l) <=> (sinlge_log = l), InStream(l)' <=> InStream(l),
           OnDisk(l)' <=> OnDisk(l), (l \in lost') <=> (l \in lost),
           (l <= lines') <=> (l <= lines)
    PROVE  One(l)'
BY DEF One, Exactly

\* fflush takes the lines of the stream to the open file, fputs brings one to the stream.
LEMMA FflushMoves ==
    ASSUME Data, Distinct, Fflush, \A l \in Line : ~(InStream(l) /\ OnDisk(l))
    PROVE  /\ \A l \in Line : ~InStream(l)' /\ (OnDisk(l)' <=> OnDisk(l) \/ InStream(l))
           /\ IsInjective(stream')
           /\ \A d \in Day : IsInjective(file'[d])
           /\ \A d, e \in Day : \A l \in Line : l \in Range(file'[d]) /\ l \in Range(file'[e])
                                                    => d = e
<1>1. /\ stream \in Seq(Line) /\ file \in [Day -> Seq(Line)] /\ m_today \in Day
      /\ stream' = <<>> /\ file' = [file EXCEPT ![m_today] = file[m_today] \o stream]
  BY DEF Data, Fflush
<1>2. Range(file[m_today] \o stream) = Range(file[m_today]) \cup Range(stream)
  <2>1. file[m_today] \in Seq(Line) /\ stream \in Seq(Line)
    BY <1>1
  <2> QED BY <2>1, RangeConcatenation, Zenon
<1>3. IsInjective(file[m_today] \o stream)
  <2>1. Range(file[m_today]) \cap Range(stream) = {}
    <3>1. Range(stream) \subseteq Line
      BY <1>1 DEF Range
    <3> QED BY <1>1, <3>1 DEF InStream, OnDisk
  <2> QED BY <1>1, <2>1, InjectiveConcat DEF Distinct
<1>4. /\ file'[m_today] = file[m_today] \o stream
      /\ \A d \in Day \ {m_today} : file'[d] = file[d]
  BY <1>1
<1>5. \A d \in Day : \A l \in Line : l \in Range(file'[d]) <=> \/ l \in Range(file[d])
                                                               \/ d = m_today /\ InStream(l)
  BY <1>2, <1>4 DEF InStream
<1>6. \A l \in Line : ~InStream(l)' /\ (OnDisk(l)' <=> OnDisk(l) \/ InStream(l))
  BY <1>1, <1>5, EmptySequence DEF InStream, OnDisk
<1>7. \A d \in Day : IsInjective(file'[d])
  BY <1>3, <1>4 DEF Distinct
<1>8. ASSUME NEW d \in Day, NEW e \in Day, NEW l \in Line,
             l \in Range(file'[d]), l \in Range(file'[e])
      PROVE  d = e
  BY <1>5, <1>8 DEF Distinct, OnDisk
<1> QED BY <1>1, <1>6, <1>7, <1>8, EmptySequence

LEMMA FputsMoves ==
    ASSUME Data, Distinct, NEW k \in Line, Fputs(k), ~InStream(k)
    PROVE  /\ \A l \in Line : InStream(l)' <=> InStream(l) \/ l = k
           /\ \A l \in Line : OnDisk(l)' <=> OnDisk(l)
           /\ IsInjective(stream') /\ file' = file
<1>1. stream \in Seq(Line) /\ stream' = Append(stream, k) /\ file' = file
  BY DEF Data, Fputs
<1>2. Range(stream') = Range(stream) \cup {k} /\ IsInjective(stream')
  BY <1>1, RangeAppend, InjectiveAppend DEF Distinct, InStream
<1> QED BY <1>1, <1>2 DEF InStream, OnDisk

\* A writer that goes on keeps its line until it has pushed or written it.
LEMMA WriterMoves ==
    ASSUME Data, WriterOK, NEW w \in Writer, NEW from \in {"rotate", "route", "push", "direct"},
           NEW to \in {"route", "push", "direct", "flush"}, Goes(w, from, to), line' = line
    PROVE  /\ line[w] \in Line /\ InWriter(line[w])
           /\ \A l \in Line : InWriter(l)' <=> InWriter(l) /\ (to = "flush" => l # line[w])
<1>1. /\ pc \in [Writer -> {"idle", "rotate", "route", "push", "direct", "flush"}]
      /\ pc[w] = from /\ pc' = [pc EXCEPT ![w] = to]
  BY DEF Data, Goes
<1>2. line[w] # NoLine /\ line[w] \in Line
  BY <1>1 DEF WriterOK, Data
<1>3. InWriter(line[w])
  BY <1>1 DEF InWriter, Holds
<1>4. ASSUME NEW l \in Line PROVE InWriter(l)' <=> InWriter(l) /\ (to = "flush" => l # line[w])
  <2>1. \A v \in Writer \ {w} : (Holds(v)' <=> Holds(v)) /\ line'[v] = line[v]
    BY <1>1 DEF Holds
  <2>2. Holds(w) /\ (Holds(w)' <=> to # "flush") /\ line'[w] = line[w]
    BY <1>1 DEF Holds
  <2>3. \A v \in Writer : line[v] = line[w] => v = w
    BY <1>2 DEF WriterOK
  <2> QED BY <2>1, <2>2, <2>3 DEF InWriter
<1> QED BY <1>2, <1>3, <1>4

\* What is left alone.
LEMMA QueueStays ==
    ASSUME UNCHANGED queue
    PROVE  Ring' = Ring /\ \A l \in Line : InQueue(l)' <=> InQueue(l)
BY DEF queue, Ring, InQueue

LEMMA DiskStays ==
    ASSUME UNCHANGED <<stream, file>>
    PROVE  \A l \in Line : (InStream(l)' <=> InStream(l)) /\ (OnDisk(l)' <=> OnDisk(l))
BY DEF InStream, OnDisk

\* A new line is with its writer.
LEMMA StampOne ==
    ASSUME PInv, NEW w \in Writer, Stamp(w)
    PROVE  Distinct' /\ \A l \in Line : One(l)'
<1>1. Data /\ WriterOK /\ Distinct /\ \A l \in Line : One(l)
  BY DEF PInv, IInv
<1>2. /\ pc[w] = "idle" /\ lines < MaxLines /\ lines' = lines + 1
      /\ line' = [line EXCEPT ![w] = lines + 1] /\ pc' = [pc EXCEPT ![w] = "rotate"]
      /\ UNCHANGED <<queue, stream, file, cpc, sinlge_log, lost>>
  BY DEF Stamp, disk, consumer
<1>3. Ring' = Ring /\ \A l \in Line : InQueue(l)' <=> InQueue(l)
  BY <1>2, QueueStays
<1>4. \A l \in Line : (InStream(l)' <=> InStream(l)) /\ (OnDisk(l)' <=> OnDisk(l))
  BY <1>2, DiskStays
<1>5. /\ line \in [Writer -> Line \cup {NoLine}] /\ lines \in Nat
      /\ pc \in [Writer -> {"idle", "rotate", "route", "push", "direct", "flush"}]
  BY <1>1, SizesAssumption DEF Data
<1>6. \A l \in Line : InWriter(l)' <=> InWriter(l) \/ l = lines + 1
  <2>1. /\ \A v \in Writer \ {w} : line'[v] = line[v] /\ (Holds(v)' <=> Holds(v))
        /\ line'[w] = lines + 1 /\ Holds(w)' /\ ~Holds(w)
    BY <1>2, <1>5 DEF Holds
  <2> QED BY <2>1 DEF InWriter
<1>7. ASSUME NEW l \in Line PROVE One(l)'
  <2>1. CASE l = lines + 1
    <3>1. ~(l <= lines) /\ l <= lines'
      BY <1>2, <1>5, <2>1
    <3> QED BY <1>1, <1>2, <1>3, <1>4, <1>6, <2>1, <3>1 DEF One, Exactly
  <2>2. CASE l # lines + 1
    <3>1. (l <= lines') <=> (l <= lines)
      BY <1>2, <1>5, <2>2 DEF Line
    <3> QED BY <1>1, <1>2, <1>3, <1>4, <1>6, <2>2, <3>1, StaysOne
  <2> QED BY <2>1, <2>2
<1>8. Distinct'
  BY <1>1, <1>2, <1>3 DEF Distinct
<1> QED BY <1>7, <1>8

\* What the steps below begin from.
LEMMA Parts ==
    ASSUME PInv
    PROVE  /\ Data /\ QueueData /\ RingOK /\ WriterOK /\ Distinct
           /\ \A l \in Line : One(l)
           /\ \A l \in Line : ~(InStream(l) /\ OnDisk(l))
           /\ Ring \in Seq(Line)
<1>1. Data /\ QueueData /\ RingOK /\ WriterOK /\ Distinct /\ \A l \in Line : One(l)
  BY DEF PInv, IInv, Data, QueueData
<1>2. \A l \in Line : ~(InStream(l) /\ OnDisk(l))
  BY <1>1 DEF One, Exactly
<1>3. m_size \in Nat
  BY <1>1, SizesAssumption DEF QueueData
<1>4. Ring \in Seq(Line)
  BY <1>1, <1>3, RingType DEF RingOK, Ring
<1> QED BY <1>1, <1>2, <1>4

LEMMA RotateOne ==
    ASSUME PInv, NEW w \in Writer, Rotate(w) \/ Split(w)
    PROVE  Distinct' /\ \A l \in Line : One(l)'
<1>1. /\ Goes(w, "rotate", "route") /\ Fflush /\ line' = line
      /\ UNCHANGED <<queue, cpc, lines, lost, sinlge_log>>
  BY DEF Rotate, Split, Goes
<1>2. /\ \A l \in Line : ~InStream(l)' /\ (OnDisk(l)' <=> OnDisk(l) \/ InStream(l))
      /\ IsInjective(stream')
      /\ \A d \in Day : IsInjective(file'[d])
      /\ \A d, e \in Day : \A l \in Line : l \in Range(file'[d]) /\ l \in Range(file'[e])
                                               => d = e
  BY <1>1, Parts, FflushMoves
<1>3. \A l \in Line : InWriter(l)' <=> InWriter(l)
  BY <1>1, Parts, WriterMoves
<1>4. Ring' = Ring /\ \A l \in Line : InQueue(l)' <=> InQueue(l)
  BY <1>1, QueueStays
<1>5. Distinct'
  BY <1>1, <1>2, <1>4, Parts DEF Distinct
<1>6. ASSUME NEW l \in Line PROVE One(l)'
  BY <1>1, <1>2, <1>3, <1>4, Parts DEF One, Exactly
<1> QED BY <1>5, <1>6

LEMMA RouteOne ==
    ASSUME PInv, NEW w \in Writer, Stay(w) \/ Route(w)
    PROVE  Distinct' /\ \A l \in Line : One(l)'
<1>1. /\ \/ Goes(w, "rotate", "route") \/ Goes(w, "route", "push") \/ Goes(w, "route", "direct")
      /\ line' = line
      /\ UNCHANGED <<queue, stream, file, cpc, lines, lost, sinlge_log>>
  BY DEF Stay, Route, Goes, disk
<1>2. \A l \in Line : InWriter(l)' <=> InWriter(l)
  <2>1. CASE Goes(w, "rotate", "route")
    BY <1>1, <2>1, Parts, WriterMoves
  <2>2. CASE Goes(w, "route", "push")
    BY <1>1, <2>2, Parts, WriterMoves
  <2>3. CASE Goes(w, "route", "direct")
    BY <1>1, <2>3, Parts, WriterMoves
  <2> QED BY <1>1, <2>1, <2>2, <2>3
<1>3. Ring' = Ring /\ \A l \in Line : InQueue(l)' <=> InQueue(l)
  BY <1>1, QueueStays
<1>4. \A l \in Line : (InStream(l)' <=> InStream(l)) /\ (OnDisk(l)' <=> OnDisk(l))
  BY <1>1, DiskStays
<1>5. ASSUME NEW l \in Line PROVE One(l)'
  BY <1>1, <1>2, <1>3, <1>4, Parts, StaysOne
<1>6. Distinct'
  BY <1>1, <1>3, Parts DEF Distinct
<1> QED BY <1>5, <1>6

\* push takes the line to the queue, or loses it.
LEMMA EnqueueOne ==
    ASSUME PInv, NEW w \in Writer, Enqueue(w)
    PROVE  Distinct' /\ \A l \in Line : One(l)'
<1>1. /\ Goes(w, "push", "flush") /\ Push(line[w])
      /\ lost' = IF m_size >= MaxQueue THEN lost \cup {line[w]} ELSE lost
      /\ UNCHANGED <<stream, file, line, lines, sinlge_log>>
  BY DEF Enqueue, Goes, disk
<1>2. /\ line[w] \in Line /\ InWriter(line[w])
      /\ \A l \in Line : InWriter(l)' <=> InWriter(l) /\ l # line[w]
  BY <1>1, Parts, WriterMoves
<1>3. \A l \in Line : (InStream(l)' <=> InStream(l)) /\ (OnDisk(l)' <=> OnDisk(l))
  BY <1>1, DiskStays
<1>4. m_size \in Nat /\ MaxQueue \in Nat
  BY Parts, SizesAssumption DEF QueueData
<1>5. CASE m_size < MaxQueue
  <2>1. Ring' = Append(Ring, line[w]) /\ cpc' = IF cpc = "waiting" THEN "pop" ELSE cpc
    BY <1>1, <1>2, <1>5, Parts, PushAppends
  <2>2. line[w] \notin Range(Ring)
    BY <1>2, Parts DEF One, Exactly, InQueue
  <2>3. /\ Range(Ring') = Range(Ring) \cup {line[w]}
        /\ IsInjective(Ring')
    BY <1>2, <2>1, <2>2, Parts, RangeAppend, InjectiveAppend DEF Distinct
  <2>4. \A l \in Line : InQueue(l)' <=> InQueue(l) \/ l = line[w]
    BY <2>3 DEF InQueue
  <2>5. lost' = lost
    BY <1>1, <1>4, <1>5
  <2>6. ASSUME NEW l \in Line PROVE One(l)'
    BY <1>1, <1>2, <1>3, <2>4, <2>5, Parts DEF One, Exactly
  <2>7. Distinct'
    BY <1>1, <2>1, <2>3, Parts DEF Distinct
  <2> QED BY <2>6, <2>7
<1>6. CASE ~(m_size < MaxQueue)
  <2>1. UNCHANGED <<m_array, m_size, m_front, m_back, popped, cpc>>
    BY <1>1, <1>6, Parts, PushRefused
  <2>2. Ring' = Ring /\ \A l \in Line : InQueue(l)' <=> InQueue(l)
    BY <2>1, QueueStays DEF queue
  <2>3. lost' = lost \cup {line[w]}
    BY <1>1, <1>4, <1>6
  <2>4. ASSUME NEW l \in Line PROVE One(l)'
    BY <1>1, <1>2, <1>3, <2>2, <2>3, Parts DEF One, Exactly
  <2>5. Distinct'
    BY <1>1, <2>1, <2>2, Parts DEF Distinct
  <2> QED BY <2>4, <2>5
<1> QED BY <1>5, <1>6

LEMMA DirectOne ==
    ASSUME PInv, NEW w \in Writer, Direct(w)
    PROVE  Distinct' /\ \A l \in Line : One(l)'
<1>1. /\ Goes(w, "direct", "flush") /\ Fputs(line[w])
      /\ UNCHANGED <<queue, line, cpc, lines, lost, sinlge_log>>
  BY DEF Direct, Goes
<1>2. /\ line[w] \in Line /\ InWriter(line[w])
      /\ \A l \in Line : InWriter(l)' <=> InWriter(l) /\ l # line[w]
  BY <1>1, Parts, WriterMoves
<1>3. ~InStream(line[w])
  BY <1>2, Parts DEF One, Exactly
<1>4. /\ \A l \in Line : InStream(l)' <=> InStream(l) \/ l = line[w]
      /\ \A l \in Line : OnDisk(l)' <=> OnDisk(l)
      /\ IsInjective(stream') /\ file' = file
  BY <1>1, <1>2, <1>3, Parts, FputsMoves
<1>5. Ring' = Ring /\ \A l \in Line : InQueue(l)' <=> InQueue(l)
  BY <1>1, QueueStays
<1>6. ASSUME NEW l \in Line PROVE One(l)'
  BY <1>1, <1>2, <1>4, <1>5, Parts DEF One, Exactly
<1>7. Distinct'
  BY <1>1, <1>4, <1>5, Parts DEF Distinct
<1> QED BY <1>6, <1>7

LEMMA FlushOne ==
    ASSUME PInv, NEW w \in Writer, Flush(w)
    PROVE  Distinct' /\ \A l \in Line : One(l)'
<1>1. /\ pc[w] = "flush" /\ pc' = [pc EXCEPT ![w] = "idle"] /\ Fflush
      /\ line' = [line EXCEPT ![w] = NoLine]
      /\ UNCHANGED <<queue, cpc, lines, lost, sinlge_log>>
  BY DEF Flush, Goes
<1>2. /\ \A l \in Line : ~InStream(l)' /\ (OnDisk(l)' <=> OnDisk(l) \/ InStream(l))
      /\ IsInjective(stream')
      /\ \A d \in Day : IsInjective(file'[d])
      /\ \A d, e \in Day : \A l \in Line : l \in Range(file'[d]) /\ l \in Range(file'[e])
                                               => d = e
  BY <1>1, Parts, FflushMoves
<1>3. /\ line \in [Writer -> Line \cup {NoLine}]
      /\ pc \in [Writer -> {"idle", "rotate", "route", "push", "direct", "flush"}]
  BY Parts DEF Data
<1>4. \A l \in Line : InWriter(l)' <=> InWriter(l)
  <2>1. \A v \in Writer \ {w} : line'[v] = line[v] /\ (Holds(v)' <=> Holds(v))
    BY <1>1, <1>3 DEF Holds
  <2>2. ~Holds(w) /\ ~Holds(w)'
    BY <1>1, <1>3 DEF Holds
  <2> QED BY <2>1, <2>2 DEF InWriter
<1>5. Ring' = Ring /\ \A l \in Line : InQueue(l)' <=> InQueue(l)
  BY <1>1, QueueStays
<1>6. ASSUME NEW l \in Line PROVE One(l)'
  BY <1>1, <1>2, <1>4, <1>5, Parts DEF One, Exactly
<1>7. Distinct'
  BY <1>1, <1>2, <1>5, Parts DEF Distinct
<1> QED BY <1>6, <1>7

\* Writers that stay where they are keep what they have.
LEMMA WritersStay ==
    ASSUME UNCHANGED <<pc, line>>
    PROVE  \A l \in Line : InWriter(l)' <=> InWriter(l)
BY DEF InWriter, Holds

\* pop takes a line from the queue to the consumer, who has none.
LEMMA PopOne ==
    ASSUME PInv, Pop
    PROVE  Distinct' /\ \A l \in Line : One(l)'
<1>1. /\ cpc = "pop" /\ cpc' = "write" /\ sinlge_log' = Taken
      /\ UNCHANGED <<stream, file, pc, line, lines, lost>>
  BY DEF Pop, disk
<1>2. /\ Taken \in Line /\ Ring # <<>> /\ Head(Ring) = Taken /\ Ring' = Tail(Ring)
  BY Parts, PopTakes
<1>3. sinlge_log = NoLine
  BY <1>1, Parts DEF Distinct
<1>4. /\ Range(Ring) = {Taken} \cup Range(Ring') /\ Taken \notin Range(Ring')
      /\ IsInjective(Ring')
  BY <1>2, Parts, SplitHead, InjectiveTail DEF Distinct
<1>5. \A l \in Line : InQueue(l)' <=> InQueue(l) /\ l # Taken
  BY <1>4 DEF InQueue
<1>6. InQueue(Taken)
  BY <1>4 DEF InQueue
<1>7. \A l \in Line : InWriter(l)' <=> InWriter(l)
  BY <1>1, WritersStay
<1>8. \A l \in Line : (InStream(l)' <=> InStream(l)) /\ (OnDisk(l)' <=> OnDisk(l))
  BY <1>1, DiskStays
<1>9. ASSUME NEW l \in Line PROVE One(l)'
  <2>1. sinlge_log # l
    BY <1>3 DEF Line, NoLine
  <2> QED BY <1>1, <1>2, <1>5, <1>6, <1>7, <1>8, <2>1, Parts DEF One, Exactly
<1>10. Distinct'
  BY <1>1, <1>4, Parts DEF Distinct
<1> QED BY <1>9, <1>10

LEMMA WriteOutOne ==
    ASSUME PInv, WriteOut
    PROVE  Distinct' /\ \A l \in Line : One(l)'
<1>1. /\ cpc = "write" /\ cpc' = "pop" /\ sinlge_log' = NoLine /\ Fputs(sinlge_log)
      /\ UNCHANGED <<queue, pc, line, lines, lost>>
  BY DEF WriteOut
<1>2. sinlge_log \in Line
  BY <1>1, Parts DEF WriterOK, QueueData, Range
<1>3. ~InStream(sinlge_log)
  BY <1>2, Parts DEF One, Exactly
<1>4. /\ \A l \in Line : InStream(l)' <=> InStream(l) \/ l = sinlge_log
      /\ \A l \in Line : OnDisk(l)' <=> OnDisk(l)
      /\ IsInjective(stream') /\ file' = file
  BY <1>1, <1>2, <1>3, Parts, FputsMoves
<1>5. Ring' = Ring /\ \A l \in Line : InQueue(l)' <=> InQueue(l)
  BY <1>1, QueueStays
<1>6. \A l \in Line : InWriter(l)' <=> InWriter(l)
  BY <1>1, WritersStay
<1>7. ASSUME NEW l \in Line PROVE One(l)'
  <2>1. sinlge_log' # l
    BY <1>1 DEF Line, NoLine
  <2> QED BY <1>1, <1>4, <1>5, <1>6, <2>1, Parts DEF One, Exactly
<1>8. Distinct'
  BY <1>1, <1>4, <1>5, Parts DEF Distinct
<1> QED BY <1>7, <1>8

LEMMA OthersOne ==
    ASSUME PInv, Wait \/ Spurious \/ Midnight \/ UNCHANGED vars
    PROVE  Distinct' /\ \A l \in Line : One(l)'
<1>1. /\ UNCHANGED <<queue, stream, file, pc, line, lines, lost, sinlge_log>>
      /\ cpc' = "write" => cpc = "write"
      /\ cpc = "write" => cpc' = "write"
  BY DEF Wait, Spurious, Midnight, vars, disk, consumer
<1>2. Ring' = Ring /\ \A l \in Line : InQueue(l)' <=> InQueue(l)
  BY <1>1, QueueStays
<1>3. \A l \in Line : InWriter(l)' <=> InWriter(l)
  BY <1>1, WritersStay
<1>4. \A l \in Line : (InStream(l)' <=> InStream(l)) /\ (OnDisk(l)' <=> OnDisk(l))
  BY <1>1, DiskStays
<1>5. ASSUME NEW l \in Line PROVE One(l)'
  BY <1>1, <1>2, <1>3, <1>4, Parts, StaysOne
<1>6. Distinct'
  BY <1>1, <1>2, Parts DEF Distinct
<1> QED BY <1>5, <1>6

LEMMA InitiallyOne == Init => PInv
<1> SUFFICES ASSUME Init PROVE PInv
  OBVIOUS
<1>1. /\ m_size = 0 /\ stream = <<>> /\ file = [d \in Day |-> <<>>] /\ lines = 0 /\ lost = {}
      /\ sinlge_log = NoLine /\ pc = [w \in Writer |-> "idle"]
  BY DEF Init
<1>2. Ring = <<>>
  BY <1>1 DEF Ring
<1>3. Distinct
  BY <1>1, <1>2, EmptySequence DEF Distinct
<1>4. ASSUME NEW l \in Line PROVE One(l)
  <2>1. ~InWriter(l) /\ ~InQueue(l) /\ ~InStream(l) /\ ~OnDisk(l)
    BY <1>1, <1>2, EmptySequence DEF InWriter, Holds, InQueue, InStream, OnDisk
  <2>2. sinlge_log # l /\ l \notin lost /\ ~(l <= lines)
    BY <1>1 DEF Line, NoLine
  <2> QED BY <2>1, <2>2 DEF One, Exactly
<1> QED BY <1>3, <1>4, Initially DEF PInv

LEMMA StepOne == PInv /\ [Next]_vars => PInv'
<1> SUFFICES ASSUME PInv, [Next]_vars PROVE PInv'
  OBVIOUS
<1>1. IInv'
  BY FlagsStep, DataStep, QueueStep, WriterOKStep, SeenOKStep, DurableStep DEF IInv, PInv
<1>2. Distinct' /\ \A l \in Line : One(l)'
  BY StampOne, RotateOne, RouteOne, EnqueueOne, DirectOne, FlushOne, PopOne, WriteOutOne,
     OthersOne DEF Next, WriterStep, ConsumerStep
<1> QED BY <1>1, <1>2 DEF PInv

-------------------------------------------------------------------------------
(* The places of a line, one by one.                                       *)

WriterPlace(l) == {<<"writer", w>> : w \in {v \in Writer : Holds(v) /\ line[v] = l}}
QueuePlace(l) == {<<"queue", i>> : i \in {j \in 1 .. m_size : Ring[j] = l}}
ConsumerPlace(l) == {<<"consumer">> : x \in {1} \cap {y \in {1} : sinlge_log = l}}
StreamPlace(l) == {<<"stream", i>> : i \in {j \in DOMAIN stream : stream[j] = l}}
FilePlace(l) == UNION {{<<"file", d, i>> : i \in {j \in DOMAIN file[d] : file[d][j] = l}}
                          : d \in Day}
LostPlace(l) == {<<"lost">> : x \in lost \cap {l}}

Sole(S) == \E p \in S : S = {p}

At(tag, s, l) == {<<tag, i>> : i \in {j \in DOMAIN s : s[j] = l}}

LEMMA ListPlace ==
    ASSUME NEW l, NEW s \in Seq(Line), IsInjective(s), NEW tag
    PROVE  /\ l \in Range(s) => Sole(At(tag, s, l))
           /\ l \notin Range(s) => At(tag, s, l) = {}
<1>1. ASSUME l \in Range(s) PROVE Sole(At(tag, s, l))
  <2>1. PICK i \in DOMAIN s : s[i] = l
    BY <1>1 DEF Range
  <2>2. At(tag, s, l) = {<<tag, i>>}
    BY <2>1 DEF IsInjective, At
  <2> QED BY <2>2 DEF Sole
<1>2. l \notin Range(s) => At(tag, s, l) = {}
  BY DEF Range, At
<1> QED BY <1>1, <1>2

LEMMA WriterPlaceOne ==
    ASSUME PInv, NEW l \in Line
    PROVE  IF InWriter(l) THEN Sole(WriterPlace(l)) ELSE WriterPlace(l) = {}
<1>1. CASE InWriter(l)
  <2>1. PICK w \in Writer : Holds(w) /\ line[w] = l
    BY <1>1 DEF InWriter
  <2>2. l # NoLine
    BY DEF Line, NoLine
  <2>3. \A v \in Writer : line[v] = l => v = w
    BY <2>1, <2>2, Parts DEF WriterOK
  <2>4. WriterPlace(l) = {<<"writer", w>>}
    BY <2>1, <2>3 DEF WriterPlace
  <2> QED BY <1>1, <2>4 DEF Sole
<1>2. CASE ~InWriter(l)
  BY <1>2 DEF InWriter, WriterPlace
<1> QED BY <1>1, <1>2

LEMMA QueuePlaceOne ==
    ASSUME PInv, NEW l \in Line
    PROVE  IF InQueue(l) THEN Sole(QueuePlace(l)) ELSE QueuePlace(l) = {}
<1>1. m_size \in Nat
  BY Parts, SizesAssumption DEF QueueData
<1>2. DOMAIN Ring = 1 .. m_size
  BY DEF Ring
<1>3. QueuePlace(l) = At("queue", Ring, l)
  BY <1>2 DEF QueuePlace, At
<1>4. Ring \in Seq(Line) /\ IsInjective(Ring)
  BY Parts DEF Distinct
<1>5. /\ l \in Range(Ring) => Sole(QueuePlace(l))
      /\ l \notin Range(Ring) => QueuePlace(l) = {}
  BY <1>3, <1>4, ListPlace
<1> QED BY <1>5 DEF InQueue

LEMMA StreamPlaceOne ==
    ASSUME PInv, NEW l \in Line
    PROVE  IF InStream(l) THEN Sole(StreamPlace(l)) ELSE StreamPlace(l) = {}
<1>1. stream \in Seq(Line) /\ IsInjective(stream)
  BY Parts DEF Data, Distinct
<1>2. StreamPlace(l) = At("stream", stream, l)
  BY DEF StreamPlace, At
<1>3. /\ l \in Range(stream) => Sole(StreamPlace(l))
      /\ l \notin Range(stream) => StreamPlace(l) = {}
  BY <1>1, <1>2, ListPlace
<1> QED BY <1>3 DEF InStream

LEMMA FilePlaceOne ==
    ASSUME PInv, NEW l \in Line
    PROVE  IF OnDisk(l) THEN Sole(FilePlace(l)) ELSE FilePlace(l) = {}
<1> DEFINE In(d) == {<<"file", d, i>> : i \in {j \in DOMAIN file[d] : file[d][j] = l}}
<1>1. FilePlace(l) = UNION {In(d) : d \in Day}
  BY DEF FilePlace
<1>2. \A d \in Day : l \notin Range(file[d]) => In(d) = {}
  BY DEF Range
<1>3. \A d \in Day : l \in Range(file[d]) => Sole(In(d))
  <2> SUFFICES ASSUME NEW d \in Day, l \in Range(file[d]) PROVE Sole(In(d))
    OBVIOUS
  <2>1. PICK i \in DOMAIN file[d] : file[d][i] = l
    BY DEF Range
  <2>2. IsInjective(file[d])
    BY Parts DEF Distinct
  <2>3. \A j \in DOMAIN file[d] : file[d][j] = l <=> j = i
    BY <2>1, <2>2 DEF IsInjective
  <2>4. In(d) = {<<"file", d, i>>}
    BY <2>1, <2>3
  <2> QED BY <2>4 DEF Sole
<1>4. \A d, e \in Day : l \in Range(file[d]) /\ l \in Range(file[e]) => d = e
  BY Parts DEF Distinct
<1> HIDE DEF In
<1>5. CASE OnDisk(l)
  <2>1. PICK d \in Day : l \in Range(file[d])
    BY <1>5 DEF OnDisk
  <2>2. \A e \in Day \ {d} : In(e) = {}
    BY <1>2, <1>4, <2>1
  <2>3. FilePlace(l) = In(d)
    BY <1>1, <2>2
  <2> QED BY <1>3, <1>5, <2>1, <2>3
<1>6. CASE ~OnDisk(l)
  BY <1>1, <1>2, <1>6 DEF OnDisk
<1> QED BY <1>5, <1>6

LEMMA OtherPlaces ==
    ASSUME NEW l
    PROVE  /\ IF sinlge_log = l THEN Sole(ConsumerPlace(l)) ELSE ConsumerPlace(l) = {}
           /\ IF l \in lost THEN Sole(LostPlace(l)) ELSE LostPlace(l) = {}
<1>1. ASSUME sinlge_log = l PROVE Sole(ConsumerPlace(l))
  <2>1. ConsumerPlace(l) = {<<"consumer">>}
    BY <1>1 DEF ConsumerPlace
  <2> QED BY <2>1 DEF Sole
<1>2. sinlge_log # l => ConsumerPlace(l) = {}
  BY DEF ConsumerPlace
<1>3. ASSUME l \in lost PROVE Sole(LostPlace(l))
  <2>1. LostPlace(l) = {<<"lost">>}
    BY <1>3 DEF LostPlace
  <2> QED BY <2>1 DEF Sole
<1>4. l \notin lost => LostPlace(l) = {}
  BY DEF LostPlace
<1> QED BY <1>1, <1>2, <1>3, <1>4

(***************************************************************************)
(* Every line that was logged is in one place, and there once, whatever    *)
(* the size of the queue and however many threads log.                     *)
(***************************************************************************)
THEOREM EveryLineAccounted == Spec => []LinesAccounted
<1>1. ASSUME PInv, NEW l \in 1 .. lines PROVE Sole(Places(l))
  <2>1. l \in Line /\ l <= lines
    BY <1>1, Parts, SizesAssumption DEF Data, Line
  <2>2. Places(l) = WriterPlace(l) \cup QueuePlace(l) \cup ConsumerPlace(l)
                    \cup StreamPlace(l) \cup FilePlace(l) \cup LostPlace(l)
    BY DEF Places, WriterPlace, QueuePlace, ConsumerPlace, StreamPlace, FilePlace, LostPlace
  <2>3. One(l)
    BY <1>1, <2>1, Parts
  <2>4. /\ IF InWriter(l) THEN Sole(WriterPlace(l)) ELSE WriterPlace(l) = {}
        /\ IF InQueue(l) THEN Sole(QueuePlace(l)) ELSE QueuePlace(l) = {}
        /\ IF sinlge_log = l THEN Sole(ConsumerPlace(l)) ELSE ConsumerPlace(l) = {}
        /\ IF InStream(l) THEN Sole(StreamPlace(l)) ELSE StreamPlace(l) = {}
        /\ IF OnDisk(l) THEN Sole(FilePlace(l)) ELSE FilePlace(l) = {}
        /\ IF l \in lost THEN Sole(LostPlace(l)) ELSE LostPlace(l) = {}
    BY <1>1, <2>1, WriterPlaceOne, QueuePlaceOne, StreamPlaceOne, FilePlaceOne, OtherPlaces
  <2>5. \A P, Q : P = {} => P \cup Q = Q /\ Q \cup P = Q
    OBVIOUS
  <2>6. CASE InWriter(l)
    <3>1. Places(l) = WriterPlace(l)
      BY <2>1, <2>2, <2>3, <2>4, <2>6 DEF One, Exactly
    <3> QED BY <2>4, <2>6, <3>1
  <2>7. CASE InQueue(l)
    <3>1. Places(l) = QueuePlace(l)
      BY <2>1, <2>2, <2>3, <2>4, <2>7 DEF One, Exactly
    <3> QED BY <2>4, <2>7, <3>1
  <2>8. CASE sinlge_log = l
    <3>1. Places(l) = ConsumerPlace(l)
      BY <2>1, <2>2, <2>3, <2>4, <2>8 DEF One, Exactly
    <3> QED BY <2>4, <2>8, <3>1
  <2>9. CASE InStream(l)
    <3>1. Places(l) = StreamPlace(l)
      BY <2>1, <2>2, <2>3, <2>4, <2>9 DEF One, Exactly
    <3> QED BY <2>4, <2>9, <3>1
  <2>10. CASE OnDisk(l)
    <3>1. Places(l) = FilePlace(l)
      BY <2>1, <2>2, <2>3, <2>4, <2>10 DEF One, Exactly
    <3> QED BY <2>4, <2>10, <3>1
  <2>11. CASE l \in lost
    <3>1. Places(l) = LostPlace(l)
      BY <2>1, <2>2, <2>3, <2>4, <2>11 DEF One, Exactly
    <3> QED BY <2>4, <2>11, <3>1
  <2> QED BY <2>1, <2>3, <2>6, <2>7, <2>8, <2>9, <2>10, <2>11 DEF One, Exactly
<1>2. PInv => LinesAccounted
  BY <1>1 DEF LinesAccounted, Sole
<1> QED BY InitiallyOne, StepOne, <1>2, PTL DEF Spec
===============================================================================
