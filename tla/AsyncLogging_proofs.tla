-------------------------- MODULE AsyncLogging_proofs --------------------------
(***************************************************************************)
(* Theorems about AsyncLogging, for every number and size of buffers.      *)
(***************************************************************************)
EXTENDS AsyncLogging, SequenceLemmas, FiniteSetTheorems

\* Between two rounds the back end has its two spare buffers and no batch; in a round it has
\* given the first away, and a batch long enough to get back what is missing.
Between == {"begin", "check", "top", "waiting", "exited"}
Within == {"swapped", "write", "recycle"}

BackOK ==
    /\ latch = 0 <=> pc # "begin"
    /\ pc = "begin" => running
    /\ pc \in Between => newBuffer1 # Null /\ newBuffer2 # Null /\ buffersToWrite = <<>>
    /\ pc \in Within => /\ newBuffer1 = Null /\ Len(buffersToWrite) >= 1
                        /\ newBuffer2 = Null => Len(buffersToWrite) >= 2

\* The spare buffers are empty.
SparesEmpty == /\ newBuffer1 # Null => data[newBuffer1] = <<>>
               /\ newBuffer2 # Null => data[newBuffer2] = <<>>

\* The types of what is true or false, and of the rest.
Flags == running \in BOOLEAN /\ signalled \in BOOLEAN

Owners ==
    /\ currentBuffer \in Buffer
    /\ nextBuffer \in Buffer \cup {Null}
    /\ newBuffer1 \in Buffer \cup {Null}
    /\ newBuffer2 \in Buffer \cup {Null}
    /\ buffers \in Seq(Buffer)
    /\ buffersToWrite \in Seq(Buffer)

Stores ==
    /\ data \in [Buffer -> Seq(1 .. MaxLines)]
    /\ file \in Seq(1 .. MaxLines)
    /\ lost \in SUBSET (1 .. MaxLines)

Numbers ==
    /\ written \in Nat
    /\ latch \in {0, 1}
    /\ pc \in Place
    /\ now \in Nat
    /\ appended \in 0 .. MaxLines

\* OneOwner, said of the pointers one by one.
Apart ==
    /\ currentBuffer \notin {nextBuffer, newBuffer1, newBuffer2}
    /\ nextBuffer # Null => nextBuffer \notin {newBuffer1, newBuffer2}
    /\ newBuffer1 # Null => newBuffer1 # newBuffer2
    /\ IsInjective(buffers) /\ IsInjective(buffersToWrite)
    /\ Range(buffers) \cap Range(buffersToWrite) = {}
    /\ \A b \in {currentBuffer, nextBuffer, newBuffer1, newBuffer2} :
          b \notin Range(buffers) /\ b \notin Range(buffersToWrite)

\* nextBuffer_ is missing only while full buffers wait to be swapped out: the round that
\* finds it missing has two buffers to recycle.
NextIsMissed == nextBuffer = Null => buffers # <<>>

(***************************************************************************)
(* The inductive invariant.                                                *)
(***************************************************************************)
IInv == /\ Flags /\ Owners /\ Stores /\ Numbers
        /\ BackOK /\ SparesEmpty /\ Apart /\ NextIsMissed

LEMMA TypeParts == TypeOK <=> Flags /\ Owners /\ Stores /\ Numbers
BY DEF TypeOK, Flags, Owners, Stores, Numbers

LEMMA ApartOwners == Apart => OneOwner
<1> SUFFICES ASSUME Apart PROVE OneOwner
  OBVIOUS
<1> DEFINE p == <<currentBuffer, nextBuffer, newBuffer1, newBuffer2>>
<1>1. /\ p[1] = currentBuffer /\ p[2] = nextBuffer
      /\ p[3] = newBuffer1 /\ p[4] = newBuffer2
  OBVIOUS
<1>2. \A i \in 1 .. 4 : i = 1 \/ i = 2 \/ i = 3 \/ i = 4
  OBVIOUS
<1>3. ASSUME NEW i \in 1 .. 4, NEW j \in 1 .. 4, p[i] = p[j], p[i] # Null
      PROVE  i = j
  <2> HIDE DEF p
  <2> QED BY <1>1, <1>2, <1>3 DEF Apart
<1>4. Pointers \cap (Range(buffers) \cup Range(buffersToWrite)) = {}
  BY DEF Apart, Pointers
<1> QED BY <1>3, <1>4 DEF OneOwner, Apart

-------------------------------------------------------------------------------
(* The start.                                                              *)

\* There are four buffers, so that there is another one than any three.
LEMMA AnotherBuffer ==
    ASSUME NEW x, NEW y, NEW z
    PROVE  \E b \in Buffer : b # x /\ b # y /\ b # z
<1>1. PICK s \in [1 .. 4 -> Buffer] : IsInjective(s)
  BY BufferAssumption
<1>2. /\ s[1] \in Buffer /\ s[2] \in Buffer /\ s[3] \in Buffer /\ s[4] \in Buffer
      /\ s[1] # s[2] /\ s[1] # s[3] /\ s[1] # s[4]
      /\ s[2] # s[3] /\ s[2] # s[4] /\ s[3] # s[4]
  BY <1>1 DEF IsInjective
<1> QED BY <1>2

\* What CHOOSE takes from a set that has an element.
LEMMA Chosen ==
    ASSUME NEW S, \E b \in S : TRUE
    PROVE  (CHOOSE b \in S : TRUE) \in S
OBVIOUS

LEMMA AnotherChosen ==
    ASSUME NEW x, NEW y, NEW z
    PROVE  (CHOOSE b \in Buffer \ {x, y, z} : TRUE) \in Buffer \ {x, y, z}
<1>1. PICK b \in Buffer : b # x /\ b # y /\ b # z
  BY AnotherBuffer
<1>2. \E c \in Buffer \ {x, y, z} : TRUE
  BY <1>1
<1> QED BY <1>2, Chosen

LEMMA Initially == Init => IInv
<1> SUFFICES ASSUME Init PROVE IInv
  OBVIOUS
<1> DEFINE b1 == CHOOSE b \in Buffer : TRUE
           b2 == CHOOSE b \in Buffer \ {b1} : TRUE
           b3 == CHOOSE b \in Buffer \ {b1, b2} : TRUE
           b4 == CHOOSE b \in Buffer \ {b1, b2, b3} : TRUE
<1>1. b1 \in Buffer
  <2>1. \E b \in Buffer : TRUE
    BY BufferAssumption, AnotherBuffer
  <2> QED BY <2>1, Chosen
<1> HIDE DEF b1, b2, b3, b4
<1>2. b2 \in Buffer \ {b1}
  <2>1. PICK b \in Buffer : b # b1
    BY AnotherBuffer
  <2>2. \E c \in Buffer \ {b1} : TRUE
    BY <2>1
  <2> QED BY <2>2, Chosen DEF b2
<1>3. b3 \in Buffer \ {b1, b2}
  <2>1. PICK b \in Buffer : b # b1 /\ b # b2
    BY AnotherBuffer
  <2>2. \E c \in Buffer \ {b1, b2} : TRUE
    BY <2>1
  <2> QED BY <2>2, Chosen DEF b3
<1>4. b4 \in Buffer \ {b1, b2, b3}
  BY AnotherChosen DEF b4
<1>5. /\ currentBuffer = b1 /\ nextBuffer = b2 /\ newBuffer1 = b3 /\ newBuffer2 = b4
      /\ data = [b \in Buffer |-> <<>>]
      /\ buffers = <<>> /\ buffersToWrite = <<>> /\ written = 0
      /\ running = TRUE /\ latch = 1 /\ pc = "begin"
      /\ signalled = FALSE /\ now = BootTime
      /\ appended = 0 /\ file = <<>> /\ lost = {}
  BY DEF Init, b1, b2, b3, b4
<1>6. Flags /\ Owners /\ Stores /\ Numbers
  <2>1. Flags
    BY <1>5 DEF Flags
  <2>2. Owners
    BY <1>1, <1>2, <1>3, <1>4, <1>5 DEF Owners
  <2>3. Stores
    BY <1>5 DEF Stores
  <2>4. Numbers
    BY <1>5, TimeAssumption DEF Numbers, Place
  <2> QED BY <2>1, <2>2, <2>3, <2>4
<1>7. BackOK /\ SparesEmpty /\ NextIsMissed
  BY <1>1, <1>2, <1>3, <1>4, <1>5, BufferAssumption
     DEF BackOK, SparesEmpty, NextIsMissed, Between, Within
<1>8. Apart
  <2>1. Range(<<>>) = {} /\ IsInjective(<<>>)
    BY DEF Range, IsInjective
  <2> QED BY <1>1, <1>2, <1>3, <1>4, <1>5, <2>1 DEF Apart
<1> QED BY <1>6, <1>7, <1>8 DEF IInv

-------------------------------------------------------------------------------
(* Every step keeps the invariant.                                         *)

LEMMA FlagsStep == Flags /\ [Next]_vars => Flags'
BY DEF Flags, Next, AppendLine, AppendFits, AppendRotates, Stop, Tick, BackStep, Begin, Check,
       Wait, Swap, Cut, Write, Written, Recycle, vars

\* What the operations on the contents of buffers do.
LEMMA AppendedType ==
    ASSUME Stores, Numbers, NEW b \in Buffer, appended < MaxLines
    PROVE  /\ Appended(data, b, appended + 1) \in [Buffer -> Seq(1 .. MaxLines)]
           /\ \A c \in Buffer : c # b => Appended(data, b, appended + 1)[c] = data[c]
           /\ appended + 1 \in 0 .. MaxLines
<1>1. appended + 1 \in 1 .. MaxLines
  BY TimeAssumption DEF Numbers
<1> QED BY <1>1 DEF Stores, Appended

LEMMA EmptiedType ==
    ASSUME Stores, NEW bs
    PROVE  /\ Emptied(bs) \in [Buffer -> Seq(1 .. MaxLines)]
           /\ \A b \in Buffer : data[b] = <<>> => Emptied(bs)[b] = <<>>
           /\ \A b \in Buffer \cap bs : Emptied(bs)[b] = <<>>
<1>1. <<>> \in Seq(1 .. MaxLines)
  OBVIOUS
<1>2. \A b \in Buffer : data[b] \in Seq(1 .. MaxLines)
  BY DEF Stores
<1>3. \A b \in Buffer : (IF b \in bs THEN <<>> ELSE data[b]) \in Seq(1 .. MaxLines)
  BY <1>1, <1>2
<1>4. Emptied(bs) \in [Buffer -> Seq(1 .. MaxLines)]
  BY <1>3, Zenon DEF Emptied
<1>5. \A b \in Buffer : Emptied(bs)[b] = IF b \in bs THEN <<>> ELSE data[b]
  BY Zenon DEF Emptied
<1> QED BY <1>4, <1>5

LEMMA RangeWithin ==
    ASSUME NEW S, NEW s \in Seq(S)
    PROVE  Range(s) \subseteq S
BY LenProperties DEF Range

\* The steps that leave the buffers where they are.
LEMMA QuietSteps ==
    ASSUME IInv, Stop \/ Tick \/ Begin \/ Check \/ Wait \/ UNCHANGED vars
    PROVE  Owners' /\ Stores' /\ Numbers' /\ BackOK' /\ SparesEmpty' /\ Apart' /\ NextIsMissed'
<1>1. UNCHANGED <<data, currentBuffer, nextBuffer, buffers, newBuffer1, newBuffer2,
                  buffersToWrite, written, appended, file, lost>>
  BY DEF Stop, Tick, Begin, Check, Wait, vars, front, back
<1>2. Owners' /\ Stores' /\ SparesEmpty' /\ Apart' /\ NextIsMissed'
  BY <1>1 DEF IInv, Owners, Stores, SparesEmpty, Apart, NextIsMissed
<1>3. Numbers' /\ BackOK'
  <2>1. CASE Stop
    BY <2>1 DEF IInv, Numbers, BackOK, Stop, front, back
  <2>2. CASE Tick
    BY <2>2 DEF IInv, Numbers, BackOK, Tick, front, back
  <2>3. CASE Begin
    BY <2>3 DEF IInv, Numbers, BackOK, Begin, front, Place, Between, Within
  <2>4. CASE Check
    BY <2>4 DEF IInv, Numbers, BackOK, Check, front, Place, Between, Within
  <2>5. CASE Wait
    BY <2>5 DEF IInv, Numbers, BackOK, Wait, front, Place, Between, Within
  <2>6. CASE UNCHANGED vars
    BY <2>6 DEF IInv, Numbers, BackOK, vars, front, back
  <2> QED BY <2>1, <2>2, <2>3, <2>4, <2>5, <2>6
<1> QED BY <1>2, <1>3

LEMMA AppendFitsStep ==
    ASSUME IInv, AppendFits
    PROVE  Owners' /\ Stores' /\ Numbers' /\ BackOK' /\ SparesEmpty' /\ Apart' /\ NextIsMissed'
<1>1. Owners' /\ BackOK' /\ Apart' /\ NextIsMissed'
  BY DEF IInv, AppendFits, back, Owners, BackOK, Apart, NextIsMissed
<1>2. /\ data' \in [Buffer -> Seq(1 .. MaxLines)]
      /\ \A c \in Buffer : c # currentBuffer => data'[c] = data[c]
      /\ appended' \in 0 .. MaxLines
  BY AppendedType DEF IInv, AppendFits, Owners
<1>3. Stores'
  BY <1>2 DEF IInv, AppendFits, back, Stores
<1>4. Numbers'
  BY <1>2 DEF IInv, AppendFits, back, Numbers
<1>5. SparesEmpty'
  BY <1>2 DEF IInv, AppendFits, back, SparesEmpty, Owners, Apart
<1> QED BY <1>1, <1>3, <1>4, <1>5

\* The buffer that becomes current is nobody's, or the next one.
LEMMA AppendRotatesStep ==
    ASSUME IInv, AppendRotates
    PROVE  Owners' /\ Stores' /\ Numbers' /\ BackOK' /\ SparesEmpty' /\ Apart' /\ NextIsMissed'
<1> USE DEF AppendRotates, back
<1>1. nextBuffer = Null => Fresh \in Free
  BY Chosen DEF Fresh
<1>2. /\ currentBuffer' \in Buffer
      /\ currentBuffer' \notin {currentBuffer, newBuffer1, newBuffer2, Null}
      /\ currentBuffer' \notin Range(buffers) /\ currentBuffer' \notin Range(buffersToWrite)
  BY <1>1, BufferAssumption DEF IInv, Owners, Apart, Free, InUse, Pointers
<1>3. /\ Range(buffers') = Range(buffers) \cup {currentBuffer}
      /\ IsInjective(buffers')
      /\ buffers' \in Seq(Buffer) /\ buffers' # <<>>
  BY RangeAppend, InjectiveAppend, AppendProperties DEF IInv, Owners, Apart
<1>4. /\ data' \in [Buffer -> Seq(1 .. MaxLines)]
      /\ \A c \in Buffer : c # currentBuffer' => data'[c] = data[c]
      /\ appended' \in 0 .. MaxLines
  BY <1>2, AppendedType DEF IInv
<1>5. Owners'
  BY <1>2, <1>3 DEF IInv, Owners
<1>6. Stores'
  BY <1>4 DEF IInv, Stores
<1>7. Numbers'
  BY <1>4 DEF IInv, Numbers
<1>8. BackOK' /\ NextIsMissed'
  BY <1>3 DEF IInv, BackOK, NextIsMissed
<1>9. SparesEmpty'
  BY <1>2, <1>4 DEF IInv, SparesEmpty, Owners
<1>10. Apart'
  <2>1. Null \notin Range(buffers) /\ Null \notin Range(buffersToWrite)
    BY RangeWithin, BufferAssumption DEF IInv, Owners
  <2> QED BY <1>2, <1>3, <2>1, BufferAssumption DEF IInv, Apart, Owners
<1> QED BY <1>5, <1>6, <1>7, <1>8, <1>9, <1>10

LEMMA SwapStep ==
    ASSUME IInv, Swap
    PROVE  Owners' /\ Stores' /\ Numbers' /\ BackOK' /\ SparesEmpty' /\ Apart' /\ NextIsMissed'
<1> USE DEF Swap
<1>1. /\ pc \in Between /\ pc # "begin" /\ newBuffer1 \in Buffer /\ newBuffer2 \in Buffer
      /\ newBuffer1 # Null /\ newBuffer2 # Null
  BY DEF IInv, SwapFrom, BackOK, Owners, Between
<1>2. /\ Range(buffersToWrite') = Range(buffers) \cup {currentBuffer}
      /\ IsInjective(buffersToWrite')
      /\ buffersToWrite' \in Seq(Buffer)
      /\ Len(buffersToWrite') = Len(buffers) + 1
  BY RangeAppend, InjectiveAppend, AppendProperties DEF IInv, Owners, Apart
<1>3. Owners'
  BY <1>1, <1>2 DEF IInv, Owners
<1>4. Stores'
  BY DEF IInv, Stores
<1>5. Numbers'
  BY DEF IInv, Numbers, Place
<1>6. BackOK'
  <2>1. Len(buffers) \in Nat /\ (nextBuffer = Null => Len(buffers) >= 1)
    BY LenProperties, EmptySeq DEF IInv, Owners, NextIsMissed
  <2>2. Len(buffersToWrite') >= 1 /\ (newBuffer2' = Null => Len(buffersToWrite') >= 2)
    BY <1>1, <1>2, <2>1
  <2> QED BY <1>1, <2>2 DEF IInv, BackOK, Between, Within
<1>7. SparesEmpty'
  BY <1>1 DEF IInv, SparesEmpty
<1>8. NextIsMissed'
  BY <1>1 DEF NextIsMissed
<1>9. Apart'
  <2>1. Null \notin Range(buffers)
    BY RangeWithin, BufferAssumption DEF IInv, Owners
  <2>2. buffers' = <<>> /\ IsInjective(buffers') /\ Range(buffers') = {}
    BY EmptySequence
  <2>3. /\ currentBuffer' \notin {nextBuffer', newBuffer1', newBuffer2'}
        /\ nextBuffer' # Null => nextBuffer' \notin {newBuffer1', newBuffer2'}
        /\ newBuffer1' = Null
    BY <1>1, BufferAssumption DEF IInv, Apart, Owners
  <2>4. \A b \in {currentBuffer', nextBuffer', newBuffer1', newBuffer2'} :
           b \notin Range(buffers) /\ b # currentBuffer
    BY <1>1, <2>1, BufferAssumption DEF IInv, Apart, Owners
  <2> QED BY <1>2, <2>2, <2>3, <2>4 DEF Apart
<1> QED BY <1>3, <1>4, <1>5, <1>6, <1>7, <1>8, <1>9

\* What becomes of the batch and of what is in the buffers when the batch is cut to its
\* first n buffers and some buffers are emptied.
LEMMA CutType ==
    ASSUME IInv, NEW n \in 0 .. Len(buffersToWrite)
    PROVE  /\ SubSeq(buffersToWrite, 1, n) \in Seq(Buffer)
           /\ Len(SubSeq(buffersToWrite, 1, n)) = n
           /\ IsInjective(SubSeq(buffersToWrite, 1, n))
           /\ Range(SubSeq(buffersToWrite, 1, n)) \subseteq Range(buffersToWrite)
BY PrefixProperties DEF IInv, Owners, Apart

LEMMA CutStep ==
    ASSUME IInv, Cut
    PROVE  Owners' /\ Stores' /\ Numbers' /\ BackOK' /\ SparesEmpty' /\ Apart' /\ NextIsMissed'
<1> USE DEF Cut, front
<1>1. NextIsMissed' /\ Numbers'
  BY DEF IInv, NextIsMissed, Numbers, Place
<1>2. Len(buffersToWrite) \in Nat
  BY LenProperties DEF IInv, Owners
<1>3. CASE Len(buffersToWrite) > MaxBuffers
  <2> DEFINE erased == SubSeq(buffersToWrite, Kept + 1, Len(buffersToWrite))
  <2>1. Kept \in 0 .. Len(buffersToWrite)
    BY <1>2, <1>3, SizeAssumption DEF Kept
  <2>2. /\ buffersToWrite' \in Seq(Buffer) /\ Len(buffersToWrite') = 2
        /\ IsInjective(buffersToWrite') /\ Range(buffersToWrite') \subseteq Range(buffersToWrite)
    <3>1. buffersToWrite' = SubSeq(buffersToWrite, 1, Kept)
      BY <1>3
    <3> QED BY <2>1, <3>1, CutType DEF Kept
  <2>3. Owners'
    BY <2>2 DEF IInv, Owners
  <2>4. /\ data' \in [Buffer -> Seq(1 .. MaxLines)]
        /\ \A b \in Buffer : data[b] = <<>> => data'[b] = <<>>
    BY <1>3, EmptiedType DEF IInv
  <2>5. lost' \in SUBSET (1 .. MaxLines)
    <3>1. erased \in Seq(Buffer)
      BY <1>2, SubSeqProperties, SizeAssumption DEF IInv, Owners, Kept
    <3>2. lost' = lost \cup LinesOf(erased)
      BY <1>3
    <3> HIDE DEF erased
    <3>3. \A i \in DOMAIN erased : erased[i] \in Buffer
      BY <3>1, LenProperties
    <3>4. \A i \in DOMAIN erased : Range(data[erased[i]]) \subseteq 1 .. MaxLines
      BY <3>3, RangeWithin DEF IInv, Stores
    <3>5. LinesOf(erased) \subseteq 1 .. MaxLines
      BY <3>4 DEF LinesOf
    <3> QED BY <3>2, <3>5 DEF IInv, Stores
  <2>6. Stores'
    BY <2>4, <2>5 DEF IInv, Stores
  <2>7. BackOK'
    BY <2>2 DEF IInv, BackOK, Between, Within
  <2>8. SparesEmpty'
    BY <2>4 DEF IInv, SparesEmpty, Owners
  <2>9. Apart'
    BY <2>2 DEF IInv, Apart
  <2> QED BY <1>1, <2>3, <2>6, <2>7, <2>8, <2>9
<1>4. CASE ~(Len(buffersToWrite) > MaxBuffers)
  <2>1. UNCHANGED <<data, currentBuffer, nextBuffer, buffers, newBuffer1, newBuffer2,
                    buffersToWrite, file, lost, latch>>
    BY <1>4
  <2>2. Owners' /\ Stores' /\ SparesEmpty' /\ Apart'
    BY <2>1 DEF IInv, Owners, Stores, SparesEmpty, Apart
  <2>3. BackOK'
    BY <2>1 DEF IInv, BackOK, Between, Within
  <2> QED BY <1>1, <2>2, <2>3
<1> QED BY <1>3, <1>4

LEMMA WriteStep ==
    ASSUME IInv, Write
    PROVE  Owners' /\ Stores' /\ Numbers' /\ BackOK' /\ SparesEmpty' /\ Apart' /\ NextIsMissed'
<1> USE DEF Write, front
<1>1. Owners' /\ SparesEmpty' /\ Apart' /\ NextIsMissed' /\ BackOK'
  BY DEF IInv, Owners, SparesEmpty, Apart, NextIsMissed, BackOK
<1>2. Numbers'
  BY DEF IInv, Numbers
<1>3. Stores'
  <2>1. buffersToWrite[written + 1] \in Buffer
    BY LenProperties DEF IInv, Owners, Numbers
  <2>2. data[buffersToWrite[written + 1]] \in Seq(1 .. MaxLines)
    BY <2>1 DEF IInv, Stores
  <2>3. file' \in Seq(1 .. MaxLines)
    BY <2>2, ConcatProperties DEF IInv, Stores
  <2> QED BY <2>3 DEF IInv, Stores
<1> QED BY <1>1, <1>2, <1>3

LEMMA WrittenStep ==
    ASSUME IInv, Written
    PROVE  Owners' /\ Stores' /\ Numbers' /\ BackOK' /\ SparesEmpty' /\ Apart' /\ NextIsMissed'
<1> USE DEF Written, front
<1>1. NextIsMissed' /\ Numbers'
  BY DEF IInv, NextIsMissed, Numbers, Place
<1>2. /\ data' \in [Buffer -> Seq(1 .. MaxLines)]
      /\ \A b \in Buffer : data[b] = <<>> => data'[b] = <<>>
  BY EmptiedType DEF IInv
<1>3. /\ buffersToWrite' \in Seq(Buffer) /\ IsInjective(buffersToWrite')
      /\ Range(buffersToWrite') \subseteq Range(buffersToWrite)
      /\ Len(buffersToWrite) \in Nat
      /\ Len(buffersToWrite') = IF Len(buffersToWrite) > 2 THEN 2 ELSE Len(buffersToWrite)
  <2>1. Len(buffersToWrite) \in Nat
    BY LenProperties DEF IInv, Owners
  <2>2. CASE Len(buffersToWrite) > Kept
    <3>1. Kept \in 0 .. Len(buffersToWrite)
      BY <2>1, <2>2 DEF Kept
    <3>2. buffersToWrite' = SubSeq(buffersToWrite, 1, Kept)
      BY <2>2
    <3> QED BY <2>1, <2>2, <3>1, <3>2, CutType DEF Kept
  <2>3. CASE ~(Len(buffersToWrite) > Kept)
    BY <2>1, <2>3 DEF IInv, Owners, Apart, Kept
  <2> QED BY <2>2, <2>3
<1>4. Owners'
  BY <1>3 DEF IInv, Owners
<1>5. Stores'
  BY <1>2 DEF IInv, Stores
<1>6. BackOK'
  BY <1>3 DEF IInv, BackOK, Between, Within
<1>7. SparesEmpty'
  BY <1>2 DEF IInv, SparesEmpty, Owners
<1>8. Apart'
  BY <1>3 DEF IInv, Apart
<1> QED BY <1>1, <1>4, <1>5, <1>6, <1>7, <1>8

\* The last buffer of the batch, and the last but one if two are missing, become spare.
LEMMA RecycleStep ==
    ASSUME IInv, Recycle
    PROVE  Owners' /\ Stores' /\ Numbers' /\ BackOK' /\ SparesEmpty' /\ Apart' /\ NextIsMissed'
<1> USE DEF Recycle, front
<1> DEFINE n == Len(buffersToWrite)
<1>1. /\ n \in Nat /\ n >= 1 /\ newBuffer1 = Null
      /\ newBuffer2 = Null => n >= 2
  BY LenProperties DEF IInv, Owners, BackOK, Within
<1>2. /\ newBuffer1' = buffersToWrite[n]
      /\ newBuffer2' = IF newBuffer2 = Null THEN buffersToWrite[n - 1] ELSE newBuffer2
  BY <1>1
<1>3. /\ buffersToWrite[n] \in Range(buffersToWrite)
      /\ newBuffer2 = Null =>
            /\ buffersToWrite[n - 1] \in Range(buffersToWrite)
            /\ buffersToWrite[n - 1] # buffersToWrite[n]
  <2>1. DOMAIN buffersToWrite = 1 .. n /\ IsInjective(buffersToWrite)
    BY LenProperties DEF IInv, Owners, Apart
  <2> QED BY <1>1, <2>1 DEF Range, IsInjective
<1>4. Range(buffersToWrite) \subseteq Buffer /\ Null \notin Buffer
  BY RangeWithin, BufferAssumption DEF IInv, Owners
<1>5. buffersToWrite' = <<>> /\ IsInjective(buffersToWrite') /\ Range(buffersToWrite') = {}
  BY EmptySequence
<1> HIDE DEF n
<1>6. Owners'
  BY <1>2, <1>3, <1>4 DEF IInv, Owners
<1>7. /\ data' \in [Buffer -> Seq(1 .. MaxLines)]
      /\ \A b \in Buffer : data[b] = <<>> => data'[b] = <<>>
      /\ \A b \in Buffer \cap Range(buffersToWrite) : data'[b] = <<>>
  BY EmptiedType DEF IInv
<1>8. Stores'
  BY <1>7 DEF IInv, Stores
<1>9. Numbers' /\ NextIsMissed'
  BY DEF IInv, Numbers, NextIsMissed, Place
<1>10. newBuffer1' \in Buffer /\ newBuffer2' # Null
  BY <1>2, <1>3, <1>4
<1>11. BackOK'
  BY <1>4, <1>10 DEF IInv, BackOK, Between, Within
<1>12. SparesEmpty'
  BY <1>2, <1>3, <1>4, <1>7 DEF IInv, SparesEmpty, Owners
<1>13. Apart'
  <2>1. newBuffer1' # newBuffer2'
    BY <1>2, <1>3 DEF IInv, Apart
  <2>2. /\ newBuffer1' \notin {currentBuffer, nextBuffer}
        /\ newBuffer2' \notin {currentBuffer, nextBuffer}
        /\ newBuffer1' \notin Range(buffers) /\ newBuffer2' \notin Range(buffers)
    BY <1>2, <1>3, <1>4 DEF IInv, Apart
  <2> QED BY <1>5, <2>1, <2>2 DEF IInv, Apart
<1> QED BY <1>6, <1>8, <1>9, <1>11, <1>12, <1>13

LEMMA Step == IInv /\ [Next]_vars => IInv'
<1> SUFFICES ASSUME IInv, [Next]_vars PROVE IInv'
  OBVIOUS
<1>1. Flags'
  BY FlagsStep DEF IInv
<1>2. Owners' /\ Stores' /\ Numbers' /\ BackOK' /\ SparesEmpty' /\ Apart' /\ NextIsMissed'
  BY QuietSteps, AppendFitsStep, AppendRotatesStep, SwapStep, CutStep, WriteStep, WrittenStep,
     RecycleStep
     DEF Next, AppendLine, BackStep
<1> QED BY <1>1, <1>2 DEF IInv

-------------------------------------------------------------------------------
(***************************************************************************)
(* The back end has what it needs for every round, and no buffer has two   *)
(* owners.                                                                 *)
(***************************************************************************)
THEOREM Invariance == Spec => []IInv
<1> QED BY Initially, Step, PTL DEF Spec

(***************************************************************************)
(* The variables of AsyncLogging keep their types: the pointers point to   *)
(* buffers, for any number of them and any lengths.                        *)
(***************************************************************************)
THEOREM TypeCorrect == Spec => []TypeOK
<1>1. IInv => TypeOK
  BY TypeParts DEF IInv
<1> QED BY <1>1, Invariance, PTL

(***************************************************************************)
(* No buffer is in two of the hands that move shared pointers about        *)
(* (AsyncLogging.cpp:31-35, 65-73, 98-110): the front end never fills a    *)
(* buffer that the back end writes or keeps.                               *)
(***************************************************************************)
THEOREM BuffersHaveOneOwner == Spec => []OneOwner
<1>1. IInv => OneOwner
  BY ApartOwners DEF IInv
<1> QED BY <1>1, Invariance, PTL

(***************************************************************************)
(* The assertions of threadFunc hold (AsyncLogging.cpp:57-59, 74, 99 and   *)
(* 106): the batch has as many buffers as the two pops take from it.       *)
(***************************************************************************)
THEOREM AssertionsHold == Spec => []AssertsHold
<1>1. ASSUME IInv PROVE AssertsHold
  <2> DEFINE missing == {i \in {1, 2} : <<newBuffer1, newBuffer2>>[i] = Null}
  <2>1. pc = "begin" => running
    BY <1>1 DEF IInv, BackOK
  <2>2. pc = "top" => /\ newBuffer1 # Null /\ data[newBuffer1] = <<>>
                      /\ newBuffer2 # Null /\ data[newBuffer2] = <<>>
                      /\ buffersToWrite = <<>>
    BY <1>1 DEF IInv, BackOK, SparesEmpty, Between
  <2>3. pc = "swapped" => buffersToWrite # <<>>
    BY <1>1, LenProperties, EmptySeq DEF IInv, BackOK, Within, Owners
  <2>4. ASSUME pc = "recycle" PROVE Len(buffersToWrite) >= Cardinality(missing)
    <3>1. newBuffer1 = Null /\ Len(buffersToWrite) >= 1 /\ Len(buffersToWrite) \in Nat
      BY <1>1, <2>4, LenProperties DEF IInv, BackOK, Within, Owners
    <3>2. CASE newBuffer2 = Null
      <4>1. missing = {1, 2}
        BY <3>1, <3>2
      <4>2. Cardinality({1, 2}) = 2
        <5>1. IsFiniteSet({1}) /\ Cardinality({1}) = 1
          BY FS_Singleton
        <5>2. Cardinality({1} \cup {2}) = 2
          BY <5>1, FS_AddElement
        <5>3. {1} \cup {2} = {1, 2}
          OBVIOUS
        <5> QED BY <5>2, <5>3
      <4>3. Len(buffersToWrite) >= 2
        BY <1>1, <2>4, <3>2 DEF IInv, BackOK, Within
      <4> QED BY <4>1, <4>2, <4>3
    <3>3. CASE newBuffer2 # Null
      <4>1. missing = {1}
        BY <3>1, <3>3
      <4>2. Cardinality({1}) = 1
        BY FS_Singleton
      <4> QED BY <3>1, <4>1, <4>2
    <3> QED BY <3>2, <3>3
  <2> QED BY <2>1, <2>2, <2>3, <2>4 DEF AssertsHold
<1> QED BY <1>1, Invariance, PTL

-------------------------------------------------------------------------------
(* The lines in a sequence of buffers.                                     *)

Lines == 1 .. MaxLines
Stored == [Buffer -> Seq(Lines)]

LEMMA ContentsType ==
    ASSUME NEW d \in Stored, NEW s \in Seq(Buffer)
    PROVE  /\ [i \in DOMAIN s |-> d[s[i]]] \in Seq(Seq(Lines))
           /\ Len([i \in DOMAIN s |-> d[s[i]]]) = Len(s)
           /\ Contents(d, s) \in Seq(Lines)
<1> DEFINE ss == [i \in DOMAIN s |-> d[s[i]]]
<1>1. Len(s) \in Nat /\ DOMAIN s = 1 .. Len(s) /\ \A i \in 1 .. Len(s) : s[i] \in Buffer
  BY LenProperties
<1>2. ss \in [1 .. Len(s) -> Seq(Lines)]
  BY <1>1 DEF Stored
<1>3. ss \in Seq(Seq(Lines)) /\ Len(ss) = Len(s)
  <2> HIDE DEF ss
  <2> QED BY <1>1, <1>2
<1>4. Contents(d, s) \in Seq(Lines)
  <2>1. FlattenSeq(ss) \in Seq(Lines)
    <3> HIDE DEF ss
    <3> QED BY <1>3, FlattenType
  <2> QED BY <2>1 DEF Contents
<1> QED BY <1>3, <1>4

\* Only the buffers in the sequence matter.
LEMMA ContentsSame ==
    ASSUME NEW d, NEW e, NEW s, \A b \in Range(s) : d[b] = e[b]
    PROVE  Contents(d, s) = Contents(e, s)
<1>1. [i \in DOMAIN s |-> d[s[i]]] = [i \in DOMAIN s |-> e[s[i]]]
  <2>1. \A i \in DOMAIN s : d[s[i]] = e[s[i]]
    BY DEF Range
  <2> QED BY <2>1
<1> QED BY <1>1 DEF Contents

LEMMA ContentsEmpty ==
    ASSUME NEW d
    PROVE  Contents(d, <<>>) = <<>>
<1>1. [i \in DOMAIN <<>> |-> d[<<>>[i]]] = <<>>
  OBVIOUS
<1> QED BY <1>1, FlattenEmpty DEF Contents

LEMMA ContentsConcat ==
    ASSUME NEW d \in Stored, NEW s \in Seq(Buffer), NEW t \in Seq(Buffer)
    PROVE  Contents(d, s \o t) = Contents(d, s) \o Contents(d, t)
<1> DEFINE ss == [i \in DOMAIN s |-> d[s[i]]]
           tt == [i \in DOMAIN t |-> d[t[i]]]
           uu == [i \in DOMAIN (s \o t) |-> d[(s \o t)[i]]]
<1>1. /\ ss \in Seq(Seq(Lines)) /\ Len(ss) = Len(s)
      /\ tt \in Seq(Seq(Lines)) /\ Len(tt) = Len(t)
  BY ContentsType
<1>2. s \o t \in Seq(Buffer)
  BY ConcatProperties
<1>3. uu \in Seq(Seq(Lines)) /\ Len(uu) = Len(s \o t)
  BY <1>2, ContentsType
<1>4. /\ Len(s) \in Nat /\ Len(t) \in Nat /\ Len(s \o t) = Len(s) + Len(t)
      /\ DOMAIN s = 1 .. Len(s) /\ DOMAIN t = 1 .. Len(t) /\ DOMAIN (s \o t) = 1 .. Len(s) + Len(t)
      /\ \A i \in 1 .. Len(s) + Len(t) : (s \o t)[i] = IF i <= Len(s) THEN s[i] ELSE t[i - Len(s)]
  BY <1>2, ConcatProperties, LenProperties
<1>5. /\ ss \o tt \in Seq(Seq(Lines)) /\ Len(ss \o tt) = Len(s) + Len(t)
      /\ \A i \in 1 .. Len(s) + Len(t) :
            (ss \o tt)[i] = IF i <= Len(s) THEN ss[i] ELSE tt[i - Len(s)]
  <2> HIDE DEF ss, tt
  <2>1. /\ ss \o tt \in Seq(Seq(Lines)) /\ Len(ss \o tt) = Len(ss) + Len(tt)
        /\ \A i \in 1 .. Len(ss) + Len(tt) :
              (ss \o tt)[i] = IF i <= Len(ss) THEN ss[i] ELSE tt[i - Len(ss)]
    BY <1>1, ConcatProperties
  <2> QED BY <1>1, <2>1
<1>6. \A i \in 1 .. Len(s) + Len(t) : uu[i] = (ss \o tt)[i]
  <2> SUFFICES ASSUME NEW i \in 1 .. Len(s) + Len(t) PROVE uu[i] = (ss \o tt)[i]
    OBVIOUS
  <2>1. uu[i] = d[(s \o t)[i]]
    BY <1>4
  <2>2. CASE i <= Len(s)
    <3>1. ss[i] = d[s[i]]
      BY <1>4, <2>2
    <3> HIDE DEF ss, tt, uu
    <3> QED BY <1>4, <1>5, <2>1, <2>2, <3>1
  <2>3. CASE i > Len(s)
    <3>1. i - Len(s) \in 1 .. Len(t)
      BY <1>4, <2>3
    <3>2. tt[i - Len(s)] = d[t[i - Len(s)]]
      BY <1>4, <3>1
    <3> HIDE DEF ss, tt, uu
    <3>3. (s \o t)[i] = t[i - Len(s)]
      BY <1>4, <2>3
    <3>4. (ss \o tt)[i] = tt[i - Len(s)]
      BY <1>4, <1>5, <2>3
    <3> QED BY <2>1, <3>2, <3>3, <3>4
  <2> QED BY <1>4, <2>2, <2>3
<1>7. uu = ss \o tt
  <2> HIDE DEF ss, tt, uu
  <2> QED BY <1>3, <1>4, <1>5, <1>6, SeqEqual
<1>8. FlattenSeq(ss \o tt) = FlattenSeq(ss) \o FlattenSeq(tt)
  <2> HIDE DEF ss, tt
  <2> QED BY <1>1, FlattenConcat
<1> QED BY <1>7, <1>8 DEF Contents

LEMMA ContentsOne ==
    ASSUME NEW d \in Stored, NEW b \in Buffer
    PROVE  Contents(d, <<b>>) = d[b]
<1> DEFINE e == d[b]
<1>1. [i \in DOMAIN <<b>> |-> d[<<b>>[i]]] = <<e>>
  OBVIOUS
<1>2. e \in Seq(Lines)
  BY DEF Stored
<1> HIDE DEF e
<1>3. <<e>> = Append(<<>>, e) /\ <<>> \in Seq(Seq(Lines))
  OBVIOUS
<1>4. FlattenSeq(<<e>>) = FlattenSeq(<<>>) \o e
  BY <1>2, <1>3, FlattenAppend
<1>5. FlattenSeq(<<e>>) = e
  BY <1>2, <1>4, FlattenEmpty, ConcatEmptySeq
<1> QED BY <1>1, <1>5 DEF Contents, e

LEMMA ContentsAppend ==
    ASSUME NEW d \in Stored, NEW s \in Seq(Buffer), NEW b \in Buffer
    PROVE  Contents(d, Append(s, b)) = Contents(d, s) \o d[b]
<1>1. <<b>> \in Seq(Buffer) /\ Append(s, b) = s \o <<b>>
  BY AppendIsConcat
<1> QED BY <1>1, ContentsConcat, ContentsOne

LEMMA ContentsLength ==
    ASSUME NEW d \in Stored, NEW s \in Seq(Buffer), NEW c \in Nat,
           \A i \in 1 .. Len(s) : Len(d[s[i]]) >= c
    PROVE  Len(Contents(d, s)) >= Len(s) * c
<1> DEFINE ss == [i \in DOMAIN s |-> d[s[i]]]
<1>1. ss \in Seq(Seq(Lines)) /\ Len(ss) = Len(s)
  BY ContentsType
<1>2. \A i \in 1 .. Len(s) : ss[i] = d[s[i]]
  BY LenProperties
<1>3. Len(FlattenSeq(ss)) >= Len(ss) * c
  <2> HIDE DEF ss
  <2> QED BY <1>1, <1>2, FlattenLength
<1> QED BY <1>1, <1>3 DEF Contents

LEMMA ContentsRange ==
    ASSUME NEW d \in Stored, NEW s \in Seq(Buffer)
    PROVE  Range(Contents(d, s)) = UNION {Range(d[s[i]]) : i \in DOMAIN s}
<1> DEFINE ss == [i \in DOMAIN s |-> d[s[i]]]
<1>1. ss \in Seq(Seq(Lines))
  BY ContentsType
<1>2. Range(FlattenSeq(ss)) = UNION {Range(ss[i]) : i \in DOMAIN ss}
  <2> HIDE DEF ss
  <2> QED BY <1>1, FlattenRange
<1>3. DOMAIN ss = DOMAIN s /\ \A i \in DOMAIN s : ss[i] = d[s[i]]
  OBVIOUS
<1>4. UNION {Range(ss[i]) : i \in DOMAIN ss} = UNION {Range(d[s[i]]) : i \in DOMAIN s}
  <2> HIDE DEF ss
  <2>1. {Range(ss[i]) : i \in DOMAIN ss} = {Range(d[s[i]]) : i \in DOMAIN s}
    BY <1>3
  <2> QED BY <2>1
<1> QED BY <1>2, <1>4 DEF Contents

-------------------------------------------------------------------------------
(* Where the lines are.                                                    *)

Full(d, b) == Len(d[b]) >= BufferSize - 1

\* Every line that is anywhere was appended; a buffer that is nobody's, and the next one, are
\* empty; all buffers of a batch but the last are full; and how far the writing is.
Numbered == /\ \A b \in Buffer : Range(data[b]) \subseteq 1 .. appended
            /\ Range(file) \subseteq 1 .. appended
            /\ lost \subseteq 1 .. appended
Empties == /\ \A b \in Free : data[b] = <<>>
           /\ nextBuffer # Null => data[nextBuffer] = <<>>
Fills == /\ \A i \in DOMAIN buffers : Full(data, buffers[i])
         /\ pc = "swapped" => \A i \in 1 .. Len(buffersToWrite) - 1 : Full(data, buffersToWrite[i])
Progress == /\ pc \notin {"write", "recycle"} => written = 0
            /\ pc = "write" => written <= Len(buffersToWrite)

LogInv == Numbered /\ Empties /\ Fills /\ Progress

LEMMA LogInit == Init => LogInv
<1> SUFFICES ASSUME Init PROVE LogInv
  OBVIOUS
<1>1. /\ data = [b \in Buffer |-> <<>>] /\ buffers = <<>> /\ buffersToWrite = <<>>
      /\ written = 0 /\ pc = "begin" /\ appended = 0 /\ file = <<>> /\ lost = {}
  BY DEF Init
<1>2. nextBuffer \in Buffer \cup {Null} /\ Free \subseteq Buffer
  BY Initially DEF IInv, Owners, Free
<1>3. Numbered
  BY <1>1, EmptySequence DEF Numbered
<1>4. Empties
  BY <1>1, <1>2 DEF Empties
<1>5. Fills /\ Progress
  BY <1>1 DEF Fills, Progress
<1> QED BY <1>3, <1>4, <1>5 DEF LogInv

LEMMA EmptiedValue ==
    ASSUME NEW bs, NEW b \in Buffer
    PROVE  Emptied(bs)[b] = IF b \in bs THEN <<>> ELSE data[b]
BY Zenon DEF Emptied

\* A line that is appended to an empty or part-filled buffer.
LEMMA AppendedValue ==
    ASSUME IInv, NEW b \in Buffer, Avail(b) > 1, appended < MaxLines,
           NEW e, e = Appended(data, b, appended + 1)
    PROVE  /\ e \in Stored
           /\ e[b] = Append(data[b], appended + 1)
           /\ \A c \in Buffer : c # b => e[c] = data[c]
           /\ appended + 1 \in Lines
<1>1. e \in Stored /\ \A c \in Buffer : c # b => e[c] = data[c]
  BY AppendedType DEF IInv, Stored, Lines
<1>2. e[b] = Append(data[b], appended + 1)
  BY DEF Appended, Avail, IInv, Stores
<1>3. appended + 1 \in Lines
  BY TimeAssumption DEF IInv, Numbers, Lines
<1> QED BY <1>1, <1>2, <1>3

\* What both sorts of append do to the lines.
LEMMA NumberedAppend ==
    ASSUME IInv, LogInv, NEW b \in Buffer, Avail(b) > 1, appended < MaxLines,
           data' = Appended(data, b, appended + 1), appended' = appended + 1,
           file' = file, lost' = lost
    PROVE  Numbered'
<1>1. /\ data' \in Stored /\ data'[b] = Append(data[b], appended + 1)
      /\ \A c \in Buffer : c # b => data'[c] = data[c]
      /\ appended + 1 \in Lines
  BY AppendedValue
<1>2. appended \in Nat /\ 1 .. appended \subseteq 1 .. appended + 1 /\ appended + 1 \in 1 .. appended + 1
  BY DEF IInv, Numbers
<1>3. Range(data'[b]) = Range(data[b]) \cup {appended + 1}
  <2>1. data[b] \in Seq(Lines)
    BY DEF IInv, Stores, Lines
  <2>2. Range(Append(data[b], appended + 1)) = Range(data[b]) \cup {appended + 1}
    BY <1>1, <2>1, RangeAppend
  <2> QED BY <1>1, <2>2
<1>4. \A c \in Buffer : Range(data'[c]) \subseteq 1 .. appended + 1
  <2> SUFFICES ASSUME NEW c \in Buffer PROVE Range(data'[c]) \subseteq 1 .. appended + 1
    OBVIOUS
  <2>1. Range(data[c]) \subseteq 1 .. appended
    BY DEF LogInv, Numbered
  <2>2. CASE c = b
    BY <1>2, <1>3, <2>1, <2>2
  <2>3. CASE c # b
    BY <1>1, <1>2, <2>1, <2>3
  <2> QED BY <2>2, <2>3
<1>5. Range(file) \subseteq 1 .. appended /\ lost \subseteq 1 .. appended
  BY DEF LogInv, Numbered
<1> QED BY <1>2, <1>4, <1>5 DEF Numbered

LEMMA LogQuiet ==
    ASSUME IInv, LogInv, Stop \/ Tick \/ Begin \/ Check \/ Wait \/ UNCHANGED vars
    PROVE  LogInv'
<1>1. UNCHANGED <<data, currentBuffer, nextBuffer, buffers, newBuffer1, newBuffer2,
                  buffersToWrite, written, appended, file, lost>>
  BY DEF Stop, Tick, Begin, Check, Wait, vars, front, back
<1>2. Numbered' /\ Empties'
  BY <1>1 DEF LogInv, Numbered, Empties, Free, InUse, Pointers
<1>3. pc' = pc \/ (pc \notin {"write", "recycle"} /\ pc' \notin {"write", "recycle", "swapped"})
  BY DEF Stop, Tick, Begin, Check, Wait, vars, back
<1>4. Fills' /\ Progress'
  BY <1>1, <1>3 DEF LogInv, Fills, Progress, Full
<1> QED BY <1>2, <1>4 DEF LogInv

LEMMA LogAppendFits ==
    ASSUME IInv, LogInv, AppendFits
    PROVE  LogInv'
<1> USE DEF AppendFits, back
<1>1. /\ data' \in Stored /\ \A c \in Buffer : c # currentBuffer => data'[c] = data[c]
      /\ data'[currentBuffer] = Append(data[currentBuffer], appended + 1)
  BY AppendedValue DEF IInv, Owners
<1>2. Numbered'
  BY NumberedAppend DEF IInv, Owners
<1>3. Empties'
  <2>1. InUse' = InUse /\ currentBuffer \in InUse
    BY BufferAssumption DEF InUse, Pointers, IInv, Owners
  <2>2. Free' = Free /\ currentBuffer \notin Free /\ Free \subseteq Buffer
    BY <2>1 DEF Free
  <2>3. nextBuffer' = nextBuffer /\ nextBuffer # currentBuffer /\ nextBuffer \in Buffer \cup {Null}
    BY DEF IInv, Apart, Owners
  <2> QED BY <1>1, <2>2, <2>3 DEF LogInv, Empties
<1>4. \A b \in Buffer : b # currentBuffer /\ Full(data, b) => Full(data', b)
  BY <1>1 DEF Full
<1>5. \A i \in DOMAIN buffers : buffers[i] \in Buffer /\ buffers[i] # currentBuffer
  BY RangeWithin DEF IInv, Owners, Apart, Range
<1>6. \A i \in 1 .. Len(buffersToWrite) - 1 :
         buffersToWrite[i] \in Buffer /\ buffersToWrite[i] # currentBuffer
  <2>1. DOMAIN buffersToWrite = 1 .. Len(buffersToWrite) /\ Len(buffersToWrite) \in Nat
    BY LenProperties DEF IInv, Owners
  <2> QED BY <2>1, RangeWithin DEF IInv, Owners, Apart, Range
<1>7. Fills'
  BY <1>4, <1>5, <1>6 DEF LogInv, Fills
<1>8. Progress'
  BY DEF LogInv, Progress
<1> QED BY <1>2, <1>3, <1>7, <1>8 DEF LogInv

\* The buffer that becomes current is empty, and nobody's or the next one.
LEMMA Rotated ==
    ASSUME IInv, LogInv, AppendRotates
    PROVE  /\ currentBuffer' \in Buffer /\ data[currentBuffer'] = <<>> /\ Avail(currentBuffer') > 1
           /\ currentBuffer' # currentBuffer
           /\ currentBuffer' \notin Range(buffers) /\ currentBuffer' \notin Range(buffersToWrite)
<1> USE DEF AppendRotates
<1>1. nextBuffer = Null => Fresh \in Free
  BY Chosen DEF Fresh
<1>2. /\ currentBuffer' \in Buffer /\ data[currentBuffer'] = <<>>
      /\ currentBuffer' # currentBuffer
      /\ currentBuffer' \notin Range(buffers) /\ currentBuffer' \notin Range(buffersToWrite)
  BY <1>1, BufferAssumption
     DEF IInv, Owners, Apart, Free, InUse, Pointers, LogInv, Empties
<1>3. BufferSize - Len(data[currentBuffer']) > 1
  BY <1>2, EmptySeq, SizeAssumption
<1> QED BY <1>2, <1>3 DEF Avail

LEMMA LogAppendRotates ==
    ASSUME IInv, LogInv, AppendRotates
    PROVE  LogInv'
<1>1. /\ currentBuffer' \in Buffer /\ data[currentBuffer'] = <<>> /\ Avail(currentBuffer') > 1
      /\ currentBuffer' # currentBuffer
      /\ currentBuffer' \notin Range(buffers) /\ currentBuffer' \notin Range(buffersToWrite)
  BY Rotated
<1> PICK cur \in Buffer : cur = currentBuffer'
  BY <1>1
<1> USE DEF AppendRotates, back
<1>2. /\ data' = Appended(data, cur, appended + 1)
      /\ Avail(cur) > 1 /\ cur # currentBuffer /\ cur \notin Range(buffers) /\ cur \notin Range(buffersToWrite)
  BY <1>1
<1>3. /\ data' \in Stored /\ \A c \in Buffer : c # cur => data'[c] = data[c]
  BY <1>2, AppendedValue
<1>4. Numbered'
  BY <1>2, NumberedAppend
<1>5. Range(buffers') = Range(buffers) \cup {currentBuffer}
  BY RangeAppend DEF IInv, Owners
<1>6. Empties'
  <2>1. InUse \subseteq InUse' /\ cur \in InUse'
    BY <1>5, BufferAssumption DEF InUse, Pointers, IInv, Owners
  <2>2. Free' \subseteq Free /\ cur \notin Free' /\ Free \subseteq Buffer
    BY <2>1 DEF Free
  <2> QED BY <1>3, <2>2 DEF LogInv, Empties
<1>7. \A b \in Buffer : b # cur /\ Full(data, b) => Full(data', b)
  BY <1>3 DEF Full
<1>8. Full(data, currentBuffer)
  <2>1. Len(data[currentBuffer]) \in Nat
    BY LenProperties DEF IInv, Stores, Owners
  <2> QED BY <2>1, SizeAssumption DEF Full, Avail
<1>9. \A i \in DOMAIN buffers' : buffers'[i] \in Buffer /\ buffers'[i] # cur /\ Full(data, buffers'[i])
  <2>1. /\ DOMAIN buffers = 1 .. Len(buffers) /\ Len(buffers) \in Nat
        /\ DOMAIN buffers' = 1 .. Len(buffers) + 1
        /\ \A i \in 1 .. Len(buffers) : buffers'[i] = buffers[i]
        /\ buffers'[Len(buffers) + 1] = currentBuffer
    BY AppendProperties, LenProperties DEF IInv, Owners
  <2>2. \A i \in 1 .. Len(buffers) : buffers[i] \in Buffer /\ buffers[i] # cur /\ Full(data, buffers[i])
    BY <1>2, <2>1, RangeWithin DEF IInv, Owners, Range, LogInv, Fills
  <2>3. \A i \in 1 .. Len(buffers) + 1 : i \in 1 .. Len(buffers) \/ i = Len(buffers) + 1
    BY <2>1
  <2> QED BY <1>2, <1>8, <2>1, <2>2, <2>3 DEF IInv, Owners
<1>10. \A i \in 1 .. Len(buffersToWrite) - 1 :
         buffersToWrite[i] \in Buffer /\ buffersToWrite[i] # cur
  <2>1. DOMAIN buffersToWrite = 1 .. Len(buffersToWrite) /\ Len(buffersToWrite) \in Nat
    BY LenProperties DEF IInv, Owners
  <2>2. \A i \in 1 .. Len(buffersToWrite) - 1 : buffersToWrite[i] \in Range(buffersToWrite)
    BY <2>1 DEF Range
  <2>3. Range(buffersToWrite) \subseteq Buffer
    BY RangeWithin DEF IInv, Owners
  <2> QED BY <1>2, <2>2, <2>3
<1>11. Fills'
  <2>1. \A i \in DOMAIN buffers' : Full(data', buffers'[i])
    BY <1>7, <1>9
  <2>2. pc' = "swapped" => \A i \in 1 .. Len(buffersToWrite') - 1 : Full(data', buffersToWrite'[i])
    BY <1>7, <1>10 DEF LogInv, Fills
  <2> QED BY <2>1, <2>2 DEF Fills, Full
<1>12. Progress'
  BY DEF LogInv, Progress
<1> QED BY <1>4, <1>6, <1>11, <1>12 DEF LogInv

LEMMA LogSwap ==
    ASSUME IInv, LogInv, Swap
    PROVE  LogInv'
<1> USE DEF Swap
<1>1. /\ pc \in Between /\ newBuffer1 \in Buffer /\ newBuffer2 \in Buffer
      /\ buffersToWrite = <<>> /\ pc \notin {"write", "recycle"}
  BY DEF IInv, SwapFrom, BackOK, Owners, Between
<1>2. /\ Range(buffersToWrite') = Range(buffers) \cup {currentBuffer}
      /\ DOMAIN buffers = 1 .. Len(buffers)
      /\ Len(buffersToWrite') - 1 = Len(buffers)
      /\ \A i \in 1 .. Len(buffers) : buffersToWrite'[i] = buffers[i]
  BY RangeAppend, AppendProperties, LenProperties DEF IInv, Owners
<1>3. Numbered'
  BY DEF LogInv, Numbered
<1>4. Empties'
  <2>1. Range(buffersToWrite) = {} /\ buffers' = <<>> /\ Range(buffers') = {}
    BY <1>1, EmptySequence
  <2>2. InUse \subseteq InUse'
    BY <1>1, <1>2, <2>1, BufferAssumption DEF InUse, Pointers, IInv, Owners
  <2>3. Free' \subseteq Free
    BY <2>2 DEF Free
  <2>4. data[newBuffer2] = <<>>
    BY <1>1, BufferAssumption DEF IInv, SparesEmpty
  <2> QED BY <2>3, <2>4 DEF LogInv, Empties
<1>5. Fills'
  <2>1. DOMAIN buffers' = {}
    OBVIOUS
  <2>2. \A i \in 1 .. Len(buffersToWrite') - 1 : Full(data', buffersToWrite'[i])
    BY <1>2 DEF LogInv, Fills, Full
  <2> QED BY <2>1, <2>2 DEF Fills, Full
<1>6. Progress'
  BY <1>1 DEF LogInv, Progress
<1> QED BY <1>3, <1>4, <1>5, <1>6 DEF LogInv

\* Buffers of the batch are emptied, those that leave the batch among them.
LEMMA LogEmptied ==
    ASSUME IInv, LogInv, NEW bs, bs \subseteq Range(buffersToWrite), data' = Emptied(bs),
           UNCHANGED <<currentBuffer, nextBuffer, buffers, appended, file>>,
           lost' \subseteq 1 .. appended,
           InUse \subseteq InUse' \cup bs
    PROVE  Numbered' /\ Empties' /\ \A i \in DOMAIN buffers : Full(data', buffers[i])
<1>1. \A b \in Buffer : data'[b] = IF b \in bs THEN <<>> ELSE data[b]
  BY EmptiedValue
<1>2. Numbered'
  <2>1. \A b \in Buffer : Range(data'[b]) \subseteq 1 .. appended
    BY <1>1, EmptySequence DEF LogInv, Numbered
  <2> QED BY <2>1 DEF LogInv, Numbered
<1>3. Empties'
  <2>1. \A b \in Free' : b \in Free \/ b \in bs
    BY DEF Free
  <2>2. Free' \subseteq Buffer /\ Free \subseteq Buffer
    BY DEF Free
  <2>3. \A b \in Free' : data'[b] = <<>>
    BY <1>1, <2>1, <2>2 DEF LogInv, Empties
  <2>4. nextBuffer # Null => data'[nextBuffer] = <<>>
    BY <1>1 DEF LogInv, Empties, IInv, Owners
  <2> QED BY <2>3, <2>4 DEF Empties
<1>4. \A i \in DOMAIN buffers : Full(data', buffers[i])
  <2>1. \A i \in DOMAIN buffers : buffers[i] \in Buffer /\ buffers[i] \notin bs
    BY RangeWithin DEF IInv, Owners, Apart, Range
  <2> QED BY <1>1, <2>1 DEF LogInv, Fills, Full
<1> QED BY <1>2, <1>3, <1>4

LEMMA LogCut ==
    ASSUME IInv, LogInv, Cut
    PROVE  LogInv'
<1> USE DEF Cut, front
<1>1. Len(buffersToWrite) \in Nat /\ buffersToWrite \in Seq(Buffer)
  BY LenProperties DEF IInv, Owners
<1>2. Numbered' /\ Empties' /\ \A i \in DOMAIN buffers : Full(data', buffers[i])
  <2>1. CASE Len(buffersToWrite) > MaxBuffers
    <3> DEFINE erased == SubSeq(buffersToWrite, Kept + 1, Len(buffersToWrite))
    <3>1. Kept \in 0 .. Len(buffersToWrite)
      BY <1>1, <2>1, SizeAssumption DEF Kept
    <3>2. /\ buffersToWrite' = SubSeq(buffersToWrite, 1, Kept)
          /\ lost' = lost \cup LinesOf(erased) /\ data' = Emptied(Range(erased))
      BY <2>1
    <3>3. Range(buffersToWrite) = Range(buffersToWrite') \cup Range(erased) /\ erased \in Seq(Buffer)
      BY <1>1, <3>1, <3>2, SplitAt
    <3>4. LinesOf(erased) \subseteq 1 .. appended
      BY <3>3, LenProperties DEF LinesOf, LogInv, Numbered
    <3>5. lost' \subseteq 1 .. appended
      BY <3>2, <3>4 DEF LogInv, Numbered
    <3>6. InUse \subseteq InUse' \cup Range(erased)
      BY <3>3 DEF InUse, Pointers
    <3> HIDE DEF erased
    <3>7. UNCHANGED <<currentBuffer, nextBuffer, buffers, appended, file>>
      OBVIOUS
    <3> QED BY <3>2, <3>3, <3>5, <3>6, <3>7, LogEmptied
  <2>2. CASE ~(Len(buffersToWrite) > MaxBuffers)
    <3>1. data' = data /\ buffersToWrite' = buffersToWrite /\ lost' = lost
      BY <2>2
    <3> QED BY <3>1 DEF LogInv, Numbered, Empties, Fills, Full, Free, InUse, Pointers
  <2> QED BY <2>1, <2>2
<1>3. Len(buffersToWrite') \in Nat
  BY CutStep, LenProperties DEF Owners
<1>4. Fills'
  BY <1>2 DEF Fills
<1>5. Progress'
  BY <1>3 DEF Progress
<1> QED BY <1>2, <1>4, <1>5 DEF LogInv

LEMMA LogWrite ==
    ASSUME IInv, LogInv, Write
    PROVE  LogInv'
<1> USE DEF Write, front
<1>1. UNCHANGED <<data, currentBuffer, nextBuffer, buffers, newBuffer1, newBuffer2,
                  buffersToWrite, appended, lost, pc>>
  OBVIOUS
<1>2. Len(buffersToWrite) \in Nat /\ written \in Nat /\ written + 1 \in 1 .. Len(buffersToWrite)
  BY LenProperties DEF IInv, Owners, Numbers
<1> DEFINE b == buffersToWrite[written + 1]
<1>3. b \in Buffer
  BY <1>2, ElementOfSeq DEF IInv, Owners
<1>4. Range(file') = Range(file) \cup Range(data[b])
  <2>1. file \in Seq(Lines) /\ data[b] \in Seq(Lines) /\ file' = file \o data[b]
    BY <1>3 DEF IInv, Stores, Lines
  <2> HIDE DEF b
  <2>2. Range(file \o data[b]) = Range(file) \cup Range(data[b])
    BY <2>1, RangeConcatenation, Zenon
  <2> QED BY <2>1, <2>2
<1> HIDE DEF b
<1>5. Numbered'
  BY <1>1, <1>3, <1>4 DEF LogInv, Numbered
<1>6. Empties' /\ Fills'
  BY <1>1 DEF LogInv, Empties, Fills, Full, Free, InUse, Pointers
<1>7. Progress'
  BY <1>2 DEF LogInv, Progress
<1> QED BY <1>5, <1>6, <1>7 DEF LogInv

LEMMA LogWritten ==
    ASSUME IInv, LogInv, Written
    PROVE  LogInv'
<1> USE DEF Written, front
<1> DEFINE rest == SubSeq(buffersToWrite, Kept + 1, Len(buffersToWrite))
<1>1. Len(buffersToWrite) \in Nat /\ buffersToWrite \in Seq(Buffer) /\ Kept \in Nat
  BY LenProperties DEF IInv, Owners, Kept
<1>2. data' = Emptied(Range(rest))
  OBVIOUS
<1>3. Range(rest) \subseteq Range(buffersToWrite)
      /\ Range(buffersToWrite) \subseteq Range(buffersToWrite') \cup Range(rest)
  <2>1. CASE Len(buffersToWrite) > Kept
    <3>1. Kept \in 0 .. Len(buffersToWrite)
      BY <1>1, <2>1
    <3>2. Range(buffersToWrite) = Range(SubSeq(buffersToWrite, 1, Kept)) \cup Range(rest)
      BY <1>1, <3>1, SplitAt
    <3>3. buffersToWrite' = SubSeq(buffersToWrite, 1, Kept)
      BY <2>1
    <3> QED BY <3>2, <3>3
  <2>2. CASE ~(Len(buffersToWrite) > Kept)
    <3>1. rest = <<>>
      BY <1>1, <2>2, SubSeqEmpty
    <3>2. buffersToWrite' = buffersToWrite
      BY <2>2
    <3> QED BY <3>1, <3>2, EmptySequence
  <2> QED BY <2>1, <2>2
<1>4. UNCHANGED <<currentBuffer, nextBuffer, buffers, appended, file>>
  OBVIOUS
<1>5. lost' \subseteq 1 .. appended
  BY DEF LogInv, Numbered
<1>6. InUse \subseteq InUse' \cup Range(rest)
  BY <1>3 DEF InUse, Pointers
<1> HIDE DEF rest
<1>7. Numbered' /\ Empties' /\ \A i \in DOMAIN buffers : Full(data', buffers[i])
  BY <1>2, <1>3, <1>4, <1>5, <1>6, LogEmptied
<1>8. Fills'
  BY <1>7 DEF Fills
<1>9. Progress'
  BY DEF Progress
<1> QED BY <1>7, <1>8, <1>9 DEF LogInv

LEMMA LogRecycle ==
    ASSUME IInv, LogInv, Recycle
    PROVE  LogInv'
<1> USE DEF Recycle, front
<1> DEFINE bs == Range(buffersToWrite)
<1>1. data' = Emptied(bs) /\ bs \subseteq Range(buffersToWrite)
  OBVIOUS
<1>2. UNCHANGED <<currentBuffer, nextBuffer, buffers, appended, file>>
  OBVIOUS
<1>3. lost' \subseteq 1 .. appended
  BY DEF LogInv, Numbered
<1>4. InUse \subseteq InUse' \cup bs
  <2>1. newBuffer1 # Null => newBuffer1' = newBuffer1
    OBVIOUS
  <2>2. newBuffer2 # Null => newBuffer2' = newBuffer2
    OBVIOUS
  <2> QED BY <2>1, <2>2 DEF InUse, Pointers
<1> HIDE DEF bs
<1>5. Numbered' /\ Empties' /\ \A i \in DOMAIN buffers : Full(data', buffers[i])
  BY <1>1, <1>2, <1>3, <1>4, LogEmptied
<1>6. Fills'
  BY <1>5 DEF Fills
<1>7. Progress'
  BY DEF Progress
<1> QED BY <1>5, <1>6, <1>7 DEF LogInv

LEMMA LogStep == IInv /\ LogInv /\ [Next]_vars => LogInv'
<1> SUFFICES ASSUME IInv, LogInv, [Next]_vars PROVE LogInv'
  OBVIOUS
<1> QED BY LogQuiet, LogAppendFits, LogAppendRotates, LogSwap, LogCut, LogWrite, LogWritten,
           LogRecycle
           DEF Next, AppendLine, BackStep

LEMMA LogAlways == Spec => []LogInv
<1> QED BY LogInit, LogStep, Invariance, PTL DEF Spec

\* Sequences of lines.
LEMMA Regroup == \A x, y, z \in Seq(Lines) : (x \o y) \o z = x \o (y \o z)
BY ConcatAssociative

LEMMA Joined == \A x, y \in Seq(Lines) : x \o y \in Seq(Lines)
BY ConcatProperties

LEMMA JoinedAppend ==
    \A x, y \in Seq(Lines), e \in Lines : x \o Append(y, e) = Append(x \o y, e)
BY ConcatAppend

LEMMA JoinedRange ==
    \A x, y, z \in Seq(Lines) : Range((x \o y) \o z) = Range(x) \cup Range(y) \cup Range(z)
<1> SUFFICES ASSUME NEW x \in Seq(Lines), NEW y \in Seq(Lines), NEW z \in Seq(Lines)
             PROVE  Range((x \o y) \o z) = Range(x) \cup Range(y) \cup Range(z)
  OBVIOUS
<1>1. x \o y \in Seq(Lines)
  BY Joined
<1>2. Range(x \o y) = Range(x) \cup Range(y)
  BY RangeConcatenation, Zenon
<1>3. Range((x \o y) \o z) = Range(x \o y) \cup Range(z)
  BY <1>1, RangeConcatenation, Zenon
<1> QED BY <1>2, <1>3

-------------------------------------------------------------------------------
(* The steps of the contract.                                              *)

Batch == Contents(data, Unwritten)
Ready == Contents(data, buffers)
Current == data[currentBuffer]

LEMMA BacklogType ==
    ASSUME IInv, LogInv
    PROVE  /\ data \in Stored /\ Unwritten \in Seq(Buffer)
           /\ Range(Unwritten) \subseteq Range(buffersToWrite)
           /\ Batch \in Seq(Lines) /\ Ready \in Seq(Lines) /\ Current \in Seq(Lines)
           /\ Backlog = (Batch \o Ready) \o Current
           /\ Backlog \in Seq(Lines) /\ file \in Seq(Lines)
<1>1. data \in Stored /\ file \in Seq(Lines) /\ buffers \in Seq(Buffer) /\ buffersToWrite \in Seq(Buffer)
  BY DEF IInv, Stores, Stored, Lines, Owners
<1>2. Unwritten \in Seq(Buffer) /\ Range(Unwritten) \subseteq Range(buffersToWrite)
  <2>1. CASE pc \in {"swapped", "write"}
    <3>1. PICK n \in 0 .. Len(buffersToWrite) : n = written
      BY <1>1, <2>1, LenProperties DEF LogInv, Progress, IInv, Numbers
    <3>2. Unwritten = SubSeq(buffersToWrite, n + 1, Len(buffersToWrite))
      BY <2>1, <3>1 DEF Unwritten
    <3>3. /\ SubSeq(buffersToWrite, n + 1, Len(buffersToWrite)) \in Seq(Buffer)
          /\ Range(SubSeq(buffersToWrite, n + 1, Len(buffersToWrite))) \subseteq Range(buffersToWrite)
      <4>1. PICK s \in Seq(Buffer) : s = buffersToWrite
        BY <1>1
      <4>2. n \in 0 .. Len(s)
        BY <4>1
      <4>3. /\ SubSeq(s, n + 1, Len(s)) \in Seq(Buffer)
            /\ Range(SubSeq(s, n + 1, Len(s))) \subseteq Range(s)
        <5> DEFINE r == SubSeq(s, n + 1, Len(s))
                   q == SubSeq(s, 1, n)
        <5>1. r \in Seq(Buffer) /\ Range(s) = Range(q) \cup Range(r)
          BY <4>2, SplitAt
        <5> HIDE DEF q, r
        <5>2. Range(r) \subseteq Range(s)
          BY <5>1
        <5> QED BY <5>1, <5>2 DEF r
      <4> QED BY <4>1, <4>3
    <3> QED BY <3>2, <3>3
  <2>2. CASE pc \notin {"swapped", "write"}
    <3>1. Unwritten = <<>>
      BY <2>2 DEF Unwritten
    <3> QED BY <3>1, EmptySequence
  <2> QED BY <2>1, <2>2
<1>3. Batch \in Seq(Lines) /\ Ready \in Seq(Lines)
  BY <1>1, <1>2, ContentsType DEF Batch, Ready
<1>4. Current \in Seq(Lines)
  BY <1>1 DEF Current, Stored, IInv, Owners
<1>5. Backlog = (Batch \o Ready) \o Current
  BY DEF Backlog, Batch, Ready, Current
<1>6. Backlog \in Seq(Lines)
  BY <1>3, <1>4, <1>5, ConcatProperties
<1> QED BY <1>1, <1>2, <1>3, <1>4, <1>5, <1>6

LEMMA BacklogNumbered ==
    ASSUME IInv, LogInv
    PROVE  Range(Backlog) \subseteq 1 .. appended
<1>1. ASSUME NEW s \in Seq(Buffer) PROVE Range(Contents(data, s)) \subseteq 1 .. appended
  <2>1. Range(Contents(data, s)) = UNION {Range(data[s[i]]) : i \in DOMAIN s}
    BY BacklogType, ContentsRange
  <2>2. \A i \in DOMAIN s : Range(data[s[i]]) \subseteq 1 .. appended
    BY LenProperties DEF LogInv, Numbered
  <2> QED BY <2>1, <2>2
<1>2. Range(Batch) \subseteq 1 .. appended /\ Range(Ready) \subseteq 1 .. appended
  BY <1>1, BacklogType DEF Batch, Ready, IInv, Owners
<1>3. Range(Current) \subseteq 1 .. appended
  BY DEF LogInv, Numbered, Current, IInv, Owners
<1>4. Range((Batch \o Ready) \o Current) = Range(Batch) \cup Range(Ready) \cup Range(Current)
  <2>1. Batch \in Seq(Lines) /\ Ready \in Seq(Lines) /\ Current \in Seq(Lines)
    BY BacklogType
  <2> QED BY <2>1, JoinedRange
<1> QED BY <1>2, <1>3, <1>4, BacklogType

\* A line is appended to the backlog.
LEMMA AcceptStep ==
    ASSUME IInv, LogInv, appended < MaxLines, appended + 1 \in Lines,
           Backlog' = Append(Backlog, appended + 1),
           UNCHANGED <<file, lost, running>>
    PROVE  Contract!Next
<1> DEFINE m == appended + 1
<1>1. m \notin Range(Backlog) \cup Range(file) \cup lost
  <2>1. m \notin 1 .. appended
    BY DEF IInv, Numbers
  <2> QED BY <2>1, BacklogNumbered DEF LogInv, Numbered
<1>2. Contract!Accept(m)
  <2>1. m \notin Contract!Range(Backlog) \cup Contract!Range(file) \cup lost
    BY <1>1, Zenon DEF Contract!Range, Range
  <2> QED BY <2>1 DEF Contract!Accept
<1>3. m \in 1 .. MaxLines
  BY DEF Lines
<1> HIDE DEF m
<1> QED BY <1>2, <1>3 DEF Contract!Next

LEMMA RefineFits ==
    ASSUME IInv, LogInv, AppendFits
    PROVE  Contract!Next
<1> USE DEF AppendFits, back
<1>1. /\ data' \in Stored /\ \A c \in Buffer : c # currentBuffer => data'[c] = data[c]
      /\ data'[currentBuffer] = Append(data[currentBuffer], appended + 1)
      /\ appended + 1 \in Lines
  BY AppendedValue DEF IInv, Owners
<1>2. Unwritten' = Unwritten
  BY DEF Unwritten
<1>3. \A b \in Range(Unwritten) \cup Range(buffers) : data[b] = data'[b]
  <2>1. \A b \in Range(Unwritten) \cup Range(buffers) : b \in Buffer /\ b # currentBuffer
    BY BacklogType, RangeWithin DEF IInv, Owners, Apart
  <2> QED BY <1>1, <2>1
<1>4. Contents(data', Unwritten) = Batch /\ Contents(data', buffers) = Ready
  BY <1>3, ContentsSame DEF Batch, Ready
<1>5. Backlog' = (Batch \o Ready) \o Append(Current, appended + 1)
  BY <1>1, <1>2, <1>4 DEF Backlog, Current
<1>6. Backlog' = Append(Backlog, appended + 1)
  <2>1. Batch \o Ready \in Seq(Lines)
    BY BacklogType, Joined
  <2>2. (Batch \o Ready) \o Append(Current, appended + 1)
        = Append((Batch \o Ready) \o Current, appended + 1)
    <3>1. Current \in Seq(Lines)
      BY BacklogType
    <3> QED BY <1>1, <2>1, <3>1, JoinedAppend, Zenon
  <2> QED BY <1>5, <2>2, BacklogType
<1> QED BY <1>1, <1>6, AcceptStep

LEMMA RefineRotates ==
    ASSUME IInv, LogInv, AppendRotates
    PROVE  Contract!Next
<1>1. /\ currentBuffer' \in Buffer /\ data[currentBuffer'] = <<>> /\ Avail(currentBuffer') > 1
      /\ currentBuffer' # currentBuffer
      /\ currentBuffer' \notin Range(buffers) /\ currentBuffer' \notin Range(buffersToWrite)
  BY Rotated
<1> PICK cur \in Buffer : cur = currentBuffer'
  BY <1>1
<1> USE DEF AppendRotates, back
<1>2. /\ data' = Appended(data, cur, appended + 1)
      /\ Avail(cur) > 1 /\ cur # currentBuffer /\ data[cur] = <<>>
      /\ cur \notin Range(buffers) /\ cur \notin Range(buffersToWrite)
  BY <1>1
<1>3. /\ data' \in Stored /\ \A c \in Buffer : c # cur => data'[c] = data[c]
      /\ data'[cur] = Append(<<>>, appended + 1)
      /\ appended + 1 \in Lines
  BY <1>2, AppendedValue
<1>4. Unwritten' = Unwritten
  BY DEF Unwritten
<1>5. Range(buffers') = Range(buffers) \cup {currentBuffer} /\ buffers' = Append(buffers, currentBuffer)
  BY RangeAppend DEF IInv, Owners
<1>6. \A b \in Range(Unwritten) \cup Range(buffers') : data[b] = data'[b]
  <2>1. \A b \in Range(Unwritten) \cup Range(buffers') : b \in Buffer /\ b # cur
    BY <1>2, <1>5, BacklogType, RangeWithin DEF IInv, Owners
  <2> QED BY <1>3, <2>1
<1>7. Contents(data', Unwritten) = Batch /\ Contents(data', buffers') = Contents(data, buffers')
  BY <1>6, ContentsSame DEF Batch
<1>8. Contents(data, buffers') = Ready \o Current
  BY <1>5, BacklogType, ContentsAppend DEF Ready, Current, IInv, Owners
<1>9. Backlog' = (Batch \o (Ready \o Current)) \o Append(<<>>, appended + 1)
  BY <1>3, <1>4, <1>7, <1>8 DEF Backlog
<1>10. Batch \o (Ready \o Current) = Backlog
  <2>1. Batch \in Seq(Lines) /\ Ready \in Seq(Lines) /\ Current \in Seq(Lines)
    BY BacklogType
  <2>2. (Batch \o Ready) \o Current = Batch \o (Ready \o Current)
    BY <2>1, Regroup, Zenon
  <2> QED BY <2>2, BacklogType
<1>11. Backlog' = Append(Backlog, appended + 1)
  <2>1. Append(<<>>, appended + 1) = <<appended + 1>>
    OBVIOUS
  <2>2. Append(Backlog, appended + 1) = Backlog \o <<appended + 1>>
    BY <1>3, BacklogType, AppendIsConcat
  <2> QED BY <1>9, <1>10, <2>1, <2>2
<1> QED BY <1>3, <1>11, AcceptStep

\* The steps after which the contract has not moved.
LEMMA RefineQuiet ==
    ASSUME IInv, LogInv, Tick \/ Begin \/ Check \/ Wait \/ UNCHANGED vars
    PROVE  UNCHANGED Contract!vars
<1>1. UNCHANGED <<data, currentBuffer, buffers, buffersToWrite, written, file, lost, running>>
  BY DEF Tick, Begin, Check, Wait, vars, front, back
<1>2. pc' = pc \/ {pc, pc'} \cap {"swapped", "write"} = {}
  BY DEF Tick, Begin, Check, Wait, vars, back
<1>3. Unwritten' = Unwritten
  BY <1>1, <1>2 DEF Unwritten
<1>4. Backlog' = Backlog
  BY <1>1, <1>3 DEF Backlog
<1> QED BY <1>1, <1>4 DEF Contract!vars

LEMMA RefineStop ==
    ASSUME IInv, LogInv, Stop
    PROVE  Contract!Next
<1>1. UNCHANGED <<data, currentBuffer, buffers, buffersToWrite, written, pc, file, lost>> /\ running' = FALSE
  BY DEF Stop, front, back
<1>2. Backlog' = Backlog
  BY <1>1 DEF Backlog, Unwritten
<1>3. Contract!Close
  BY <1>1, <1>2 DEF Contract!Close
<1> QED BY <1>3 DEF Contract!Next

\* The current buffer joins the batch, and an empty one takes its place.
LEMMA RefineSwap ==
    ASSUME IInv, LogInv, Swap
    PROVE  UNCHANGED Contract!vars
<1> USE DEF Swap
<1>1. /\ pc \in Between /\ newBuffer1 # Null /\ data[newBuffer1] = <<>>
      /\ pc \notin {"swapped", "write", "recycle"}
  BY DEF IInv, SwapFrom, BackOK, Between, SparesEmpty
<1>2. Unwritten = <<>> /\ Batch = <<>>
  BY <1>1, ContentsEmpty DEF Unwritten, Batch
<1>3. buffersToWrite' \in Seq(Buffer)
  BY SwapStep DEF Owners
<1>4. Unwritten' = buffersToWrite'
  <2>1. written' = 0
    BY <1>1 DEF LogInv, Progress
  <2>2. Unwritten' = SubSeq(buffersToWrite', 1, Len(buffersToWrite'))
    BY <2>1 DEF Unwritten
  <2> QED BY <1>3, <2>2, SubSeqFull
<1>5. Contents(data', buffersToWrite') = Ready \o Current
  BY BacklogType, ContentsAppend DEF Ready, Current, IInv, Owners
<1>6. Contents(data', buffers') = <<>> /\ data'[currentBuffer'] = <<>>
  BY <1>1, ContentsEmpty
<1>7. Backlog' = ((Ready \o Current) \o <<>>) \o <<>>
  BY <1>4, <1>5, <1>6 DEF Backlog
<1>8. Backlog' = Ready \o Current
  <2>1. Ready \o Current \in Seq(Lines)
    BY BacklogType, ConcatProperties
  <2> QED BY <1>7, <2>1, ConcatEmptySeq
<1>9. Backlog = Ready \o Current
  BY <1>2, BacklogType, ConcatEmptySeq
<1> QED BY <1>8, <1>9 DEF Contract!vars

\* When nothing is left to write, buffers of the batch are emptied.
LEMMA RefineEmptied ==
    ASSUME IInv, LogInv, Unwritten = <<>>, Unwritten' = <<>>, NEW bs,
           bs \subseteq Range(buffersToWrite), data' = Emptied(bs),
           UNCHANGED <<currentBuffer, buffers, file, lost, running>>
    PROVE  UNCHANGED Contract!vars
<1>1. \A b \in Buffer : data'[b] = IF b \in bs THEN <<>> ELSE data[b]
  BY EmptiedValue
<1>2. \A b \in Range(buffers) \cup {currentBuffer} : data[b] = data'[b]
  BY <1>1, RangeWithin DEF IInv, Owners, Apart
<1>3. Contents(data', buffers) = Contents(data, buffers)
  BY <1>2, ContentsSame
<1>4. Backlog' = Backlog
  BY <1>2, <1>3, ContentsEmpty DEF Backlog
<1> QED BY <1>4 DEF Contract!vars

LEMMA RefineWritten ==
    ASSUME IInv, LogInv, Written
    PROVE  UNCHANGED Contract!vars
<1> USE DEF Written, front
<1> DEFINE rest == SubSeq(buffersToWrite, Kept + 1, Len(buffersToWrite))
<1>1. Unwritten = <<>> /\ Unwritten' = <<>>
  <2>1. Len(buffersToWrite) \in Nat
    BY LenProperties DEF IInv, Owners
  <2>2. SubSeq(buffersToWrite, written + 1, Len(buffersToWrite)) = <<>>
    BY <2>1, SubSeqEmpty
  <2> QED BY <2>2 DEF Unwritten
<1>2. Range(rest) \subseteq Range(buffersToWrite)
  <2>1. Len(buffersToWrite) \in Nat /\ Kept \in Nat
    BY LenProperties DEF IInv, Owners, Kept
  <2>2. CASE Kept <= Len(buffersToWrite)
    <3>1. Kept \in 0 .. Len(buffersToWrite) /\ buffersToWrite \in Seq(Buffer)
      BY <2>1, <2>2 DEF IInv, Owners
    <3>2. Range(buffersToWrite) = Range(SubSeq(buffersToWrite, 1, Kept)) \cup Range(rest)
      BY <3>1, SplitAt
    <3> QED BY <3>2
  <2>3. CASE Kept > Len(buffersToWrite)
    <3>1. rest = <<>>
      BY <2>1, <2>3, SubSeqEmpty
    <3> QED BY <3>1, EmptySequence
  <2> QED BY <2>1, <2>2, <2>3
<1>3. data' = Emptied(Range(rest))
  OBVIOUS
<1>4. UNCHANGED <<currentBuffer, buffers, file, lost, running>>
  OBVIOUS
<1> HIDE DEF rest
<1> QED BY <1>1, <1>2, <1>3, <1>4, RefineEmptied

LEMMA RefineRecycle ==
    ASSUME IInv, LogInv, Recycle
    PROVE  UNCHANGED Contract!vars
<1>1. Unwritten = <<>> /\ Unwritten' = <<>>
  BY DEF Recycle, Unwritten
<1>2. data' = Emptied(Range(buffersToWrite))
  BY DEF Recycle
<1>3. UNCHANGED <<currentBuffer, buffers, file, lost, running>>
  BY DEF Recycle, front
<1> QED BY <1>1, <1>2, <1>3, RefineEmptied

\* The next buffer of the batch goes from the front of the backlog to the file.
LEMMA RefineWrite ==
    ASSUME IInv, LogInv, Write
    PROVE  [Contract!Next]_(Contract!vars)
<1> USE DEF Write, front
<1> DEFINE n == Len(buffersToWrite)
           b == buffersToWrite[written + 1]
           rest == SubSeq(buffersToWrite, written + 2, n)
<1>1. n \in Nat /\ written \in Nat /\ written + 1 \in 1 .. n /\ buffersToWrite \in Seq(Buffer)
  BY LenProperties DEF IInv, Owners, Numbers
<1>2. b \in Buffer /\ data \in Stored
  BY <1>1, ElementOfSeq, BacklogType
<1>3. Unwritten = <<b>> \o rest /\ Unwritten' = rest
  <2>1. Unwritten = SubSeq(buffersToWrite, written + 1, n)
    BY DEF Unwritten
  <2>2. Unwritten' = SubSeq(buffersToWrite, (written + 1) + 1, n)
    BY DEF Unwritten
  <2>3. n \in written + 1 .. n
    BY <1>1
  <2>4. SubSeq(buffersToWrite, written + 1, n) = <<b>> \o SubSeq(buffersToWrite, (written + 1) + 1, n)
    BY <1>1, <2>3, SubSeqRecursiveFirst, Zenon
  <2>5. (written + 1) + 1 = written + 2
    BY <1>1
  <2> QED BY <2>1, <2>2, <2>4, <2>5
<1>4. rest \in Seq(Buffer)
  <2>1. \A i \in written + 2 .. n : buffersToWrite[i] \in Buffer
    <3>1. \A i \in written + 2 .. n : i \in 1 .. n
      BY <1>1
    <3> QED BY <1>1, <3>1, ElementOfSeq
  <2> QED BY <1>1, <2>1, SubSeqProperties
<1> DEFINE first == data[b]
           others == Contents(data, rest)
<1> HIDE DEF n, b, rest
<1>5. first \in Seq(Lines) /\ others \in Seq(Lines)
  BY <1>2, <1>4, ContentsType DEF Stored
<1>6. Batch = first \o others
  <2>1. <<b>> \in Seq(Buffer)
    BY <1>2
  <2>2. Contents(data, <<b>> \o rest) = Contents(data, <<b>>) \o Contents(data, rest)
    BY <1>2, <1>4, <2>1, ContentsConcat
  <2> QED BY <1>2, <1>3, <2>2, ContentsOne DEF Batch
<1>7. Backlog' = (others \o Ready) \o Current
  BY <1>3 DEF Backlog, Ready, Current
<1> HIDE DEF first, others
<1>8. /\ Backlog = first \o Backlog' /\ Backlog' \in Seq(Lines)
  <2>0. Ready \in Seq(Lines) /\ Current \in Seq(Lines)
    BY BacklogType
  <2>1. others \o Ready \in Seq(Lines)
    BY <1>5, <2>0, Joined
  <2>2. /\ (first \o others) \o Ready = first \o (others \o Ready)
        /\ (first \o (others \o Ready)) \o Current = first \o ((others \o Ready) \o Current)
    <3> DEFINE tail == others \o Ready
    <3>1. (first \o others) \o Ready = first \o tail
      BY <1>5, <2>0, Regroup, Zenon
    <3>2. (first \o tail) \o Current = first \o (tail \o Current)
      <4> HIDE DEF tail
      <4> QED BY <1>5, <2>0, <2>1, Regroup, Zenon DEF tail
    <3> QED BY <3>1, <3>2
  <2>3. (others \o Ready) \o Current \in Seq(Lines)
    BY <2>0, <2>1, Joined
  <2> QED BY <1>6, <1>7, <2>2, <2>3, BacklogType
<1>9. file' = file \o first /\ lost' = lost /\ running' = running
  BY DEF first, b
<1>10. CASE first = <<>>
  <2>1. Backlog' = Backlog
    BY <1>8, <1>10, ConcatEmptySeq
  <2>2. file' = file
    BY <1>9, <1>10, BacklogType, ConcatEmptySeq
  <2> QED BY <1>9, <2>1, <2>2 DEF Contract!vars
<1>11. CASE first # <<>>
  <2> DEFINE k == Len(first)
  <2>1. SubSeq(Backlog, 1, k) = first /\ SubSeq(Backlog, k + 1, Len(Backlog)) = Backlog'
        /\ Len(Backlog) = k + Len(Backlog')
    BY <1>5, <1>8, SplitTwo
  <2>2. k \in 1 .. Len(Backlog)
    <3>1. k \in Nat /\ k # 0 /\ Len(Backlog') \in Nat
      BY <1>5, <1>8, <1>11, LenProperties, EmptySeq
    <3> QED BY <2>1, <3>1
  <2> HIDE DEF k
  <2>3. Contract!Write
    BY <1>9, <2>1, <2>2 DEF Contract!Write
  <2> QED BY <2>3 DEF Contract!Next
<1> QED BY <1>10, <1>11

\* The batch is cut, and what is erased was behind Safe lines of a backlog of Overload lines.
LEMMA RefineCut ==
    ASSUME IInv, LogInv, Cut
    PROVE  [Contract!Next]_(Contract!vars)
<1> USE DEF Cut, front
<1> DEFINE n == Len(buffersToWrite)
           c == BufferSize - 1
<1>1. n \in Nat /\ buffersToWrite \in Seq(Buffer) /\ written = 0 /\ c \in Nat
  BY LenProperties, SizeAssumption DEF IInv, Owners, LogInv, Progress
<1>2. Unwritten = buffersToWrite
  BY <1>1, SubSeqFull DEF Unwritten
<1>3. buffersToWrite' \in Seq(Buffer)
  BY CutStep DEF Owners
<1>4. Unwritten' = buffersToWrite'
  <2>1. Unwritten' = SubSeq(buffersToWrite', 1, Len(buffersToWrite'))
    BY DEF Unwritten
  <2> QED BY <1>3, <2>1, SubSeqFull
<1>5. CASE ~(n > MaxBuffers)
  <2>1. data' = data /\ buffersToWrite' = buffersToWrite /\ lost' = lost
    BY <1>5
  <2>2. Backlog' = Backlog
    BY <1>2, <1>4, <2>1 DEF Backlog
  <2> QED BY <2>1, <2>2 DEF Contract!vars
<1>6. CASE n > MaxBuffers
  <2> DEFINE kept == SubSeq(buffersToWrite, 1, Kept)
             erased == SubSeq(buffersToWrite, Kept + 1, n)
             K == Contents(data, kept)
             E == Contents(data, erased)
  <2>1. Kept \in 0 .. n /\ Kept = 2 /\ MaxBuffers \in Nat /\ MaxBuffers >= 2
    BY <1>1, <1>6, SizeAssumption DEF Kept
  <2>2. /\ buffersToWrite' = kept /\ lost' = lost \cup LinesOf(erased)
        /\ data' = Emptied(Range(erased))
    BY <1>6
  <2>3. /\ kept \in Seq(Buffer) /\ erased \in Seq(Buffer) /\ Len(kept) = Kept
        /\ buffersToWrite = kept \o erased
        /\ Range(buffersToWrite) = Range(kept) \cup Range(erased)
    BY <1>1, <2>1, SplitAt
  <2>4. Range(kept) \cap Range(erased) = {}
    <3>1. IsInjective(kept \o erased)
      BY <2>3 DEF IInv, Apart
    <3> HIDE DEF kept, erased
    <3> QED BY <2>3, <3>1, InjectiveParts
  <2>5. \A i \in 1 .. n - 1 : Len(data[buffersToWrite[i]]) >= c
    BY DEF LogInv, Fills, Full
  <2>6. Len(K) >= Kept * c
    <3>1. \A i \in 1 .. Len(kept) : Len(data[kept[i]]) >= c
      BY <1>1, <1>6, <2>1, <2>3, <2>5, PrefixProperties
    <3>2. Len(K) >= Len(kept) * c
      <4> HIDE DEF kept, c
      <4> QED BY <1>1, <2>3, <3>1, BacklogType, ContentsLength
    <3> QED BY <2>3, <3>2
  <2>7. Len(Contents(data, buffersToWrite)) >= MaxBuffers * c
    <3> DEFINE first == SubSeq(buffersToWrite, 1, MaxBuffers)
               last == SubSeq(buffersToWrite, MaxBuffers + 1, n)
    <3>1. /\ first \in Seq(Buffer) /\ last \in Seq(Buffer) /\ Len(first) = MaxBuffers
          /\ buffersToWrite = first \o last
      <4>1. MaxBuffers \in 0 .. n /\ n = Len(buffersToWrite)
        BY <1>1, <1>6, <2>1
      <4> HIDE DEF n
      <4> QED BY <1>1, <4>1, SplitAt
    <3>2. \A i \in 1 .. Len(first) : Len(data[first[i]]) >= c
      <4>1. MaxBuffers \in 0 .. Len(buffersToWrite) /\ \A i \in 1 .. MaxBuffers : i \in 1 .. n - 1
        BY <1>1, <1>6, <2>1
      <4>2. \A i \in 1 .. MaxBuffers : first[i] = buffersToWrite[i]
        BY <1>1, <4>1, PrefixProperties
      <4> HIDE DEF first, n, c
      <4> QED BY <2>5, <3>1, <4>1, <4>2
    <3> HIDE DEF first, last, c
    <3>3. Len(Contents(data, first)) >= MaxBuffers * c
      BY <1>1, <3>1, <3>2, BacklogType, ContentsLength
    <3>4. Contents(data, buffersToWrite) = Contents(data, first) \o Contents(data, last)
      BY <3>1, BacklogType, ContentsConcat
    <3>5. Len(Contents(data, buffersToWrite)) = Len(Contents(data, first)) + Len(Contents(data, last))
          /\ Len(Contents(data, first)) \in Nat /\ Len(Contents(data, last)) \in Nat
      BY <3>1, <3>4, BacklogType, ContentsType, ConcatProperties, LenProperties
    <3>6. MaxBuffers * c \in Nat
      BY <1>1, <2>1
    <3> QED BY <3>3, <3>5, <3>6
  <2> HIDE DEF kept, erased, K, E
  <2>8. K \in Seq(Lines) /\ E \in Seq(Lines) /\ Batch = K \o E
    BY <1>2, <2>3, BacklogType, ContentsType, ContentsConcat DEF K, E, Batch
  <2> DEFINE rest == Ready \o Current
             i == Len(K)
             j == Len(K) + Len(E)
  <2>9. rest \in Seq(Lines) /\ Backlog = (K \o E) \o rest
    <3>1. /\ Batch \in Seq(Lines) /\ Ready \in Seq(Lines) /\ Current \in Seq(Lines)
          /\ Backlog = (Batch \o Ready) \o Current
      BY BacklogType
    <3>2. (Batch \o Ready) \o Current = Batch \o (Ready \o Current)
      BY <3>1, Regroup, Zenon
    <3>3. Ready \o Current \in Seq(Lines)
      BY <3>1, Joined
    <3> QED BY <2>8, <3>1, <3>2, <3>3
  <2>10. Backlog' = K \o rest
    <3>1. \A b \in Buffer : data'[b] = IF b \in Range(erased) THEN <<>> ELSE data[b]
      BY <2>2, EmptiedValue
    <3>2. \A b \in Range(kept) \cup Range(buffers) \cup {currentBuffer} : data[b] = data'[b]
      BY <2>3, <2>4, <3>1, RangeWithin DEF IInv, Owners, Apart
    <3>3. Contents(data', kept) = K /\ Contents(data', buffers) = Ready /\ data'[currentBuffer] = Current
      BY <3>2, ContentsSame DEF K, Ready, Current
    <3>4. Backlog' = (K \o Ready) \o Current
      BY <1>4, <2>2, <3>3 DEF Backlog
    <3>5. Ready \in Seq(Lines) /\ Current \in Seq(Lines)
      BY BacklogType
    <3>6. (K \o Ready) \o Current = K \o (Ready \o Current)
      BY <2>8, <3>5, Regroup, Zenon
    <3> QED BY <3>4, <3>6
  <2>11. /\ Len(Backlog) = i + Len(E) + Len(rest)
         /\ SubSeq(Backlog, 1, i) = K
         /\ SubSeq(Backlog, i + 1, j) = E
         /\ SubSeq(Backlog, j + 1, Len(Backlog)) = rest
         /\ i \in Nat /\ Len(E) \in Nat /\ Len(rest) \in Nat
    <3> HIDE DEF rest
    <3> QED BY <2>8, <2>9, SplitThree, LenProperties
  <2>12. LinesOf(erased) = Range(E)
    BY <2>3, BacklogType, ContentsRange DEF E, LinesOf
  <2>13. file' = file /\ running' = running
    OBVIOUS
  <2> HIDE DEF rest
  <2>14. CASE E = <<>>
    <3>1. K \o E = K
      BY <2>8, <2>14, ConcatEmptySeq
    <3>2. Backlog' = Backlog /\ lost' = lost
      BY <2>2, <2>9, <2>10, <2>12, <2>14, <3>1, EmptySequence
    <3> QED BY <2>13, <3>2 DEF Contract!vars
  <2>15. CASE E # <<>>
    <3>1. Len(E) >= 1
      BY <2>8, <2>15, EmptySeq, LenProperties
    <3>2. Len(Backlog) >= MaxBuffers * (BufferSize - 1)
      <4>1. Len(Batch) = i + Len(E)
        BY <2>8, ConcatProperties
      <4>2. Len(Batch) >= MaxBuffers * c
        BY <1>2, <2>7 DEF Batch
      <4>3. MaxBuffers * c \in Nat
        BY <1>1, <2>1
      <4> HIDE DEF i
      <4> QED BY <2>11, <4>1, <4>2, <4>3
    <3>3. i \in Kept * (BufferSize - 1) .. Len(Backlog) /\ j \in Kept * (BufferSize - 1) + 1 .. Len(Backlog) /\ i < j
      <4>1. Kept * c \in Nat
        BY <1>1, <2>1
      <4> QED BY <2>6, <2>11, <3>1, <4>1
    <3>4. lost' = lost \cup Contract!Range(SubSeq(Backlog, i + 1, j))
      <4>1. Contract!Range(E) = Range(E)
        BY Zenon DEF Contract!Range, Range
      <4> QED BY <2>2, <2>11, <2>12, <4>1
    <3>5. Backlog' = SubSeq(Backlog, 1, i) \o SubSeq(Backlog, j + 1, Len(Backlog))
      BY <2>10, <2>11
    <3> HIDE DEF i, j
    <3>6. Contract!Lose
      BY <2>13, <3>2, <3>3, <3>4, <3>5 DEF Contract!Lose
    <3> QED BY <3>6 DEF Contract!Next
  <2> QED BY <2>14, <2>15
<1> QED BY <1>5, <1>6

LEMMA ContractStep ==
    ASSUME IInv, LogInv, [Next]_vars
    PROVE  [Contract!Next]_(Contract!vars)
BY RefineQuiet, RefineStop, RefineFits, RefineRotates, RefineSwap, RefineCut, RefineWrite,
   RefineWritten, RefineRecycle
   DEF Next, AppendLine, BackStep

(***************************************************************************)
(* The log never does what its contract forbids, for any sizes and numbers *)
(* of buffers (AsyncLogging.cpp:27-41 and 65-113): lines reach the file in *)
(* the order of the calls of append, none twice; none is lost but by an    *)
(* overloaded back end, which has MaxBuffers full buffers to write and     *)
(* writes the first two of them.  (That every line is settled in the end   *)
(* needs fairness: TLC checks it.)                                         *)
(***************************************************************************)
THEOREM ImplementsContractSafety == Spec => Contract!Safety
<1>1. Init => Contract!Init
  <2> SUFFICES ASSUME Init PROVE Contract!Init
    OBVIOUS
  <2>1. /\ data = [b \in Buffer |-> <<>>] /\ buffers = <<>> /\ pc = "begin"
        /\ file = <<>> /\ lost = {} /\ running = TRUE
    BY DEF Init
  <2>2. currentBuffer \in Buffer
    BY Initially DEF IInv, Owners
  <2>3. Backlog = (<<>> \o <<>>) \o <<>>
    BY <2>1, <2>2, ContentsEmpty DEF Backlog, Unwritten
  <2>4. Backlog = <<>>
    BY <2>3, ConcatEmptySeq, EmptySeq
  <2> QED BY <2>1, <2>4 DEF Contract!Init
<1>2. IInv /\ LogInv /\ [Next]_vars => [Contract!Next]_(Contract!vars)
  BY ContractStep
<1> QED BY Invariance, LogAlways, <1>1, <1>2, PTL DEF Spec, Contract!Safety
===============================================================================
