--------------------------- MODULE EventLoop_proofs ---------------------------
(***************************************************************************)
(* Theorems about EventLoop, for every set of threads and of functors.     *)
(***************************************************************************)
EXTENDS EventLoop, SequenceLemmas, FiniteSetTheorems

\* callingPendingFunctors_ is set exactly while doPendingFunctors runs, and
\* its batch is empty outside of the loop that runs it.
BatchOK == /\ calling <=> pc \in {"swap", "run", "cb", "cbwake"}
           /\ functors # <<>> => pc \in {"run", "cb", "cbwake"}

(***************************************************************************)
(* The inductive invariant.                                                *)
(***************************************************************************)
IInv == /\ TypeOK
        /\ BatchOK
        /\ NoLostWakeup
        /\ NoDeafQuit
        /\ IsFiniteSet(sent)
        /\ ExactlyOnce

-------------------------------------------------------------------------------
\* ExactlyOnce, said of the three sequences one by one.
LEMMA ExactlyOnceParts ==
    ASSUME ran \in Seq(Functor), functors \in Seq(Functor),
           pendingFunctors \in Seq(Functor)
    PROVE  ExactlyOnce <=>
             /\ Range(ran) \cup Range(functors) \cup Range(pendingFunctors) = sent
             /\ Len(ran) + Len(functors) + Len(pendingFunctors) = Cardinality(sent)
<1>1. Range(ran \o functors \o pendingFunctors)
        = Range(ran) \cup Range(functors) \cup Range(pendingFunctors)
  BY RangeOfThree
<1>2. Len(ran \o functors \o pendingFunctors)
        = Len(ran) + Len(functors) + Len(pendingFunctors)
  BY LenOfThree
<1> QED BY <1>1, <1>2, Zenon DEF ExactlyOnce

LEMMA ExactlyOncePartsNext ==
    ASSUME ran' \in Seq(Functor), functors' \in Seq(Functor),
           pendingFunctors' \in Seq(Functor)
    PROVE  ExactlyOnce' <=>
             /\ Range(ran') \cup Range(functors') \cup Range(pendingFunctors') = sent'
             /\ Len(ran') + Len(functors') + Len(pendingFunctors') = Cardinality(sent')
<1>1. Range(ran' \o functors' \o pendingFunctors')
        = Range(ran') \cup Range(functors') \cup Range(pendingFunctors')
  BY RangeOfThree
<1>2. Len(ran' \o functors' \o pendingFunctors')
        = Len(ran') + Len(functors') + Len(pendingFunctors')
  BY LenOfThree
<1> QED BY <1>1, <1>2, Zenon DEF ExactlyOnce

-------------------------------------------------------------------------------
\* The Boolean variables and the others, apart: no prover does both well.
Flags == /\ calling \in BOOLEAN /\ quit \in BOOLEAN /\ edge \in BOOLEAN
         /\ io \in BOOLEAN /\ stopping \in BOOLEAN

Data == /\ pendingFunctors \in Seq(Functor)
        /\ functors \in Seq(Functor)
        /\ efd \in Nat
        /\ active \in SUBSET Event
        /\ pc \in Place
        /\ caller \in [Thread -> {"idle", "wakeup"}]
        /\ ran \in Seq(Functor)
        /\ sent \in SUBSET Functor

LEMMA FlagsAndData == /\ TypeOK <=> Flags /\ Data
                      /\ TypeOK' <=> Flags' /\ Data'
BY DEF TypeOK, Flags, Data

LEMMA TypeInit == Init => TypeOK
<1>1. Init => Flags
  BY DEF Init, Flags
<1>2. Init => Data
  BY DEF Init, Data, Event, Place
<1> QED BY <1>1, <1>2, FlagsAndData

LEMMA FlagsStep == Flags /\ [Next]_vars => Flags'
BY DEF Flags, Next, LoopStep, CallbackStep, OtherStep, QueueInLoop, Quit, Wakeup, Write,
       Arrive, Begin, Check, Poll, HandleRead, HandleEvents, EventsDone, Swap, RunFunctor,
       BatchDone, HandleExpired, Return, QueueFromLoop, WakeupSelf, RunInLoop,
       QuitFromLoop, vars

LEMMA DataStep == Data /\ [Next]_vars => Data'
<1> SUFFICES ASSUME Data, [Next]_vars
             PROVE  Data'
  OBVIOUS
<1> USE DEF Data, Event, Place
<1>1. ASSUME NEW t \in Thread, NEW f \in Functor, QueueInLoop(t, f)
      PROVE  Data'
  BY <1>1, AppendProperties DEF QueueInLoop
<1>2. ASSUME NEW t \in Thread, Quit(t)
      PROVE  Data'
  BY <1>2 DEF Quit
<1>3. ASSUME NEW t \in Thread, Wakeup(t)
      PROVE  Data'
  BY <1>3 DEF Wakeup, Write
<1>4. ASSUME NEW f \in Functor, QueueFromLoop(f)
      PROVE  Data'
  BY <1>4, AppendProperties DEF QueueFromLoop, InCallback
<1>5. ASSUME NEW f \in Functor, RunInLoop(f)
      PROVE  Data'
  BY <1>5, AppendProperties DEF RunInLoop
<1>6. CASE Arrive
  BY <1>6 DEF Arrive
<1>7. CASE Begin
  BY <1>7 DEF Begin
<1>8. CASE Check
  BY <1>8 DEF Check
<1>9. CASE Poll
  BY <1>9 DEF Poll, Ready
<1>10. CASE HandleRead
  BY <1>10 DEF HandleRead
<1>11. CASE HandleEvents
  BY <1>11 DEF HandleEvents
<1>12. CASE EventsDone
  BY <1>12 DEF EventsDone
<1>13. CASE Swap
  BY <1>13 DEF Swap
<1>14. CASE RunFunctor
  BY <1>14, SplitHead, AppendProperties DEF RunFunctor
<1>15. CASE BatchDone
  BY <1>15 DEF BatchDone
<1>16. CASE HandleExpired
  BY <1>16 DEF HandleExpired
<1>17. CASE Return
  BY <1>17 DEF Return, InCallback
<1>18. CASE WakeupSelf
  BY <1>18 DEF WakeupSelf, Write
<1>19. CASE QuitFromLoop
  BY <1>19 DEF QuitFromLoop, InCallback
<1>20. CASE UNCHANGED vars
  BY <1>20 DEF vars
<1> QED
  BY <1>1, <1>2, <1>3, <1>4, <1>5, <1>6, <1>7, <1>8, <1>9, <1>10,
     <1>11, <1>12, <1>13, <1>14, <1>15, <1>16, <1>17, <1>18, <1>19, <1>20
     DEF Next, LoopStep, CallbackStep, OtherStep

\* Every step keeps the variables in their types.
LEMMA TypeStep == TypeOK /\ [Next]_vars => TypeOK'
BY FlagsAndData, FlagsStep, DataStep

LEMMA BatchStep == IInv /\ [Next]_vars => BatchOK'
<1> SUFFICES ASSUME TypeOK, BatchOK, [Next]_vars
             PROVE  BatchOK'
  BY DEF IInv
<1> USE DEF BatchOK
<1>1. CASE OtherStep \/ UNCHANGED vars
  BY <1>1 DEF OtherStep, QueueInLoop, Quit, Wakeup, Arrive, vars
<1>2. CASE CallbackStep
  BY <1>2 DEF CallbackStep, QueueFromLoop, RunInLoop, QuitFromLoop, InCallback
<1>3. CASE Begin \/ Check \/ Poll \/ HandleRead \/ HandleEvents \/ EventsDone
  BY <1>3 DEF Begin, Check, Poll, HandleRead, HandleEvents, EventsDone
<1>4. CASE Swap \/ RunFunctor \/ BatchDone \/ HandleExpired \/ Return \/ WakeupSelf
  BY <1>4 DEF Swap, RunFunctor, BatchDone, HandleExpired, Return, WakeupSelf, InCallback
<1> QED BY <1>1, <1>2, <1>3, <1>4 DEF Next, LoopStep

\* The wakeup invariants.  Only Poll and HandleRead take a signal away: Poll
\* leaves the places they speak of, and the swap comes after HandleRead.
LEMMA WakeupStep == IInv /\ [Next]_vars => NoLostWakeup' /\ NoDeafQuit'
<1> SUFFICES ASSUME TypeOK, BatchOK, NoLostWakeup, NoDeafQuit, [Next]_vars
             PROVE  NoLostWakeup' /\ NoDeafQuit'
  BY DEF IInv
<1> USE DEF NoLostWakeup, NoDeafQuit, BeforePoll, Signalled, WakeupComing
<1>1. ASSUME NEW t \in Thread, NEW f \in Functor, QueueInLoop(t, f)
      PROVE  NoLostWakeup' /\ NoDeafQuit'
  <2>1. caller'[t] = "wakeup"
    BY <1>1 DEF QueueInLoop, TypeOK
  <2> QED BY <2>1
<1>2. ASSUME NEW t \in Thread, Quit(t)
      PROVE  NoLostWakeup' /\ NoDeafQuit'
  <2>1. caller'[t] = "wakeup"
    BY <1>2 DEF Quit, TypeOK
  <2> QED BY <2>1
<1>3. ASSUME NEW t \in Thread, Wakeup(t)
      PROVE  NoLostWakeup' /\ NoDeafQuit'
  <2>1. edge' /\ efd' > 0
    BY <1>3 DEF Wakeup, Write, TypeOK
  <2> QED BY <2>1
<1>4. CASE WakeupSelf
  <2>1. edge' /\ efd' > 0
    BY <1>4 DEF WakeupSelf, Write, TypeOK
  <2> QED BY <2>1
<1>5. CASE Arrive \/ UNCHANGED vars
  BY <1>5 DEF Arrive, vars
<1>6. CASE Begin
  BY <1>6 DEF Begin
<1>7. CASE Check
  <2>1. /\ UNCHANGED <<pendingFunctors, edge, efd, caller, quit>>
        /\ pc' \in {"exited", "poll"} /\ pc = "check"
        /\ pc' = "poll" => ~quit
    BY <1>7 DEF Check
  <2> QED BY <2>1
<1>8. CASE Poll \/ HandleRead \/ HandleEvents \/ EventsDone
  BY <1>8 DEF Poll, HandleRead, HandleEvents, EventsDone
<1>9. CASE Swap \/ RunFunctor \/ BatchDone \/ HandleExpired \/ Return
  BY <1>9 DEF Swap, RunFunctor, BatchDone, HandleExpired, Return, InCallback
<1>10. CASE CallbackStep
  BY <1>10 DEF CallbackStep, QueueFromLoop, RunInLoop, QuitFromLoop, InCallback, BatchOK
<1> QED BY <1>1, <1>2, <1>3, <1>4, <1>5, <1>6, <1>7, <1>8, <1>9, <1>10
           DEF Next, LoopStep, OtherStep

LEMMA OnceStep ==
    IInv /\ TypeOK' /\ [Next]_vars => IsFiniteSet(sent)' /\ ExactlyOnce'
<1> SUFFICES ASSUME IInv, TypeOK', [Next]_vars
             PROVE  IsFiniteSet(sent') /\ ExactlyOnce'
  OBVIOUS
<1>t. /\ ran \in Seq(Functor) /\ functors \in Seq(Functor)
      /\ pendingFunctors \in Seq(Functor)
      /\ ran' \in Seq(Functor) /\ functors' \in Seq(Functor)
      /\ pendingFunctors' \in Seq(Functor)
      /\ IsFiniteSet(sent) /\ BatchOK
  BY DEF IInv, TypeOK
<1>n. /\ Len(ran) \in Nat /\ Len(functors) \in Nat /\ Len(pendingFunctors) \in Nat
      /\ Cardinality(sent) \in Nat
  BY <1>t, LenProperties, FS_CardinalityType
<1>o. /\ Range(ran) \cup Range(functors) \cup Range(pendingFunctors) = sent
      /\ Len(ran) + Len(functors) + Len(pendingFunctors) = Cardinality(sent)
  BY <1>t, ExactlyOnceParts DEF IInv
<1> DEFINE Parts ==
      /\ Range(ran') \cup Range(functors') \cup Range(pendingFunctors') = sent'
      /\ Len(ran') + Len(functors') + Len(pendingFunctors') = Cardinality(sent')
<1>g. SUFFICES IsFiniteSet(sent') /\ Parts
  BY <1>t, ExactlyOncePartsNext
<1>1. ASSUME NEW f \in Functor, f \notin sent, sent' = sent \cup {f}
      PROVE  IsFiniteSet(sent') /\ Cardinality(sent') = Cardinality(sent) + 1
  BY <1>1, <1>t, FS_AddElement
<1>2. ASSUME NEW f \in Functor, (\E t \in Thread : QueueInLoop(t, f)) \/ QueueFromLoop(f)
      PROVE  IsFiniteSet(sent') /\ Parts
  <2>1. /\ f \notin sent /\ sent' = sent \cup {f}
        /\ pendingFunctors' = Append(pendingFunctors, f)
        /\ ran' = ran /\ functors' = functors
    BY <1>2 DEF QueueInLoop, QueueFromLoop
  <2>2. /\ Range(pendingFunctors') = Range(pendingFunctors) \cup {f}
        /\ Len(pendingFunctors') = Len(pendingFunctors) + 1
    BY <2>1, <1>t, RangeAppend, AppendProperties
  <2>3. IsFiniteSet(sent') /\ Cardinality(sent') = Cardinality(sent) + 1
    BY <2>1, <1>1
  <2> QED BY <2>1, <2>2, <2>3, <1>n, <1>o
<1>3. ASSUME NEW f \in Functor, RunInLoop(f)
      PROVE  IsFiniteSet(sent') /\ Parts
  <2>1. /\ f \notin sent /\ sent' = sent \cup {f}
        /\ ran' = Append(ran, f)
        /\ pendingFunctors' = pendingFunctors /\ functors' = functors
    BY <1>3 DEF RunInLoop
  <2>2. Range(ran') = Range(ran) \cup {f} /\ Len(ran') = Len(ran) + 1
    BY <2>1, <1>t, RangeAppend, AppendProperties
  <2>3. IsFiniteSet(sent') /\ Cardinality(sent') = Cardinality(sent) + 1
    BY <2>1, <1>1
  <2> QED BY <2>1, <2>2, <2>3, <1>n, <1>o
<1>4. CASE RunFunctor
  <2>1. /\ functors # <<>> /\ sent' = sent /\ pendingFunctors' = pendingFunctors
        /\ ran' = Append(ran, Head(functors)) /\ functors' = Tail(functors)
    BY <1>4 DEF RunFunctor
  <2>2. /\ Head(functors) \in Functor
        /\ Range(functors) = {Head(functors)} \cup Range(functors')
        /\ Len(functors) = Len(functors') + 1
    BY <2>1, <1>t, SplitHead
  <2>3. /\ Range(ran') = Range(ran) \cup {Head(functors)}
        /\ Len(ran') = Len(ran) + 1
    BY <2>1, <2>2, <1>t, RangeAppend, AppendProperties
  <2>4. Len(functors') \in Nat
    BY <1>t, LenProperties
  <2>5. Range(ran') \cup Range(functors') \cup Range(pendingFunctors') = sent'
    BY <2>1, <2>2, <2>3, <1>o
  <2>6. Len(ran') + Len(functors') + Len(pendingFunctors') = Cardinality(sent')
    BY <2>1, <2>2, <2>3, <2>4, <1>o, <1>n
  <2> QED BY <2>1, <2>5, <2>6, <1>t
<1>5. CASE Swap
  <2>1. /\ functors = <<>> /\ functors' = pendingFunctors /\ pendingFunctors' = <<>>
        /\ ran' = ran /\ sent' = sent
    BY <1>5, <1>t DEF Swap, BatchOK
  <2>2. Range(<<>>) = {} /\ Len(<<>>) = 0
    BY DEF Range
  <2> QED BY <2>1, <2>2, <1>t, <1>n, <1>o
<1>6. CASE UNCHANGED <<ran, functors, pendingFunctors, sent>>
  BY <1>6, <1>t, <1>o
<1>7. ASSUME (\E t \in Thread : Quit(t) \/ Wakeup(t)) \/ Arrive \/ Begin \/ Check \/ Poll
             \/ HandleRead \/ HandleEvents \/ EventsDone \/ BatchDone \/ HandleExpired
             \/ Return \/ WakeupSelf \/ QuitFromLoop \/ UNCHANGED vars
      PROVE  UNCHANGED <<ran, functors, pendingFunctors, sent>>
  BY <1>7 DEF Quit, Wakeup, Arrive, Begin, Check, Poll, HandleRead, HandleEvents,
              EventsDone, BatchDone, HandleExpired, Return, WakeupSelf, QuitFromLoop, vars
<1> QED BY <1>2, <1>3, <1>4, <1>5, <1>6, <1>7
           DEF Next, LoopStep, CallbackStep, OtherStep

LEMMA IInvInit == Init => IInv
<1> SUFFICES ASSUME Init PROVE IInv
  OBVIOUS
<1>1. TypeOK
  BY TypeInit
<1>2. BatchOK /\ NoLostWakeup /\ NoDeafQuit
  BY DEF Init, BatchOK, NoLostWakeup, NoDeafQuit, BeforePoll
<1>3. IsFiniteSet(sent) /\ Cardinality(sent) = 0
  BY FS_EmptySet DEF Init
<1>4. Range(<<>>) = {} /\ Len(<<>>) = 0
  BY DEF Range
<1>5. ExactlyOnce
  BY <1>1, <1>3, <1>4, ExactlyOnceParts DEF Init, TypeOK
<1> QED BY <1>1, <1>2, <1>3, <1>5 DEF IInv

(***************************************************************************)
(* The strengthened invariant is inductive; the theorems follow from it.   *)
(***************************************************************************)
THEOREM Inductive == Spec => []IInv
<1>1. IInv /\ [Next]_vars => IInv'
  <2> SUFFICES ASSUME IInv, [Next]_vars PROVE IInv'
    OBVIOUS
  <2>1. TypeOK'
    BY TypeStep DEF IInv
  <2> QED BY <2>1, BatchStep, WakeupStep, OnceStep DEF IInv
<1> QED BY <1>1, IInvInit, PTL DEF Spec

(***************************************************************************)
(* Type correctness, for any number of threads and functors.               *)
(***************************************************************************)
THEOREM TypeCorrect == Spec => []TypeOK
BY Inductive, PTL DEF IInv

(***************************************************************************)
(* queueInLoop never loses a wakeup: a functor that was queued too late    *)
(* for the current batch is announced by a write to the eventfd that       *)
(* epoll_wait has still to report, or that is about to be made.            *)
(***************************************************************************)
THEOREM WakeupNotLost == Spec => []NoLostWakeup
BY Inductive, PTL DEF IInv

(***************************************************************************)
(* Nor does quit(): a loop never blocks on a quit_ it will not be woken    *)
(* up for.                                                                 *)
(***************************************************************************)
THEOREM QuitNotLost == Spec => []NoDeafQuit
BY Inductive, PTL DEF IInv

(***************************************************************************)
(* Functors are neither lost nor run twice by the swap of                  *)
(* doPendingFunctors, whoever queues them and whenever.                    *)
(***************************************************************************)
THEOREM RunsExactlyOnce == Spec => []ExactlyOnce
BY Inductive, PTL DEF IInv

-------------------------------------------------------------------------------
\* Sequences that are concatenations: an Append at the end, a Head and a Tail
\* at the front.
LEMMA AppendOfConcat ==
    ASSUME NEW S, NEW s \in Seq(S), NEW t \in Seq(S), NEW e \in S
    PROVE  s \o Append(t, e) = Append(s \o t, e)
<1>1. <<e>> \in Seq(S) /\ s \o t \in Seq(S)
  BY ConcatProperties
<1>2. Append(t, e) = t \o <<e>> /\ Append(s \o t, e) = (s \o t) \o <<e>>
  BY <1>1, AppendIsConcat
<1> QED BY <1>1, <1>2, ConcatAssociative

LEMMA FrontOfConcat ==
    ASSUME NEW S, NEW s \in Seq(S), NEW t \in Seq(S), s # <<>>
    PROVE  /\ s \o t # <<>>
           /\ Head(s \o t) = Head(s)
           /\ Tail(s \o t) = Tail(s) \o t
<1>1. /\ Head(s) \in S /\ Tail(s) \in Seq(S) /\ s \o t \in Seq(S)
      /\ Len(s) = Len(Tail(s)) + 1 /\ Len(Tail(s)) \in Nat /\ Len(t) \in Nat
      /\ Len(s \o t) = Len(s) + Len(t)
  BY SplitHead, ConcatProperties, LenProperties
<1>2. s \o t # <<>>
  BY <1>1, EmptySeq
<1>3. Head(s \o t) = Head(s)
  BY <1>1, ConcatProperties
<1>4. /\ Tail(s \o t) \in Seq(S) /\ Tail(s) \o t \in Seq(S)
      /\ Len(Tail(s \o t)) = Len(Tail(s) \o t)
  BY <1>1, <1>2, HeadTailProperties, ConcatProperties
<1>5. ASSUME NEW i \in 1 .. Len(Tail(s \o t))
      PROVE  Tail(s \o t)[i] = (Tail(s) \o t)[i]
  BY <1>1, <1>2, <1>4, HeadTailProperties, ConcatProperties
<1>6. Tail(s \o t) = Tail(s) \o t
  BY <1>4, <1>5, SeqEqual
<1> QED BY <1>2, <1>3, <1>6

LEMMA ContractStep == IInv /\ IInv' /\ [Next]_vars => [Contract!Next]_(Contract!vars)
<1> SUFFICES ASSUME IInv, IInv', [Next]_vars
             PROVE  Contract!Next \/ UNCHANGED Contract!vars
  OBVIOUS
<1>t. /\ ran \in Seq(Functor) /\ functors \in Seq(Functor)
      /\ pendingFunctors \in Seq(Functor)
      /\ functors' \in Seq(Functor) /\ pendingFunctors' \in Seq(Functor)
  BY DEF IInv, TypeOK
<1>f. ASSUME NEW f, f \notin sent
      PROVE  f \notin Range(functors \o pendingFunctors) \cup Range(ran)
  <2>1. Range(ran) \cup Range(functors) \cup Range(pendingFunctors) = sent
    BY <1>t, ExactlyOnceParts DEF IInv
  <2>2. Range(functors \o pendingFunctors) = Range(functors) \cup Range(pendingFunctors)
    BY <1>t, RangeConcatenation
  <2> QED BY <2>1, <2>2, <1>f
<1>1. ASSUME NEW f \in Functor, (\E t \in Thread : QueueInLoop(t, f)) \/ QueueFromLoop(f)
      PROVE  Contract!Next
  <2>1. /\ f \notin sent
        /\ pendingFunctors' = Append(pendingFunctors, f)
        /\ ran' = ran /\ functors' = functors /\ stopping' = stopping
    BY <1>1 DEF QueueInLoop, QueueFromLoop
  <2>2. functors' \o pendingFunctors' = Append(functors \o pendingFunctors, f)
    BY <2>1, <1>t, AppendOfConcat
  <2>3. Contract!Fresh(f)
    BY <2>1, <1>f, Zenon DEF Contract!Fresh, Contract!Range, Range
  <2>4. Contract!Submit(f)
    BY <2>1, <2>2, <2>3 DEF Contract!Submit
  <2> QED BY <2>4 DEF Contract!Next
<1>2. ASSUME NEW f \in Functor, RunInLoop(f)
      PROVE  Contract!Next
  <2>1. /\ f \notin sent /\ ran' = Append(ran, f) /\ stopping' = stopping
        /\ functors' = functors /\ pendingFunctors' = pendingFunctors
    BY <1>2 DEF RunInLoop
  <2>2. Contract!Fresh(f)
    BY <2>1, <1>f, Zenon DEF Contract!Fresh, Contract!Range, Range
  <2>3. Contract!RunInline(f)
    BY <2>1, <2>2 DEF Contract!RunInline
  <2> QED BY <2>3 DEF Contract!Next
<1>3. CASE RunFunctor
  <2>1. /\ functors # <<>> /\ functors' = Tail(functors)
        /\ pendingFunctors' = pendingFunctors
        /\ ran' = Append(ran, Head(functors)) /\ stopping' = stopping
    BY <1>3 DEF RunFunctor
  <2>2. /\ functors \o pendingFunctors # <<>>
        /\ Head(functors \o pendingFunctors) = Head(functors)
        /\ Tail(functors \o pendingFunctors) = functors' \o pendingFunctors'
    BY <2>1, <1>t, FrontOfConcat
  <2>3. Contract!RunNext
    BY <2>1, <2>2 DEF Contract!RunNext
  <2> QED BY <2>3 DEF Contract!Next
<1>4. CASE Swap
  <2>1. /\ functors = <<>> /\ functors' = pendingFunctors /\ pendingFunctors' = <<>>
        /\ ran' = ran /\ stopping' = stopping
    BY <1>4 DEF Swap, IInv, BatchOK
  <2>2. functors' \o pendingFunctors' = functors \o pendingFunctors
    BY <2>1, <1>t, ConcatEmptySeq
  <2> QED BY <2>1, <2>2 DEF Contract!vars
<1>5. ASSUME (\E t \in Thread : Quit(t)) \/ QuitFromLoop
      PROVE  Contract!Next
  <2>1. Contract!Stop
    BY <1>5 DEF Quit, QuitFromLoop, Contract!Stop
  <2> QED BY <2>1 DEF Contract!Next
<1>6. ASSUME (\E t \in Thread : Wakeup(t)) \/ Arrive \/ Begin \/ Check \/ Poll
             \/ HandleRead \/ HandleEvents \/ EventsDone \/ BatchDone \/ HandleExpired
             \/ Return \/ WakeupSelf \/ UNCHANGED vars
      PROVE  UNCHANGED Contract!vars
  BY <1>6 DEF Wakeup, Arrive, Begin, Check, Poll, HandleRead, HandleEvents, EventsDone,
              BatchDone, HandleExpired, Return, WakeupSelf, vars, Contract!vars
<1> QED BY <1>1, <1>2, <1>3, <1>4, <1>5, <1>6
           DEF Next, LoopStep, CallbackStep, OtherStep

(***************************************************************************)
(* The loop never does what its contract forbids: whatever the threads'    *)
(* interleaving, functors run in the order in which they were queued, and  *)
(* none twice.  (That every one of them runs needs fairness: TLC checks    *)
(* it.)                                                                    *)
(***************************************************************************)
THEOREM ImplementsContractSafety == Spec => Contract!SafeSpec
<1>1. Init => Contract!Init
  BY DEF Init, Contract!Init
<1>2. IInv /\ IInv' /\ [Next]_vars => [Contract!Next]_(Contract!vars)
  BY ContractStep
<1> QED BY <1>1, <1>2, Inductive, PTL DEF Spec, Contract!SafeSpec
===============================================================================
