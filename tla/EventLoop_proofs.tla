--------------------------- MODULE EventLoop_proofs ---------------------------
(***************************************************************************)
(* Proofs about EventLoop, about the queue of pending tasks inside it and  *)
(* about EventLoopThread that owns it, for any set of threads, any size of *)
(* the queue and any number of tasks and calls of quit.                    *)
(***************************************************************************)
EXTENDS EventLoopThread, SequenceTheorems, TLAPS

-----------------------------------------------------------------------------
(* The block of ReaderWriterQueue, for every size of the block and every   *)
(* set of elements.  Type correctness needs nothing; the rest is proved    *)
(* for the use the queue is made for, a single producer: OneInside, which  *)
(* says that calls of try_enqueue never overlap, whoever makes them.       *)

\* At most one thread is inside inner_enqueue.
OneInside ==
    \A p, q \in Producers :
        enq[p].step # "none" /\ enq[q].step # "none" => p = q

\* Going up from a around the circle, x is met not after b.
InArc(a, x, b) == IF a <= b THEN a <= x /\ x <= b ELSE a <= x \/ x <= b

\* The consumer's shadow of tail is one of the values tail had since front.
TailShadow == InArc(front, localTail, tail)

\* The producer's shadow of front is not ahead of front.
FrontShadow == InArc(Next1(tail), localFront, front)

\* A producer inside inner_enqueue still looks at the indices it read.
ProducerHolds ==
    \A p \in Producers :
        enq[p].step # "none" =>
            /\ enq[p].pos = tail
            /\ enq[p].elem \in Elements
            /\ Next1(tail) # localFront

\* The consumer inside try_dequeue has taken an element that it saw.
ConsumerHolds ==
    deq.step = "taken" =>
        /\ deq.elem \in Elements
        /\ front # tail
        /\ front # localTail

Building == \E p \in Producers : enq[p].step = "built"

\* A slot holds an element exactly when it is filled and not yet taken, or
\* its element was constructed and not yet published.
SlotsHold ==
    \A i \in Index :
        slots[i] \in Elements <=>
            \/ Filled(i) /\ ~(deq.step = "taken" /\ i = front)
            \/ Building /\ i = tail

QueueInv ==
    /\ QueueTypeOK
    /\ TailShadow
    /\ FrontShadow
    /\ ProducerHolds
    /\ ConsumerHolds
    /\ SlotsHold

-----------------------------------------------------------------------------
(* The next index around the circle is an index.                           *)
LEMMA Next1Type == \A i \in Index : Next1(i) \in Index
  BY SizeAssumption DEF Index, Next1

(* Every step of the queue keeps the types of its variables.               *)
LEMMA QueueTypeStep ==
  ASSUME QueueTypeOK, [QueueNext]_queueVars
  PROVE  QueueTypeOK'
<1> USE Next1Type DEF QueueTypeOK
<1>1. CASE UNCHANGED queueVars
  BY <1>1 DEF queueVars
<1>2. ASSUME NEW p \in Producers, NEW e \in Elements, EnqueueRoom(p, e)
      PROVE  QueueTypeOK'
  BY <1>2 DEF EnqueueRoom, RefreshedFront
<1>3. ASSUME NEW p \in Producers, EnqueueFull(p)
      PROVE  QueueTypeOK'
  BY <1>3 DEF EnqueueFull, RefreshedFront
<1>4. ASSUME NEW p \in Producers, EnqueueConstruct(p)
      PROVE  QueueTypeOK'
  BY <1>4 DEF EnqueueConstruct
<1>5. ASSUME NEW p \in Producers, EnqueuePublish(p)
      PROVE  QueueTypeOK'
  BY <1>5, SizeAssumption DEF EnqueuePublish, NotEnqueuing, Index
<1>6. CASE DequeueTake
  BY <1>6 DEF DequeueTake, RefreshedTail
<1>7. CASE DequeueAdvance
  BY <1>7 DEF DequeueAdvance, NotDequeuing
<1>8. CASE DequeueEmpty
  BY <1>8 DEF DequeueEmpty, RefreshedTail
<1> QED
  BY <1>1, <1>2, <1>3, <1>4, <1>5, <1>6, <1>7, <1>8 DEF QueueNext

(* The initial block is well typed.                                        *)
LEMMA QueueTypeInit == QueueInit => QueueTypeOK
  BY SizeAssumption DEF QueueInit, QueueTypeOK, NotEnqueuing, NotDequeuing, Index

(* Type correctness of the block, with any number of producers.            *)
THEOREM QueueTypeCorrect == QueueSpec => []QueueTypeOK
  BY QueueTypeInit, QueueTypeStep, PTL DEF QueueSpec

-----------------------------------------------------------------------------
(* The empty block satisfies the invariant.                                *)
LEMMA QueueInvInit == QueueInit => QueueInv
<1> SUFFICES ASSUME QueueInit PROVE QueueInv
  OBVIOUS
<1>1. QueueTypeOK
  BY QueueTypeInit
<1>2. TailShadow /\ FrontShadow
  BY SizeAssumption DEF QueueInit, TailShadow, FrontShadow, InArc, Next1
<1>3. ProducerHolds /\ ConsumerHolds
  BY DEF QueueInit, ProducerHolds, ConsumerHolds, NotEnqueuing, NotDequeuing
<1>4. SlotsHold
  BY VacantAssumption
  DEF QueueInit, SlotsHold, Filled, Building, NotEnqueuing, NotDequeuing, Index
<1> QED
  BY <1>1, <1>2, <1>3, <1>4 DEF QueueInv

(* The enqueue steps of a lone producer keep the invariant.                *)
LEMMA EnqueueStep ==
  ASSUME OneInside, OneInside', QueueInv, NEW p \in Producers,
         \/ \E e \in Elements : EnqueueRoom(p, e)
         \/ EnqueueFull(p)
         \/ EnqueueConstruct(p)
         \/ EnqueuePublish(p)
  PROVE  QueueInv'
<1> USE SizeAssumption DEF QueueInv
<1>1. QueueTypeOK'
  BY QueueTypeStep DEF QueueNext
<1>2. ASSUME NEW e \in Elements, EnqueueRoom(p, e)
      PROVE  QueueInv'
  <2> USE <1>2 DEF EnqueueRoom, RefreshedFront, QueueTypeOK
  <2>1. TailShadow'
    BY DEF TailShadow, InArc
  <2>2. FrontShadow'
    BY Next1Type DEF FrontShadow, InArc, Index
  <2>3. ProducerHolds'
    BY DEF OneInside, ProducerHolds
  <2>4. ConsumerHolds'
    BY DEF ConsumerHolds
  <2>5. SlotsHold'
    BY DEF OneInside, SlotsHold, Building, Filled
  <2> QED
    BY <1>1, <2>1, <2>2, <2>3, <2>4, <2>5
<1>3. CASE EnqueueFull(p)
  <2> USE <1>3 DEF EnqueueFull, RefreshedFront, QueueTypeOK
  <2>1. TailShadow'
    BY DEF TailShadow, InArc
  <2>2. FrontShadow'
    BY Next1Type DEF FrontShadow, InArc, Index
  <2>3. ProducerHolds'
    BY DEF OneInside, ProducerHolds
  <2>4. ConsumerHolds'
    BY DEF ConsumerHolds
  <2>5. SlotsHold'
    BY DEF SlotsHold, Building, Filled
  <2> QED
    BY <1>1, <2>1, <2>2, <2>3, <2>4, <2>5
<1>4. CASE EnqueueConstruct(p)
  <2> USE <1>4 DEF EnqueueConstruct, QueueTypeOK
  <2>1. TailShadow' /\ FrontShadow'
    BY DEF TailShadow, FrontShadow, InArc
  <2>2. ProducerHolds'
    BY DEF OneInside, ProducerHolds
  <2>3. ConsumerHolds'
    BY DEF ConsumerHolds
  <2>4. enq[p].pos = tail /\ enq[p].elem \in Elements
    BY DEF ProducerHolds
  <2>5. Building'
    BY DEF Building
  <2>6. SlotsHold'
    BY <2>4, <2>5 DEF SlotsHold, Building, Filled, Index
  <2> QED
    BY <1>1, <2>1, <2>2, <2>3, <2>6
<1>5. CASE EnqueuePublish(p)
  <2> USE <1>5 DEF EnqueuePublish, QueueTypeOK
  <2>1. /\ enq[p].pos = tail
        /\ Next1(tail) # localFront
        /\ tail' = Next1(tail)
    BY DEF ProducerHolds
  <2>2. Next1(tail) # front
    BY <2>1 DEF FrontShadow, InArc, Index, Next1
  <2>3. TailShadow'
    BY <2>1, <2>2 DEF TailShadow, InArc, Index, Next1
  <2>4. FrontShadow'
    BY <2>1 DEF FrontShadow, InArc, Index, Next1
  <2>5. ProducerHolds'
    BY DEF OneInside, ProducerHolds, NotEnqueuing
  <2>6. ConsumerHolds'
    BY <2>1, <2>2 DEF ConsumerHolds
  <2>7. Building /\ ~Building'
    BY DEF Building, OneInside, NotEnqueuing
  <2>8. \A i \in Index : Filled(i)' <=> Filled(i) \/ i = tail
    BY <2>1, <2>2 DEF Filled, Index, Next1
  <2>9. SlotsHold'
    BY <2>7, <2>8 DEF SlotsHold, ConsumerHolds
  <2> QED
    BY <1>1, <2>3, <2>4, <2>5, <2>6, <2>9
<1> QED
  BY <1>2, <1>3, <1>4, <1>5

(* The steps of the consumer keep the invariant.                           *)
LEMMA DequeueStep ==
  ASSUME QueueInv, DequeueTake \/ DequeueAdvance \/ DequeueEmpty
  PROVE  QueueInv'
<1> USE SizeAssumption DEF QueueInv
<1>1. QueueTypeOK'
  BY QueueTypeStep DEF QueueNext
<1>2. CASE DequeueTake
  <2> USE <1>2 DEF DequeueTake, RefreshedTail, QueueTypeOK
  <2>1. TailShadow'
    BY DEF TailShadow, InArc, Index
  <2>2. FrontShadow'
    BY DEF FrontShadow, InArc
  <2>3. ProducerHolds'
    BY DEF ProducerHolds
  <2>4. front # tail
    BY DEF TailShadow, InArc, Index
  <2>5. slots[front] \in Elements
    BY <2>4 DEF SlotsHold, Filled, Index
  <2>6. ConsumerHolds'
    BY <2>4, <2>5 DEF ConsumerHolds
  <2>7. SlotsHold'
    BY <2>4, VacantAssumption DEF SlotsHold, Building, Filled, Index
  <2> QED
    BY <1>1, <2>1, <2>2, <2>3, <2>6, <2>7
<1>3. CASE DequeueAdvance
  <2> USE <1>3 DEF DequeueAdvance, QueueTypeOK
  <2>1. front # tail /\ front # localTail
    BY DEF ConsumerHolds
  <2>2. TailShadow'
    BY <2>1 DEF TailShadow, InArc, Index, Next1
  <2>3. FrontShadow'
    BY <2>1 DEF FrontShadow, InArc, Index, Next1
  <2>4. ProducerHolds'
    BY DEF ProducerHolds
  <2>5. ConsumerHolds'
    BY DEF ConsumerHolds, NotDequeuing
  <2>6. SlotsHold'
    BY <2>1 DEF SlotsHold, Building, Filled, Index, Next1, NotDequeuing
  <2> QED
    BY <1>1, <2>2, <2>3, <2>4, <2>5, <2>6
<1>4. CASE DequeueEmpty
  <2> USE <1>4 DEF DequeueEmpty, RefreshedTail, QueueTypeOK
  <2>1. TailShadow'
    BY DEF TailShadow, InArc, Index
  <2>2. FrontShadow' /\ ProducerHolds'
    BY DEF FrontShadow, InArc, ProducerHolds
  <2>3. ConsumerHolds' /\ SlotsHold'
    BY DEF ConsumerHolds, SlotsHold, Building, Filled
  <2> QED
    BY <1>1, <2>1, <2>2, <2>3
<1> QED
  BY <1>2, <1>3, <1>4

(* The invariant is inductive while calls do not overlap.                  *)
LEMMA QueueInvStep ==
  ASSUME OneInside, OneInside', QueueInv, [QueueNext]_queueVars
  PROVE  QueueInv'
<1>1. CASE UNCHANGED queueVars
  BY <1>1
  DEF queueVars, QueueInv, QueueTypeOK, TailShadow, FrontShadow,
      ProducerHolds, ConsumerHolds, SlotsHold, Building, Filled
<1>2. CASE QueueNext
  BY <1>2, EnqueueStep, DequeueStep DEF QueueNext
<1> QED
  BY <1>1, <1>2

(* The invariant gives what SlotsRespected says.                           *)
LEMMA QueueInvSlots ==
  ASSUME OneInside, QueueInv
  PROVE  SlotsRespected
<1> USE DEF QueueInv
<1>1. NoVacantRead
  BY DEF NoVacantRead, ConsumerHolds
<1>2. ASSUME NEW p \in Producers, enq[p].step = "room"
      PROVE  slots[enq[p].pos] = Vacant
  <2>1. enq[p].pos = tail /\ tail \in Index
    BY <1>2 DEF ProducerHolds, QueueTypeOK
  <2>2. ~Building
    BY <1>2 DEF OneInside, Building
  <2>3. ~Filled(tail)
    BY SizeAssumption DEF Filled, QueueTypeOK, Index
  <2>4. slots[tail] \notin Elements
    BY <2>1, <2>2, <2>3 DEF SlotsHold
  <2> QED
    BY <2>1, <2>4 DEF QueueTypeOK
<1> QED
  BY <1>1, <1>2 DEF SlotsRespected, NoOverwrite

(* The invariant gives what ShadowsAreSafe says: what a shadow promises is *)
(* within what the index behind it promises.                               *)
LEMMA QueueInvShadows == QueueInv => ShadowsAreSafe
<1> SUFFICES ASSUME QueueInv, NEW i \in Index
             PROVE  /\ TakenUnseen(i) => slots[i] \in Elements
                    /\ FilledUnseen(i) =>
                          \/ slots[i] = Vacant
                          \/ \E p \in Producers : enq[p].step = "built" /\ enq[p].pos = i
  BY DEF ShadowsAreSafe
<1> USE SizeAssumption DEF QueueInv, QueueTypeOK, Index
<1>1. TakenUnseen(i) => Filled(i) /\ ~(deq.step = "taken" /\ i = front)
  BY DEF TakenUnseen, MetBefore, Filled, TailShadow, InArc
<1>2. FilledUnseen(i) => ~Filled(i)
  BY DEF FilledUnseen, MetBefore, Filled, FrontShadow, InArc, Next1
<1>3. Building /\ i = tail => \E p \in Producers : enq[p].step = "built" /\ enq[p].pos = i
  BY DEF Building, ProducerHolds
<1> QED
  BY <1>1, <1>2, <1>3 DEF SlotsHold

(* The invariant holds in every state while calls do not overlap.          *)
LEMMA QueueInvariance ==
  QueueSpec /\ []OneInside => []QueueInv
  BY QueueInvInit, QueueInvStep, PTL DEF QueueSpec

(* Each side only touches its own slots (LockFreeQueue.h:317-319 and       *)
(* 560-565): nothing is moved out of a slot that was not constructed and   *)
(* nothing is constructed over a waiting element, for every size of the    *)
(* block, as long as calls of try_enqueue do not overlap.                  *)
THEOREM SlotsAreRespected ==
  QueueSpec /\ []OneInside => []SlotsRespected
  BY QueueInvariance, QueueInvSlots, PTL

(* What either side does on the strength of its shadow of the other's      *)
(* index is right, however old the shadow is (LockFreeQueue.h:312 and      *)
(* 557), for every size of the block.                                      *)
THEOREM ShadowsAlwaysSafe ==
  QueueSpec /\ []OneInside => []ShadowsAreSafe
  BY QueueInvariance, QueueInvShadows, PTL

(* "The consumer knows the tail will never go backwards, only forwards"    *)
(* (LockFreeQueue.h:89-92) is true when calls do not overlap.              *)
THEOREM TailMovesForward ==
  QueueSpec /\ []OneInside => TailOnlyForward
<1>1. ASSUME QueueInv, [QueueNext]_queueVars
      PROVE  [tail' \in {tail, Next1(tail)}]_queueVars
  <2>1. ASSUME NEW p \in Producers, EnqueuePublish(p)
        PROVE  tail' = Next1(tail)
    BY <1>1, <2>1 DEF QueueInv, ProducerHolds, EnqueuePublish
  <2> QED
    BY <1>1, <2>1
    DEF QueueNext, EnqueueRoom, EnqueueFull, EnqueueConstruct, DequeueTake,
        DequeueAdvance, DequeueEmpty
<1> QED
  BY <1>1, QueueInvariance, PTL DEF QueueSpec, TailOnlyForward

-----------------------------------------------------------------------------
(* What the block holds is a sequence of elements, Count of them.          *)
ContentsOK ==
    /\ Count \in Nat
    /\ Contents \in Seq(Elements)
    /\ Len(Contents) = Count

(* The contents of the block are well typed when QueueInv holds.           *)
LEMMA ContentsType ==
  ASSUME QueueInv
  PROVE  ContentsOK
<1> USE SizeAssumption DEF QueueInv, QueueTypeOK, Index
<1>1. Count \in Nat
  BY DEF Count
<1>2. ASSUME NEW k \in 1 .. Count
      PROVE  Contents[k] \in Elements
  <2>1. CASE k = 1 /\ deq.step = "taken"
    BY <1>2, <2>1 DEF Contents, ConsumerHolds
  <2>2. CASE ~(k = 1 /\ deq.step = "taken")
    <3> DEFINE i == Around(front + k - 1)
    <3>1. i \in Index /\ Filled(i) /\ (i = front => k = 1)
      BY <1>1 DEF Around, Count, Filled
    <3>2. slots[i] \in Elements
      BY <2>2, <3>1 DEF SlotsHold
    <3> QED
      BY <1>1, <2>2, <3>2 DEF Contents
  <2> QED
    BY <2>1, <2>2
<1>3. Contents \in [1 .. Count -> Elements]
  BY <1>2 DEF Contents
<1> QED
  BY <1>1, <1>3 DEF ContentsOK

(* Storing tail appends the element in the slot that tail points at.       *)
LEMMA PublishAppends ==
  ASSUME OneInside, OneInside', QueueInv, NEW p \in Producers, EnqueuePublish(p)
  PROVE  slots[tail] \in Elements /\ Fifo!Put(slots[tail])
<1> USE SizeAssumption DEF QueueInv, QueueTypeOK, Index
<1>1. QueueInv'
  BY EnqueueStep
<1>2. tail' = Next1(tail) /\ Next1(tail) # localFront
  BY DEF EnqueuePublish, ProducerHolds
<1>3. Next1(tail) # front
  BY <1>2 DEF FrontShadow, InArc, Next1
<1>4. Count' = Count + 1 /\ Count < Size - 1
  <2>1. front' = front
    BY DEF EnqueuePublish
  <2>2. CASE front <= tail /\ tail + 1 = Size
    BY <1>2, <1>3, <2>1, <2>2 DEF Count, Next1
  <2>3. CASE front <= tail /\ tail + 1 # Size
    BY <1>2, <1>3, <2>1, <2>3 DEF Count, Next1
  <2>4. CASE tail < front
    BY <1>2, <1>3, <2>1, <2>4 DEF Count, Next1
  <2> QED
    BY <2>2, <2>3, <2>4
<1>5. slots[tail] \in Elements
  BY DEF SlotsHold, Building, EnqueuePublish
<1>6. Contents' = Append(Contents, slots[tail])
  <2>1. Contents \in Seq(Elements) /\ Len(Contents) = Count /\ Count \in Nat
    BY ContentsType DEF ContentsOK
  <2>2. ContentsOK'
    BY <1>1, ContentsType, PTL
  <2>3. ASSUME NEW k \in 1 .. Count
        PROVE  Contents'[k] = Contents[k]
    BY <1>4, <2>1 DEF Contents, EnqueuePublish, Around
  <2>4. Contents'[Count + 1] = slots[tail]
    BY <1>4, <2>1 DEF Contents, EnqueuePublish, Around, Count, ConsumerHolds
  <2> QED
    BY <1>4, <1>5, <2>1, <2>2, <2>3, <2>4 DEF ContentsOK
<1> QED
  BY <1>4, <1>5, <1>6, ContentsType DEF Fifo!Put, ContentsOK

(* Storing front drops the oldest element.                                 *)
LEMMA AdvanceDrops ==
  ASSUME QueueInv, DequeueAdvance
  PROVE  Fifo!Get
<1> USE SizeAssumption DEF QueueInv, QueueTypeOK, Index
<1>1. QueueInv'
  BY DequeueStep
<1>2. /\ front # tail /\ front' = Next1(front) /\ tail' = tail
      /\ slots' = slots /\ deq'.step = "none"
  BY DEF DequeueAdvance, ConsumerHolds, NotDequeuing
<1>3. Count' = Count - 1 /\ Count > 0
  <2>1. CASE front + 1 = Size
    BY <1>2, <2>1 DEF Count, Next1
  <2>2. CASE front + 1 # Size
    BY <1>2, <2>2 DEF Count, Next1
  <2> QED
    BY <2>1, <2>2
<1>4. Contents \in Seq(Elements) /\ Len(Contents) = Count /\ Count \in Nat
  BY ContentsType DEF ContentsOK
<1>5. ContentsOK'
  BY <1>1, ContentsType, PTL
<1>6. ASSUME NEW k \in 1 .. (Count - 1)
      PROVE  Contents'[k] = Contents[k + 1]
  <2>1. Around(Next1(front) + k - 1) = Around(front + (k + 1) - 1)
    BY <1>2, <1>3, <1>4 DEF Around, Next1, Count
  <2> QED
    BY <1>2, <1>3, <1>4, <2>1 DEF Contents, Around
<1>7. Contents' = Tail(Contents)
  BY <1>3, <1>4, <1>5, <1>6 DEF ContentsOK
<1> QED
  BY <1>3, <1>4, <1>7 DEF Fifo!Get

(* No other step changes what the block holds.                             *)
LEMMA OthersKeep ==
  ASSUME QueueInv,
         \/ \E p \in Producers :
               \/ \E e \in Elements : EnqueueRoom(p, e)
               \/ EnqueueFull(p)
               \/ EnqueueConstruct(p)
         \/ DequeueTake
         \/ DequeueEmpty
         \/ UNCHANGED queueVars
  PROVE  Contents' = Contents
<1> USE SizeAssumption DEF QueueInv, QueueTypeOK, Index
<1>1. front' = front /\ tail' = tail /\ Count' = Count
  BY DEF EnqueueRoom, EnqueueFull, EnqueueConstruct, DequeueTake, DequeueEmpty,
         queueVars, Count
<1>2. Count \in Nat
  BY ContentsType DEF ContentsOK
<1>3. CASE slots' = slots /\ deq' = deq
  BY <1>1, <1>3 DEF Contents, Around
<1>4. ASSUME NEW p \in Producers, EnqueueConstruct(p)
      PROVE  Contents' = Contents
  <2>1. deq' = deq /\ \A i \in Index : i # tail => slots'[i] = slots[i]
    BY <1>4 DEF EnqueueConstruct, ProducerHolds
  <2>2. \A k \in 1 .. Count : /\ Around(front + k - 1) \in Index
                              /\ Around(front + k - 1) # tail
    BY <1>2 DEF Around, Count
  <2> QED
    BY <1>1, <2>1, <2>2 DEF Contents, Around
<1>5. CASE DequeueTake
  <2>1. /\ deq.step = "none" /\ deq' = [step |-> "taken", elem |-> slots[front]]
        /\ \A i \in Index : i # front => slots'[i] = slots[i]
    BY <1>5 DEF DequeueTake
  <2>2. \A k \in 1 .. Count : /\ Around(front + k - 1) \in Index
                              /\ Around(front + k - 1) = front <=> k = 1
    BY <1>2 DEF Around, Count
  <2> QED
    BY <1>1, <2>1, <2>2 DEF Contents, Around
<1> QED
  BY <1>3, <1>4, <1>5
  DEF EnqueueRoom, EnqueueFull, DequeueEmpty, queueVars

(* The block implements a bounded first-in first-out queue, for every size *)
(* and every set of elements, as long as calls of try_enqueue do not       *)
(* overlap (LockFreeQueue.h:78-96).                                        *)
THEOREM BlockIsFifo ==
  QueueSpec /\ []OneInside => FifoSpec
<1>1. QueueInit => Fifo!Init
  BY SizeAssumption DEF QueueInit, Fifo!Init, Contents, Count
<1>2. ASSUME OneInside, OneInside', QueueInv, [QueueNext]_queueVars
      PROVE  [Fifo!Next]_Contents
  BY <1>2, PublishAppends, AdvanceDrops, OthersKeep
  DEF QueueNext, Fifo!Next
<1> QED
  BY <1>1, <1>2, QueueInvariance, PTL DEF QueueSpec, FifoSpec, Fifo!Spec

-----------------------------------------------------------------------------
(* The event loop.                                                         *)

\* Everything of TypeOK but the queue.
LoopTypeOK ==
    /\ phase \in Phases
    /\ _quit \in BOOLEAN
    /\ _callPendingTasks \in BOOLEAN
    /\ wakeupFd \in Nat
    /\ active \in SUBSET {"wakeup", "io"}
    /\ _pendingTasks \in Seq(Elements)
    /\ functors \in Seq(Elements)
    /\ call \in [Producers -> {"none", "enqueue", "queued"}]
    /\ posted \in [Producers -> 0 .. MaxTasks]
    /\ executed \in Seq(Elements)
    /\ quits \in 0 .. MaxQuits
    /\ refused \subseteq Elements

-----------------------------------------------------------------------------
(* The specifications of a loop: on its own, or owned by an                *)
(* EventLoopThread, whose destructor sets _quit from outside.  What        *)
(* follows is proved for both at once.                                     *)

QuitFlag ==
    /\ _quit' = TRUE
    /\ UNCHANGED <<queueVars, phase, _callPendingTasks, wakeupFd, active,
                   _pendingTasks, functors, call, posted, executed, quits, refused>>

AnyOwnerNext == Next \/ QuitFlag

AnyOwnerSpec == Init /\ [][AnyOwnerNext]_vars

(* A step of the thread, of the owner or of a user is a step of the loop,  *)
(* the quit of the destructor, or leaves the loop alone.                   *)
LEMMA ThreadLoopStep ==
  ASSUME [ThreadNext]_allVars
  PROVE  [AnyOwnerNext]_vars
<1>1. CASE RunLoop
  BY <1>1, LoopAssumption DEF RunLoop, AnyOwnerNext, Next, Call
<1>2. CASE \E p \in Threads : UseLoop(p)
  BY <1>2 DEF UseLoop, Threads, AnyOwnerNext, Next
<1>3. CASE DestructorQuit
  BY <1>3 DEF DestructorQuit, AnyOwnerNext, QuitFlag, vars, loopVars
<1>4. CASE \/ ThreadStep \/ StartLoop \/ StartLoopReturns \/ DestructorJoin
           \/ DestructorTest \/ UNCHANGED allVars
  BY <1>4
  DEF ThreadStep, ConstructLoop, PublishLoop, ClearLoop, ExitThread, StartLoop,
      StartLoopReturns, DestructorJoin, DestructorTest, allVars
<1> QED
  BY <1>1, <1>2, <1>3, <1>4 DEF ThreadNext, OwnerStep

(* Both specifications are covered.                                        *)
LEMMA LoopSpecs == (Spec => AnyOwnerSpec) /\ (ThreadSpec => AnyOwnerSpec)
<1>1. Spec => AnyOwnerSpec
  <2>1. [Next]_vars => [AnyOwnerNext]_vars
    BY DEF AnyOwnerNext
  <2> QED
    BY <2>1, PTL DEF Spec, AnyOwnerSpec
<1>2. ThreadSpec => AnyOwnerSpec
  <2>1. ThreadInit => Init
    BY DEF ThreadInit
  <2> QED
    BY <2>1, ThreadLoopStep, PTL DEF ThreadSpec, AnyOwnerSpec
<1> QED
  BY <1>1, <1>2

-----------------------------------------------------------------------------
(* The task a thread queues next is one of the elements.                   *)
LEMMA NewTaskType ==
  ASSUME TypeOK, NEW p \in Producers, posted[p] < MaxTasks
  PROVE  NewTask(p) \in Elements
  BY LoopAssumption DEF TypeOK, NewTask

(* A step of the loop or of a caller is a step of the queue or leaves it   *)
(* alone.                                                                  *)
LEMMA LoopQueueStep ==
  ASSUME TypeOK, [AnyOwnerNext]_vars
  PROVE  [QueueNext]_queueVars
<1>1. ASSUME NEW p \in Producers, QueueTryEnqueue(p)
      PROVE  [QueueNext]_queueVars
  <2>1. NewTask(p) \in Elements
    BY <1>1, NewTaskType DEF QueueTryEnqueue
  <2> QED
    BY <1>1, <2>1 DEF QueueTryEnqueue, QueueNext
<1>2. ASSUME NEW p \in Producers,
             QueuePushBack(p) \/ Quit(p) \/ CallStep(p)
      PROVE  [QueueNext]_queueVars
  BY <1>2
  DEF QueuePushBack, Quit, CallStep, QueueConstruct, QueuePublish, QueueWakeup,
      QueueNext
<1>3. CASE LoopStep
  BY <1>3
  DEF LoopStep, EnterLoop, WhileTest, PollWakeup, PollReturns, HandleWakeUp,
      HandleIO, HandleIODone, PendingSwap, PendingBegin, RunSwapped,
      DequeueFunctor, RunDequeued, TaskDone, PendingDone, QueueNext
<1>4. CASE PollIO \/ PollTimeout
  BY <1>4 DEF PollIO, PollTimeout, PollReturns
<1>5. CASE QuitFlag \/ UNCHANGED vars
  BY <1>5 DEF QuitFlag, vars
<1> QED
  BY <1>1, <1>2, <1>3, <1>4, <1>5 DEF AnyOwnerNext, Next, Call

(* Calls from user code keep the types.                                    *)
LEMMA CallTypeStep ==
  ASSUME TypeOK, NEW p \in Producers, Call(p) \/ CallStep(p)
  PROVE  LoopTypeOK'
<1> USE DEF TypeOK, LoopTypeOK
<1>1. CASE QueuePushBack(p)
  <2>1. NewTask(p) \in Elements
    BY <1>1, NewTaskType DEF QueuePushBack
  <2> QED
    BY <1>1, <2>1, LoopAssumption DEF QueuePushBack
<1>2. CASE QueueTryEnqueue(p)
  <2>1. NewTask(p) \in Elements
    BY <1>2, NewTaskType DEF QueueTryEnqueue
  <2>2. /\ call' \in [Producers -> {"none", "enqueue", "queued"}]
        /\ refused' \subseteq Elements
    BY <1>2, <2>1 DEF QueueTryEnqueue
  <2>3. posted' \in [Producers -> 0 .. MaxTasks]
    BY <1>2, LoopAssumption DEF QueueTryEnqueue
  <2> QED
    BY <1>2, <2>2, <2>3 DEF QueueTryEnqueue
<1>3. CASE Quit(p)
  BY <1>3, LoopAssumption DEF Quit
<1>4. CASE QueueConstruct(p)
  BY <1>4 DEF QueueConstruct, loopVars
<1>5. CASE QueuePublish(p)
  BY <1>5 DEF QueuePublish
<1>6. CASE QueueWakeup(p)
  BY <1>6 DEF QueueWakeup
<1> QED
  BY <1>1, <1>2, <1>3, <1>4, <1>5, <1>6 DEF Call, CallStep

(* The steps of the loop's thread keep the types.                          *)
LEMMA LoopTypeStep ==
  ASSUME TypeOK, LoopStep \/ PollIO \/ PollTimeout
  PROVE  LoopTypeOK'
<1> USE DEF TypeOK, LoopTypeOK, Phases
<1>1. CASE EnterLoop \/ WhileTest
  BY <1>1 DEF EnterLoop, WhileTest
<1>2. CASE PollWakeup \/ PollIO \/ PollTimeout
  <2>1. PICK S \in SUBSET {"wakeup", "io"} : PollReturns(S)
    BY <1>2, Zenon DEF PollWakeup, PollIO, PollTimeout
  <2> QED
    BY <2>1 DEF PollReturns
<1>3. CASE HandleWakeUp \/ HandleIO \/ HandleIODone
  <2>1. active' \in SUBSET {"wakeup", "io"}
    BY <1>3 DEF HandleWakeUp, HandleIO, HandleIODone
  <2> QED
    BY <1>3, <2>1 DEF HandleWakeUp, HandleIO, HandleIODone
<1>4. CASE PendingSwap \/ PendingBegin
  <2>1. CASE PendingSwap
    <3>1. _pendingTasks' \in Seq(Elements) /\ functors' \in Seq(Elements)
      BY <2>1 DEF PendingSwap
    <3> QED
      BY <2>1, <3>1 DEF PendingSwap
  <2>2. CASE PendingBegin
    BY <2>2 DEF PendingBegin
  <2> QED
    BY <1>4, <2>1, <2>2
<1>5. CASE RunSwapped
  BY <1>5 DEF RunSwapped
<1>6. CASE DequeueFunctor
  BY <1>6 DEF DequeueFunctor, loopVars
<1>7. CASE RunDequeued
  <2>1. phase' \in Phases
    BY <1>7 DEF RunDequeued
  <2>2. executed' \in Seq(Elements)
    <3>1. CASE deq.elem \in Elements
      <4>1. executed' = Append(executed, deq.elem)
        BY <1>7, <3>1 DEF RunDequeued
      <4> QED
        BY <3>1, <4>1, AppendProperties
    <3>2. CASE deq.elem \notin Elements
      BY <1>7, <3>2 DEF RunDequeued
    <3> QED
      BY <3>1, <3>2
  <2> QED
    BY <1>7, <2>1, <2>2 DEF RunDequeued
<1>8. CASE TaskDone \/ PendingDone
  BY <1>8 DEF TaskDone, PendingDone
<1> QED
  BY <1>1, <1>2, <1>3, <1>4, <1>5, <1>6, <1>7, <1>8 DEF LoopStep

(* Every step keeps the types.                                             *)
LEMMA TypeStep ==
  ASSUME TypeOK, [AnyOwnerNext]_vars
  PROVE  TypeOK'
<1>1. QueueTypeOK'
  BY LoopQueueStep, QueueTypeStep DEF TypeOK
<1>2. LoopTypeOK'
  <2>1. CASE UNCHANGED vars
    BY <2>1 DEF vars, loopVars, TypeOK, LoopTypeOK
  <2>2. CASE QuitFlag
    BY <2>2 DEF QuitFlag, TypeOK, LoopTypeOK
  <2> QED
    BY <2>1, <2>2, CallTypeStep, LoopTypeStep DEF AnyOwnerNext, Next
<1> QED
  BY <1>1, <1>2 DEF TypeOK, LoopTypeOK

(* The state the constructor leaves is well typed.                         *)
LEMMA TypeInit == Init => TypeOK
<1> SUFFICES ASSUME Init PROVE TypeOK
  OBVIOUS
<1>1. QueueTypeOK
  BY QueueTypeInit DEF Init
<1>2. /\ call \in [Producers -> {"none", "enqueue", "queued"}]
      /\ posted \in [Producers -> 0 .. MaxTasks]
      /\ quits \in 0 .. MaxQuits
  BY LoopAssumption DEF Init
<1>3. /\ wakeupFd \in Nat /\ _pendingTasks \in Seq(Elements)
      /\ functors \in Seq(Elements) /\ executed \in Seq(Elements)
  BY DEF Init
<1> QED
  BY <1>1, <1>2, <1>3 DEF Init, TypeOK, Phases

(* The types hold in every reachable state.                                *)
LEMMA TypeCorrect == AnyOwnerSpec => []TypeOK
  BY TypeInit, TypeStep, PTL DEF AnyOwnerSpec

(* Type correctness of the event loop with its queue, whoever owns it.     *)
THEOREM LoopTypeCorrect == (Spec => []TypeOK) /\ (ThreadSpec => []TypeOK)
  BY TypeCorrect, LoopSpecs, PTL

(* The event loop uses the block as ReaderWriterQueue says: what is proved *)
(* of the queue holds inside the loop.                                     *)
LEMMA UsesQueue == AnyOwnerSpec => QueueSpec
<1>1. Init => QueueInit
  BY DEF Init
<1> QED
  BY <1>1, LoopQueueStep, TypeCorrect, PTL DEF AnyOwnerSpec, QueueSpec

-----------------------------------------------------------------------------
(* One thread posts to the loop: the use that the lock-free build allows.  *)
OnePoster == \A p, q \in Posters : p = q

\* Only a thread that posts is ever inside try_enqueue.
OnlyPostersInside ==
    \A p \in Producers : enq[p].step # "none" => p \in Posters

(* Only EnqueueRoom enters try_enqueue, and queueInLoop is called by       *)
(* posters only.                                                           *)
LEMMA OnlyPostersStep ==
  ASSUME TypeOK, OnlyPostersInside, [AnyOwnerNext]_vars
  PROVE  OnlyPostersInside'
<1> USE DEF OnlyPostersInside, TypeOK, QueueTypeOK
<1>1. CASE UNCHANGED enq
  BY <1>1
<1>2. ASSUME NEW p \in Producers, QueueTryEnqueue(p)
      PROVE  OnlyPostersInside'
  BY <1>2 DEF QueueTryEnqueue, EnqueueRoom, EnqueueFull
<1>3. ASSUME NEW p \in Producers, EnqueueConstruct(p)
      PROVE  OnlyPostersInside'
  BY <1>3 DEF EnqueueConstruct
<1>4. ASSUME NEW p \in Producers, EnqueuePublish(p)
      PROVE  OnlyPostersInside'
  BY <1>4 DEF EnqueuePublish, NotEnqueuing
<1>5. \/ UNCHANGED enq
      \/ \E p \in Producers :
            QueueTryEnqueue(p) \/ EnqueueConstruct(p) \/ EnqueuePublish(p)
  BY DEF AnyOwnerNext, QuitFlag, Next, Call, CallStep, QueuePushBack, Quit, QueueConstruct,
         QueuePublish, QueueWakeup, LoopStep, EnterLoop, WhileTest, PollWakeup,
         PollIO, PollTimeout, PollReturns, HandleWakeUp, HandleIO,
         HandleIODone, PendingSwap, PendingBegin, RunSwapped, DequeueFunctor,
         RunDequeued, TaskDone, PendingDone, DequeueTake, DequeueAdvance,
         DequeueEmpty, queueVars, vars
<1> QED
  BY <1>1, <1>2, <1>3, <1>4, <1>5

(* With one poster, calls of try_enqueue do not overlap.                   *)
LEMMA CallsDoNotOverlap ==
  ASSUME OnePoster
  PROVE  AnyOwnerSpec => []OneInside
<1>1. Init => OnlyPostersInside
  BY DEF Init, QueueInit, NotEnqueuing, OnlyPostersInside
<1>2. OnlyPostersInside => OneInside
  BY DEF OnlyPostersInside, OneInside, OnePoster
<1> QED
  BY <1>1, <1>2, OnlyPostersStep, TypeCorrect, PTL DEF AnyOwnerSpec

(* With one poster, the lock-free _pendingTasks of the loop is a bounded   *)
(* first-in first-out queue, whatever else the poster and the loop do      *)
(* (EventLoop.cpp:172-206 and 265-284).                                    *)
THEOREM PendingTasksIsFifo ==
  ASSUME OnePoster
  PROVE  (Spec => FifoSpec) /\ (ThreadSpec => FifoSpec)
  BY CallsDoNotOverlap, UsesQueue, BlockIsFifo, LoopSpecs, PTL

(* With one poster, neither side of the lock-free _pendingTasks touches a  *)
(* slot of the other.                                                      *)
THEOREM PendingTasksSlotsRespected ==
  ASSUME OnePoster
  PROVE  (Spec => []SlotsRespected) /\ (ThreadSpec => []SlotsRespected)
  BY CallsDoNotOverlap, UsesQueue, SlotsAreRespected, LoopSpecs, PTL

-----------------------------------------------------------------------------
(* The invariant behind NoLostWakeup.                                      *)

\* The flag is up exactly during doPendingTask.
FlagOK == _callPendingTasks <=> phase \in {"pending", "task"}

\* The loop's own thread queues tasks only inside handlers and tasks.
OwnCallOK == call[LoopThread] # "none" => phase \in {"io", "task"}

\* A thread inside try_enqueue is inside queueInLoop, before its wakeup test.
CallsInside ==
    \A p \in Producers : enq[p].step # "none" => call[p] = "enqueue"

\* The part of the loop in which a task that is pending will not be seen by
\* the doPendingTask under way or ahead: from its end to the next poll, and
\* in the mutex build already after the swap.
WontLook ==
    \/ phase \in {"created", "while", "poll"}
    \/ ~LockFree /\ phase \in {"pending", "task"}

\* In that part a pending task has a wakeup written or about to be written.
WakeupComes ==
    WontLook /\ HasPending =>
        wakeupFd > 0 \/ \E p \in Producers : call[p] = "queued"

WakeupInv == TypeOK /\ CallsInside /\ FlagOK /\ OwnCallOK /\ WakeupComes

(* Nothing is pending in the state the constructor leaves.                 *)
LEMMA WakeupInit == Init => WakeupInv
  BY TypeInit, LoopAssumption
  DEF Init, QueueInit, NotEnqueuing, WakeupInv, CallsInside, FlagOK, OwnCallOK, WakeupComes, HasPending

(* A call enters try_enqueue and leaves it together with queueInLoop.      *)
LEMMA CallsInsideStep ==
  ASSUME TypeOK, CallsInside, [AnyOwnerNext]_vars
  PROVE  CallsInside'
<1> USE DEF CallsInside, TypeOK, QueueTypeOK
<1>1. CASE UNCHANGED <<enq, call>>
  BY <1>1
<1>2. ASSUME NEW p \in Producers, QueueTryEnqueue(p)
      PROVE  CallsInside'
  BY <1>2 DEF QueueTryEnqueue, EnqueueRoom, EnqueueFull
<1>3. ASSUME NEW p \in Producers, QueuePushBack(p) \/ QueueWakeup(p)
      PROVE  CallsInside'
  BY <1>3 DEF QueuePushBack, QueueWakeup, UserCode, queueVars
<1>4. ASSUME NEW p \in Producers, QueueConstruct(p)
      PROVE  CallsInside'
  BY <1>4 DEF QueueConstruct, EnqueueConstruct, loopVars
<1>5. ASSUME NEW p \in Producers, QueuePublish(p)
      PROVE  CallsInside'
  BY <1>5 DEF QueuePublish, EnqueuePublish, NotEnqueuing
<1>6. \/ UNCHANGED <<enq, call>>
      \/ \E p \in Producers :
            \/ QueueTryEnqueue(p) \/ QueuePushBack(p) \/ QueueWakeup(p)
            \/ QueueConstruct(p) \/ QueuePublish(p)
  BY DEF AnyOwnerNext, QuitFlag, Next, Call, CallStep, Quit, LoopStep, EnterLoop, WhileTest,
         PollWakeup, PollIO, PollTimeout, PollReturns, HandleWakeUp, HandleIO,
         HandleIODone, PendingSwap, PendingBegin, RunSwapped, DequeueFunctor,
         RunDequeued, TaskDone, PendingDone, DequeueTake, DequeueAdvance,
         DequeueEmpty, queueVars, loopVars, vars
<1> QED
  BY <1>1, <1>2, <1>3, <1>4, <1>5, <1>6

(* The calls of user code keep the invariant: a task that is pushed or     *)
(* published leaves its thread with the wakeup test ahead of it, and the   *)
(* test itself writes the eventfd wherever the loop will not look.         *)
LEMMA WakeupCallStep ==
  ASSUME WakeupInv, NEW p \in Producers, Call(p) \/ CallStep(p)
  PROVE  FlagOK' /\ OwnCallOK' /\ WakeupComes'
<1> USE LoopAssumption DEF WakeupInv, TypeOK
<1>1. phase' = phase /\ _callPendingTasks' = _callPendingTasks
  BY DEF Call, CallStep, QueuePushBack, QueueTryEnqueue, Quit, QueueConstruct,
         QueuePublish, QueueWakeup, loopVars
<1>2. FlagOK'
  BY <1>1 DEF FlagOK
<1>3. OwnCallOK'
  <2>1. CASE QueuePushBack(p) \/ QueueTryEnqueue(p)
    <3>1. p = LoopThread => phase \in {"io", "task"}
      BY <2>1 DEF QueuePushBack, QueueTryEnqueue, UserCode
    <3>2. p # LoopThread => call'[LoopThread] = call[LoopThread]
      BY <2>1 DEF QueuePushBack, QueueTryEnqueue
    <3> QED
      BY <1>1, <3>1, <3>2 DEF OwnCallOK
  <2>2. CASE Quit(p) \/ QueueConstruct(p)
    BY <1>1, <2>2 DEF OwnCallOK, Quit, QueueConstruct, loopVars
  <2>3. CASE QueueWakeup(p)
    BY <1>1, <2>3 DEF OwnCallOK, QueueWakeup
  <2>4. CASE QueuePublish(p)
    <3>1. p = LoopThread => call[p] # "none"
      BY <2>4 DEF QueuePublish, EnqueuePublish, CallsInside
    <3> QED
      BY <1>1, <2>4, <3>1 DEF OwnCallOK, QueuePublish
  <2> QED
    BY <2>1, <2>2, <2>3, <2>4 DEF Call, CallStep
<1>4. WontLook' <=> WontLook
  BY <1>1 DEF WontLook
<1>5. CASE QueuePushBack(p)
  BY <1>2, <1>3, <1>5 DEF WakeupComes, QueuePushBack
<1>6. CASE QueueTryEnqueue(p)
  BY <1>2, <1>3, <1>4, <1>6
  DEF WakeupComes, QueueTryEnqueue, EnqueueRoom, EnqueueFull, HasPending, UserCode
<1>7. CASE Quit(p)
  BY <1>2, <1>3, <1>4, <1>7 DEF WakeupComes, Quit, HasPending, queueVars
<1>8. CASE QueueConstruct(p)
  BY <1>2, <1>3, <1>4, <1>8
  DEF WakeupComes, QueueConstruct, EnqueueConstruct, HasPending, loopVars
<1>9. CASE QueuePublish(p)
  BY <1>2, <1>3, <1>9 DEF WakeupComes, QueuePublish
<1>10. CASE QueueWakeup(p)
  <2>1. CASE NeedsWakeup(p)
    BY <1>2, <1>3, <1>10, <2>1 DEF WakeupComes, QueueWakeup
  <2>2. CASE ~NeedsWakeup(p)
    <3>1. ~WontLook
      BY <1>10, <2>2 DEF NeedsWakeup, FlagOK, OwnCallOK, WontLook, QueueWakeup
    <3> QED
      BY <1>2, <1>3, <1>4, <3>1 DEF WakeupComes
  <2> QED
    BY <2>1, <2>2
<1> QED
  BY <1>2, <1>3, <1>5, <1>6, <1>7, <1>8, <1>9, <1>10 DEF Call, CallStep

(* The steps of the loop keep the invariant: doPendingTask ends with       *)
(* nothing pending (lock-free) or has swapped everything out (mutex), and  *)
(* the eventfd is read only on the way to it.                              *)
LEMMA WakeupLoopStep ==
  ASSUME WakeupInv, LoopStep \/ PollIO \/ PollTimeout
  PROVE  FlagOK' /\ OwnCallOK' /\ WakeupComes'
<1> USE LoopAssumption DEF WakeupInv, TypeOK
<1>1. call' = call
  BY DEF LoopStep, EnterLoop, WhileTest, PollWakeup, PollIO, PollTimeout,
         PollReturns, HandleWakeUp, HandleIO, HandleIODone, PendingSwap,
         PendingBegin, RunSwapped, DequeueFunctor, RunDequeued, TaskDone,
         PendingDone, loopVars
<1>2. CASE EnterLoop \/ WhileTest
  BY <1>2
  DEF EnterLoop, WhileTest, FlagOK, OwnCallOK, WakeupComes, WontLook,
      HasPending, queueVars
<1>3. CASE PollWakeup \/ PollIO \/ PollTimeout
  BY <1>3
  DEF PollWakeup, PollIO, PollTimeout, PollReturns, FlagOK, OwnCallOK,
      WakeupComes, WontLook
<1>4. CASE HandleWakeUp \/ HandleIO \/ HandleIODone
  BY <1>4
  DEF HandleWakeUp, HandleIO, HandleIODone, FlagOK, OwnCallOK, WakeupComes,
      WontLook
<1>5. CASE PendingSwap \/ PendingBegin
  BY <1>5
  DEF PendingSwap, PendingBegin, FlagOK, OwnCallOK, WakeupComes, WontLook,
      HasPending
<1>6. CASE RunSwapped
  BY <1>6
  DEF RunSwapped, FlagOK, OwnCallOK, WakeupComes, WontLook, HasPending, queueVars
<1>7. CASE DequeueFunctor
  BY <1>7
  DEF DequeueFunctor, FlagOK, OwnCallOK, WakeupComes, WontLook, loopVars
<1>8. CASE RunDequeued
  BY <1>8
  DEF RunDequeued, FlagOK, OwnCallOK, WakeupComes, WontLook, HasPending
<1>9. CASE TaskDone
  BY <1>9
  DEF TaskDone, FlagOK, OwnCallOK, WakeupComes, WontLook, HasPending, queueVars
<1>10. CASE PendingDone
  <2>1. FlagOK' /\ OwnCallOK'
    BY <1>10 DEF PendingDone, FlagOK, OwnCallOK
  <2>2. CASE LockFree
    <3>1. ~HasPending'
      BY <1>10, <2>2
      DEF PendingDone, DequeueEmpty, RefreshedTail, HasPending
    <3> QED
      BY <2>1, <3>1 DEF WakeupComes
  <2>3. CASE ~LockFree
    BY <1>10, <2>1, <2>3
    DEF PendingDone, WakeupComes, WontLook, HasPending
  <2> QED
    BY <2>2, <2>3
<1> QED
  BY <1>2, <1>3, <1>4, <1>5, <1>6, <1>7, <1>8, <1>9, <1>10 DEF LoopStep

(* The invariant is inductive.                                             *)
LEMMA WakeupStep ==
  ASSUME WakeupInv, [AnyOwnerNext]_vars
  PROVE  WakeupInv'
<1>1. TypeOK' /\ CallsInside'
  BY TypeStep, CallsInsideStep DEF WakeupInv
<1>2. CASE UNCHANGED vars
  BY <1>1, <1>2
  DEF vars, loopVars, queueVars, WakeupInv, FlagOK, OwnCallOK, WakeupComes,
      WontLook, HasPending
<1>3. CASE QuitFlag
  BY <1>1, <1>3
  DEF QuitFlag, queueVars, WakeupInv, FlagOK, OwnCallOK, WakeupComes, WontLook, HasPending
<1>4. CASE Next
  BY <1>1, <1>4, WakeupCallStep, WakeupLoopStep DEF Next, WakeupInv
<1> QED
  BY <1>2, <1>3, <1>4 DEF AnyOwnerNext

(* No wakeup is lost (EventLoop.cpp:188-190), in both builds, for any      *)
(* number of threads that post at once and any number of tasks: a loop     *)
(* that waits in the poller while a task is pending is woken up.           *)
THEOREM NoWakeupLost == (Spec => []NoLostWakeup) /\ (ThreadSpec => []NoLostWakeup)
<1>1. WakeupInv => NoLostWakeup
  BY LoopAssumption
  DEF WakeupInv, TypeOK, OwnCallOK, WakeupComes, WontLook, NoLostWakeup, Threads
<1> QED
  BY <1>1, WakeupInit, WakeupStep, LoopSpecs, PTL DEF AnyOwnerSpec

-----------------------------------------------------------------------------
(* The invariant behind RunInOrder.                                        *)

\* The tasks of each thread are in s in the order of their numbers.
Ordered(s) == \A i, j \in DOMAIN s : i < j /\ s[i][1] = s[j][1] => s[i][2] < s[j][2]

\* What is in s was queued before what is in t.
Precedes(s, t) ==
    \A i \in DOMAIN s, j \in DOMAIN t : s[i][1] = t[j][1] => s[i][2] < t[j][2]

\* What is in s was queued.
Queued(s) == \A i \in DOMAIN s : s[i][2] <= posted[s[i][1]]

In(e, s) == \E i \in DOMAIN s : s[i] = e

\* The mutex build: what was run, the local vector and the pending one are
\* one line of tasks, and the local vector is empty outside doPendingTask.
LineInv ==
    /\ deq.step = "none"
    /\ functors # <<>> => phase \in {"pending", "task"}
    /\ Ordered(executed) /\ Ordered(functors) /\ Ordered(_pendingTasks)
    /\ Precedes(executed, functors) /\ Precedes(executed, _pendingTasks)
    /\ Precedes(functors, _pendingTasks)
    /\ Queued(executed) /\ Queued(functors) /\ Queued(_pendingTasks)
    /\ \A e \in Tasks : In(e, executed) \/ In(e, functors) \/ In(e, _pendingTasks)

(* A task that joins the end of a line is its newest one.                  *)
LEMMA JoinsLine ==
  ASSUME NEW s \in Seq(Elements), NEW x \in Elements, Ordered(s),
         \A i \in DOMAIN s : s[i][1] = x[1] => s[i][2] < x[2]
  PROVE  Ordered(Append(s, x))
<1>1. \A i \in DOMAIN Append(s, x) : \/ i \in DOMAIN s /\ Append(s, x)[i] = s[i]
                                     \/ i = Len(s) + 1 /\ Append(s, x)[i] = x
  OBVIOUS
<1>2. \A i \in DOMAIN s : i \in Nat /\ i <= Len(s)
  OBVIOUS
<1>3. ASSUME NEW i \in DOMAIN Append(s, x), NEW j \in DOMAIN Append(s, x), i < j,
             Append(s, x)[i][1] = Append(s, x)[j][1]
      PROVE  Append(s, x)[i][2] < Append(s, x)[j][2]
  <2>1. i \in DOMAIN s /\ Append(s, x)[i] = s[i]
    <3>1. Len(s) \in Nat
      OBVIOUS
    <3> QED
      BY <1>1, <1>2, <1>3, <3>1
  <2> QED
    BY <1>1, <1>3, <2>1 DEF Ordered
<1> QED
  BY <1>3 DEF Ordered

(* The members of a sequence with one more element.                        *)
LEMMA AppendMembers ==
  ASSUME NEW s \in Seq(Elements), NEW x \in Elements
  PROVE  /\ \A i \in DOMAIN Append(s, x) :
               (i \in DOMAIN s /\ Append(s, x)[i] = s[i]) \/ Append(s, x)[i] = x
         /\ \A e : In(e, s) => In(e, Append(s, x))
         /\ In(x, Append(s, x))
<1>1. \A i \in DOMAIN s : i \in DOMAIN Append(s, x) /\ Append(s, x)[i] = s[i]
  OBVIOUS
<1>2. Len(s) + 1 \in DOMAIN Append(s, x) /\ Append(s, x)[Len(s) + 1] = x
  OBVIOUS
<1>3. \A i \in DOMAIN Append(s, x) :
         (i \in DOMAIN s /\ Append(s, x)[i] = s[i]) \/ Append(s, x)[i] = x
  OBVIOUS
<1> QED
  BY <1>1, <1>2, <1>3 DEF In

(* The members of a sequence without its first element.                    *)
LEMMA TailMembers ==
  ASSUME NEW s \in Seq(Elements), s # <<>>
  PROVE  /\ 1 \in DOMAIN s /\ Head(s) = s[1]
         /\ Tail(s) \in Seq(Elements)
         /\ \A i \in DOMAIN Tail(s) :
               i \in Nat /\ i >= 1 /\ i + 1 \in DOMAIN s /\ Tail(s)[i] = s[i + 1]
         /\ \A e : In(e, s) => e = Head(s) \/ In(e, Tail(s))
<1>1. /\ 1 \in DOMAIN s /\ Head(s) = s[1] /\ Tail(s) \in Seq(Elements)
      /\ \A i \in DOMAIN Tail(s) :
            i \in Nat /\ i >= 1 /\ i + 1 \in DOMAIN s /\ Tail(s)[i] = s[i + 1]
  OBVIOUS
<1>2. ASSUME NEW i \in DOMAIN s, i # 1
      PROVE  i - 1 \in DOMAIN Tail(s) /\ Tail(s)[i - 1] = s[i]
  BY <1>2
<1> QED
  BY <1>1, <1>2 DEF In

(* The first task of a line moves to the end of what was run.              *)
LEMMA MovesOver ==
  ASSUME NEW s \in Seq(Elements), NEW t \in Seq(Elements), t # <<>>,
         Ordered(s), Ordered(t), Precedes(s, t)
  PROVE  /\ Ordered(Append(s, Head(t))) /\ Ordered(Tail(t))
         /\ Precedes(Append(s, Head(t)), Tail(t))
<1>1. /\ 1 \in DOMAIN t /\ Head(t) = t[1] /\ t[1] \in Elements
      /\ \A i \in DOMAIN Tail(t) :
            i \in Nat /\ i >= 1 /\ i + 1 \in DOMAIN t /\ Tail(t)[i] = t[i + 1]
  BY TailMembers
<1>2. Ordered(Append(s, Head(t)))
  BY <1>1, JoinsLine DEF Precedes
<1>3. Ordered(Tail(t))
  <2>1. ASSUME NEW i \in DOMAIN Tail(t), NEW j \in DOMAIN Tail(t), i < j,
               Tail(t)[i][1] = Tail(t)[j][1]
        PROVE  Tail(t)[i][2] < Tail(t)[j][2]
    <3>1. i + 1 < j + 1
      BY <1>1, <2>1
    <3> QED
      BY <1>1, <2>1, <3>1 DEF Ordered
  <2> QED
    BY <2>1 DEF Ordered
<1>4. ASSUME NEW i \in DOMAIN Append(s, Head(t)), NEW j \in DOMAIN Tail(t),
             Append(s, Head(t))[i][1] = Tail(t)[j][1]
      PROVE  Append(s, Head(t))[i][2] < Tail(t)[j][2]
  <2>1. j + 1 \in DOMAIN t /\ Tail(t)[j] = t[j + 1] /\ 1 < j + 1
    BY <1>1
  <2>2. CASE i \in DOMAIN s /\ Append(s, Head(t))[i] = s[i]
    BY <1>4, <2>1, <2>2 DEF Precedes
  <2>3. CASE Append(s, Head(t))[i] = t[1]
    BY <1>1, <1>4, <2>1, <2>3 DEF Ordered
  <2> QED
    BY <1>1, <2>2, <2>3, AppendMembers
<1> QED
  BY <1>2, <1>3, <1>4 DEF Precedes

(* A new task of p comes after everything that was queued.                 *)
LEMMA NewTaskIsNewest ==
  ASSUME TypeOK, NEW p \in Producers, posted[p] < MaxTasks,
         posted' = [posted EXCEPT ![p] = @ + 1], NEW s \in Seq(Elements), Queued(s)
  PROVE  /\ \A i \in DOMAIN s : s[i][1] = NewTask(p)[1] => s[i][2] < NewTask(p)[2]
         /\ \A i \in DOMAIN s : s[i][2] <= posted'[s[i][1]]
         /\ NewTask(p)[2] <= posted'[NewTask(p)[1]]
         /\ \A e \in Tasks' : e \in Tasks \/ e = NewTask(p)
<1>1. \A e \in Elements : e[1] \in Producers /\ e[2] \in Nat /\ e = <<e[1], e[2]>>
  BY LoopAssumption
<1>2. \A q \in Producers : posted[q] \in Nat /\ posted'[q] = IF q = p THEN posted[p] + 1 ELSE posted[q]
  BY LoopAssumption DEF TypeOK
<1>3. NewTask(p)[1] = p /\ NewTask(p)[2] = posted[p] + 1
  BY DEF NewTask
<1>4. \A i \in DOMAIN s : s[i] \in Elements
  BY ElementOfSeq
<1>5. \A i \in DOMAIN s : s[i][1] = p => s[i][2] < posted[p] + 1
  BY <1>1, <1>2, <1>4 DEF Queued
<1>6. \A i \in DOMAIN s : s[i][2] <= posted'[s[i][1]]
  BY <1>1, <1>2, <1>4 DEF Queued
<1>7. ASSUME NEW e \in Tasks', e \notin Tasks
      PROVE  e = NewTask(p)
  <2>1. e \in Elements /\ e[2] <= posted'[e[1]] /\ ~(e[2] <= posted[e[1]])
    BY <1>7 DEF Tasks
  <2>2. e[1] = p /\ e[2] = posted[p] + 1
    BY <1>1, <1>2, <2>1
  <2> QED
    BY <1>1, <2>1, <2>2 DEF NewTask
<1>8. NewTask(p)[2] <= posted'[p]
  BY <1>2, <1>3
<1> QED
  BY <1>3, <1>5, <1>6, <1>7, <1>8

(* queueInLoop of the mutex build: the task joins the line.                *)
LEMMA PushBackStep ==
  ASSUME TypeOK, LineInv, NEW p \in Producers, QueuePushBack(p)
  PROVE  LineInv'
<1> DEFINE x == NewTask(p)
<1>1. /\ _pendingTasks' = Append(_pendingTasks, x)
      /\ posted[p] < MaxTasks /\ posted' = [posted EXCEPT ![p] = @ + 1]
      /\ UNCHANGED <<deq, phase, functors, executed>>
  BY DEF QueuePushBack, queueVars
<1>2. x \in Elements
  BY <1>1, NewTaskType
<1>3. executed \in Seq(Elements) /\ functors \in Seq(Elements) /\ _pendingTasks \in Seq(Elements)
  BY DEF TypeOK
<1> HIDE DEF x
<1>4. ASSUME NEW s \in Seq(Elements), Queued(s)
      PROVE  /\ \A i \in DOMAIN s : s[i][1] = x[1] => s[i][2] < x[2]
             /\ \A i \in DOMAIN s : s[i][2] <= posted'[s[i][1]]
             /\ x[2] <= posted'[x[1]]
             /\ \A e \in Tasks' : e \in Tasks \/ e = x
  BY <1>1, <1>4, NewTaskIsNewest DEF x
<1>5. Ordered(_pendingTasks')
  BY <1>1, <1>2, <1>3, <1>4, JoinsLine DEF LineInv
<1>6. ASSUME NEW s \in Seq(Elements), Queued(s), Precedes(s, _pendingTasks)
      PROVE  Precedes(s, Append(_pendingTasks, x))
  BY <1>2, <1>3, <1>4, <1>6, AppendMembers DEF Precedes
<1>7. \A i \in DOMAIN _pendingTasks' : _pendingTasks'[i][2] <= posted'[_pendingTasks'[i][1]]
  <2>1. Queued(_pendingTasks)
    BY DEF LineInv
  <2> QED
    BY <1>1, <1>2, <1>3, <1>4, <2>1, AppendMembers
<1>8. /\ \A i \in DOMAIN executed : executed[i][2] <= posted'[executed[i][1]]
      /\ \A i \in DOMAIN functors : functors[i][2] <= posted'[functors[i][1]]
  BY <1>3, <1>4 DEF LineInv
<1>9. ASSUME NEW e \in Tasks'
      PROVE  In(e, executed) \/ In(e, functors) \/ In(e, Append(_pendingTasks, x))
  <2>1. e \in Tasks \/ e = x
    BY <1>3, <1>4 DEF LineInv
  <2> QED
    BY <1>2, <1>3, <2>1, AppendMembers DEF LineInv
<1>10. Precedes(executed, _pendingTasks') /\ Precedes(functors, _pendingTasks')
  BY <1>1, <1>3, <1>6 DEF LineInv
<1>11. /\ deq'.step = "none" /\ (functors' # <<>> => phase' \in {"pending", "task"})
       /\ Ordered(executed') /\ Ordered(functors') /\ Precedes(executed', functors')
  BY <1>1 DEF LineInv
<1>12. Queued(executed)' /\ Queued(functors)' /\ Queued(_pendingTasks)'
  BY <1>1, <1>7, <1>8 DEF Queued
<1>13. \A e \in Tasks' : In(e, executed') \/ In(e, functors') \/ In(e, _pendingTasks')
  BY <1>1, <1>9
<1> QED
  BY <1>1, <1>5, <1>10, <1>11, <1>12, <1>13 DEF LineInv, Ordered, Precedes, Queued, In

(* doPendingTask of the mutex build: the swap moves the pending tasks to   *)
(* the local vector, which is empty, and each task runs from its head.     *)
LEMMA SwapStep ==
  ASSUME TypeOK, LineInv, PendingSwap
  PROVE  LineInv'
<1>1. /\ phase = "events" /\ phase' = "pending" /\ functors' = _pendingTasks
      /\ _pendingTasks' = <<>> /\ UNCHANGED <<deq, executed, posted>>
  BY DEF PendingSwap, queueVars
<1>2. functors = <<>>
  BY <1>1 DEF LineInv
<1>3. Tasks' = Tasks
  BY <1>1 DEF Tasks
<1>4. \A e \in Tasks : In(e, executed) \/ In(e, _pendingTasks)
  BY <1>2 DEF LineInv, In
<1> QED
  BY <1>1, <1>3, <1>4 DEF LineInv, Ordered, Precedes, Queued, In

(* A functor of the local vector runs.                                     *)
LEMMA RunSwappedStep ==
  ASSUME TypeOK, LineInv, RunSwapped
  PROVE  LineInv'
<1> DEFINE x == Head(functors)
<1>1. /\ functors # <<>> /\ phase' = "task" /\ functors' = Tail(functors)
      /\ executed' = Append(executed, x) /\ UNCHANGED <<deq, _pendingTasks, posted>>
  BY DEF RunSwapped, queueVars
<1>2. executed \in Seq(Elements) /\ functors \in Seq(Elements)
  BY DEF TypeOK
<1>3. /\ 1 \in DOMAIN functors /\ x = functors[1] /\ x \in Elements
      /\ \A i \in DOMAIN Tail(functors) :
            i + 1 \in DOMAIN functors /\ Tail(functors)[i] = functors[i + 1]
      /\ \A e : In(e, functors) => e = x \/ In(e, Tail(functors))
  BY <1>1, <1>2, TailMembers
<1> HIDE DEF x
<1>4. /\ \A i \in DOMAIN executed' :
            (i \in DOMAIN executed /\ executed'[i] = executed[i]) \/ executed'[i] = x
      /\ \A e : In(e, executed) => In(e, executed')
      /\ In(x, executed')
  BY <1>1, <1>2, <1>3, AppendMembers
<1>5. Ordered(executed') /\ Ordered(functors') /\ Precedes(executed', functors')
  BY <1>1, <1>2, MovesOver DEF LineInv, x
<1>6. Precedes(executed', _pendingTasks) /\ Precedes(functors', _pendingTasks)
  BY <1>1, <1>3, <1>4 DEF LineInv, Precedes
<1>7. Queued(executed)' /\ Queued(functors)'
  BY <1>1, <1>3, <1>4 DEF LineInv, Queued
<1>8. Tasks' = Tasks
  BY <1>1 DEF Tasks
<1>9. \A e \in Tasks : In(e, executed') \/ In(e, functors') \/ In(e, _pendingTasks)
  BY <1>1, <1>3, <1>4 DEF LineInv
<1> QED
  BY <1>1, <1>5, <1>6, <1>7, <1>8, <1>9 DEF LineInv, Ordered, Precedes, Queued, In

(* Every step of the mutex build keeps the line.                           *)
LEMMA LineStep ==
  ASSUME ~LockFree, TypeOK, LineInv, [AnyOwnerNext]_vars
  PROVE  LineInv'
<1>1. CASE UNCHANGED <<deq, phase, functors, executed, _pendingTasks, posted>>
  BY <1>1 DEF LineInv, Ordered, Precedes, Queued, In, Tasks
<1>2. ASSUME NEW p \in Producers, Call(p) \/ CallStep(p)
      PROVE  LineInv'
  <2>1. CASE QueuePushBack(p)
    BY <2>1, PushBackStep
  <2>2. CASE Quit(p) \/ CallStep(p)
    <3>1. UNCHANGED <<deq, phase, functors, executed, _pendingTasks, posted>>
      BY <2>2
      DEF Quit, CallStep, QueueConstruct, QueuePublish, QueueWakeup, EnqueueConstruct,
          EnqueuePublish, queueVars, loopVars
    <3> QED
      BY <1>1, <3>1
  <2> QED
    BY <1>2, <2>1, <2>2 DEF Call, QueueTryEnqueue
<1>3. CASE \/ EnterLoop \/ WhileTest \/ PollWakeup \/ PollIO \/ PollTimeout
           \/ HandleWakeUp \/ HandleIO \/ HandleIODone \/ TaskDone \/ PendingDone
  <2>1. /\ UNCHANGED <<deq, functors, executed, _pendingTasks, posted>>
        /\ functors # <<>> => phase' \in {"pending", "task"}
    BY <1>3
    DEF EnterLoop, WhileTest, PollWakeup, PollIO, PollTimeout, PollReturns, HandleWakeUp,
        HandleIO, HandleIODone, TaskDone, PendingDone, queueVars, LineInv
  <2> QED
    BY <2>1 DEF LineInv, Ordered, Precedes, Queued, In, Tasks
<1>4. ~PendingBegin /\ ~DequeueFunctor /\ ~RunDequeued
  BY DEF PendingBegin, DequeueFunctor, RunDequeued, DequeueAdvance, LineInv
<1>5. CASE QuitFlag \/ UNCHANGED vars
  BY <1>1, <1>5 DEF QuitFlag, vars, queueVars, loopVars
<1> QED
  BY <1>2, <1>3, <1>4, <1>5, SwapStep, RunSwappedStep DEF AnyOwnerNext, Next, LoopStep

(* The line in the state the constructor leaves.                           *)
LEMMA LineInit == Init => LineInv
<1> SUFFICES ASSUME Init PROVE LineInv
  OBVIOUS
<1>1. executed = <<>> /\ functors = <<>> /\ _pendingTasks = <<>> /\ deq.step = "none"
  BY DEF Init, QueueInit, NotDequeuing
<1>2. Tasks = {}
  BY LoopAssumption DEF Init, Tasks
<1> QED
  BY <1>1, <1>2 DEF LineInv, Ordered, Precedes, Queued

(* The line gives what RunInOrder says of the mutex build.                 *)
LEMMA LineGivesOrder ==
  ASSUME ~LockFree, LineInv
  PROVE  RunInOrder
<1>1. NoTaskLost
  BY DEF LineInv, NoTaskLost, InFlight, Ran, In
<1> QED
  BY <1>1 DEF LineInv, Ordered, RunInOrder

(* The mutex build runs the tasks of every thread in the order they were   *)
(* queued, none twice, and loses none, for any number of threads that post *)
(* at once (EventLoop.cpp:172-206 and 287-306).                            *)
THEOREM MutexRunsInOrder ==
  ASSUME ~LockFree
  PROVE  (Spec => []RunInOrder) /\ (ThreadSpec => []RunInOrder)
<1>1. TypeOK /\ LineInv /\ [AnyOwnerNext]_vars => LineInv'
  BY LineStep
<1>2. LineInv => RunInOrder
  BY LineGivesOrder
<1> QED
  BY <1>1, <1>2, LineInit, TypeCorrect, LoopSpecs, PTL DEF AnyOwnerSpec

-----------------------------------------------------------------------------
(* The same for the lock-free build with one poster: what was run, what    *)
(* the block holds and the task inside try_enqueue are one line.           *)

\* A task that was constructed is still in its slot.
BuiltHolds ==
    \A p \in Producers : enq[p].step = "built" => slots[enq[p].pos] = enq[p].elem

\* The task inside try_enqueue is the newest one of its thread.
NewestInside ==
    \A p \in Producers : enq[p].step # "none" =>
        /\ enq[p].elem = <<p, posted[p]>>
        /\ \A i \in DOMAIN executed : executed[i][1] = p => executed[i][2] < posted[p]
        /\ \A i \in DOMAIN Contents : Contents[i][1] = p => Contents[i][2] < posted[p]

BlockLine ==
    /\ BuiltHolds
    /\ NewestInside
    /\ Ordered(executed) /\ Ordered(Contents) /\ Precedes(executed, Contents)
    /\ Queued(executed) /\ Queued(Contents)
    /\ \A e \in Tasks \ refused :
          \/ In(e, executed) \/ In(e, Contents)
          \/ \E p \in Producers : enq[p].step # "none" /\ enq[p].elem = e

\* What the invariants of the queue add.
BlockBase == TypeOK /\ QueueInv /\ OneInside /\ ContentsOK

(* The line of the lock-free build does not change while neither the       *)
(* block, nor the calls, nor what was queued and run changes.              *)
LEMMA SameBlockLine ==
  ASSUME BlockBase, BlockLine, Contents' = Contents, slots' = slots, enq' = enq,
         UNCHANGED <<executed, posted, refused>>
  PROVE  BlockLine'
<1>1. Tasks' = Tasks
  BY DEF Tasks
<1> HIDE DEF Contents
<1> QED
  BY <1>1 DEF BlockLine, BuiltHolds, NewestInside, Ordered, Precedes, Queued, In

(* try_enqueue finds room, or refuses the task.                            *)
LEMMA TryEnqueueStep ==
  ASSUME BlockBase, BlockLine, NEW p \in Producers, QueueTryEnqueue(p)
  PROVE  BlockLine'
<1> DEFINE x == NewTask(p)
<1>1. /\ posted[p] < MaxTasks /\ posted' = [posted EXCEPT ![p] = @ + 1]
      /\ executed' = executed /\ enq[p].step = "none"
  BY DEF QueueTryEnqueue, EnqueueRoom, EnqueueFull
<1>2. x \in Elements /\ x = <<p, posted[p] + 1>>
  BY <1>1, NewTaskType DEF BlockBase, NewTask
<1>3. executed \in Seq(Elements) /\ Contents \in Seq(Elements)
  BY DEF BlockBase, TypeOK, ContentsOK
<1>4. \A q \in Producers : posted'[q] = IF q = p THEN posted[p] + 1 ELSE posted[q]
  BY <1>1 DEF BlockBase, TypeOK
<1>5. Contents' = Contents /\ slots' = slots
  <2>1. EnqueueRoom(p, x) \/ EnqueueFull(p)
    BY DEF QueueTryEnqueue
  <2>2. Contents' = Contents
    BY <1>2, <2>1, OthersKeep DEF BlockBase
  <2> QED
    BY <2>1, <2>2 DEF EnqueueRoom, EnqueueFull
<1> HIDE DEF Contents
<1>6. NewTask(p)[1] = p /\ NewTask(p)[2] = posted[p] + 1
  BY DEF NewTask
<1>7. /\ \A i \in DOMAIN executed : executed[i][1] = p => executed[i][2] < posted[p] + 1
      /\ \A i \in DOMAIN Contents : Contents[i][1] = p => Contents[i][2] < posted[p] + 1
  <2>1. /\ \A i \in DOMAIN executed :
              executed[i][1] = NewTask(p)[1] => executed[i][2] < NewTask(p)[2]
        /\ \A i \in DOMAIN Contents :
              Contents[i][1] = NewTask(p)[1] => Contents[i][2] < NewTask(p)[2]
    BY <1>1, <1>3, NewTaskIsNewest DEF BlockBase, BlockLine
  <2> QED
    BY <1>6, <2>1
<1>8. Queued(executed)' /\ Queued(Contents)'
  <2>1. /\ \A i \in DOMAIN executed : executed[i][2] <= posted'[executed[i][1]]
        /\ \A i \in DOMAIN Contents : Contents[i][2] <= posted'[Contents[i][1]]
    BY <1>1, <1>3, NewTaskIsNewest DEF BlockBase, BlockLine
  <2> QED
    BY <1>1, <1>5, <2>1 DEF Queued
<1>9. \A e \in Tasks' : e \in Tasks \/ e = x
  BY <1>1, <1>3, NewTaskIsNewest DEF BlockBase, BlockLine
<1>10. \A q \in Producers : enq[q].step # "none" => q # p /\ posted'[q] = posted[q]
  BY <1>1, <1>4
<1> HIDE DEF x
<1>11. CASE EnqueueRoom(p, x) /\ refused' = refused
  <2>1. \A q \in Producers : enq'[q] = IF q = p THEN [step |-> "room", pos |-> tail, elem |-> x]
                                          ELSE enq[q]
    BY <1>11 DEF EnqueueRoom, BlockBase, TypeOK, QueueTypeOK
  <2>2. BuiltHolds'
    BY <1>5, <2>1 DEF BlockLine, BuiltHolds
  <2>3. NewestInside'
    BY <1>1, <1>2, <1>4, <1>5, <1>7, <1>10, <2>1 DEF BlockLine, NewestInside
  <2>4. \A e \in Tasks' \ refused' :
          \/ In(e, executed) \/ In(e, Contents)
          \/ \E q \in Producers : enq'[q].step # "none" /\ enq'[q].elem = e
    BY <1>1, <1>9, <1>11, <2>1 DEF BlockLine
  <2> QED
    BY <1>1, <1>5, <1>8, <2>2, <2>3, <2>4 DEF BlockLine, Ordered, Precedes, In
<1>12. CASE EnqueueFull(p) /\ refused' = refused \cup {x}
  <2>1. enq' = enq
    BY <1>12 DEF EnqueueFull
  <2>2. BuiltHolds'
    BY <1>5, <2>1 DEF BlockLine, BuiltHolds
  <2>3. NewestInside'
    BY <1>1, <1>5, <1>10, <2>1 DEF BlockLine, NewestInside
  <2>4. \A e \in Tasks' \ refused' :
          \/ In(e, executed) \/ In(e, Contents)
          \/ \E q \in Producers : enq[q].step # "none" /\ enq[q].elem = e
    BY <1>9, <1>12 DEF BlockLine
  <2> QED
    BY <1>1, <1>5, <1>8, <2>1, <2>2, <2>3, <2>4 DEF BlockLine, Ordered, Precedes, In
<1> QED
  BY <1>11, <1>12 DEF QueueTryEnqueue, x

(* The task is constructed in the slot at tail.                            *)
LEMMA ConstructStep ==
  ASSUME BlockBase, BlockLine, NEW p \in Producers, QueueConstruct(p)
  PROVE  BlockLine'
<1>1. EnqueueConstruct(p) /\ UNCHANGED <<executed, posted, refused>>
  BY DEF QueueConstruct, loopVars
<1>2. Contents' = Contents
  BY <1>1, OthersKeep DEF BlockBase
<1> HIDE DEF Contents
<1>3. ASSUME NEW q \in Producers
      PROVE  /\ enq'[q].elem = enq[q].elem
             /\ enq'[q].pos = enq[q].pos
             /\ (enq'[q].step = "none") <=> (enq[q].step = "none")
             /\ (q # p) => (enq'[q].step = enq[q].step)
  BY <1>1 DEF EnqueueConstruct, BlockBase, TypeOK, QueueTypeOK
<1>4. BuiltHolds'
  <2>1. ASSUME NEW q \in Producers, enq'[q].step = "built"
        PROVE  q = p
    BY <1>1, <1>3, <2>1 DEF EnqueueConstruct, BlockBase, OneInside
  <2>2. slots'[enq[p].pos] = enq[p].elem
    BY <1>1 DEF EnqueueConstruct, BlockBase, TypeOK, QueueTypeOK
  <2>3. ASSUME NEW q \in Producers, enq'[q].step = "built"
        PROVE  slots'[enq'[q].pos] = enq'[q].elem
    BY <1>3, <2>1, <2>2, <2>3
  <2> QED
    BY <2>3 DEF BuiltHolds
<1>5. NewestInside'
  <2>1. ASSUME NEW q \in Producers, enq'[q].step # "none"
        PROVE  enq[q].step # "none" /\ enq'[q].elem = enq[q].elem
    BY <1>3, <2>1
  <2> QED
    BY <1>1, <1>2, <2>1 DEF BlockLine, NewestInside
<1>6. Tasks' = Tasks
  BY <1>1 DEF Tasks
<1>7. ASSUME NEW e \in Tasks \ refused, ~In(e, executed), ~In(e, Contents)
      PROVE  \E q \in Producers : enq'[q].step # "none" /\ enq'[q].elem = e
  <2>1. PICK q \in Producers : enq[q].step # "none" /\ enq[q].elem = e
    BY <1>7 DEF BlockLine
  <2> QED
    BY <1>3, <2>1
<1> QED
  BY <1>1, <1>2, <1>4, <1>5, <1>6, <1>7 DEF BlockLine, Ordered, Precedes, Queued, In

(* The task is published: it joins the line.                               *)
LEMMA PublishStep ==
  ASSUME BlockBase, OneInside', BlockLine, NEW p \in Producers, QueuePublish(p)
  PROVE  BlockLine'
<1> DEFINE x == enq[p].elem
<1>1. EnqueuePublish(p) /\ UNCHANGED <<executed, posted, refused>> /\ enq[p].step = "built"
  BY DEF QueuePublish, EnqueuePublish
<1>2. x \in Elements /\ Contents' = Append(Contents, x) /\ x = <<p, posted[p]>>
  <2>1. slots[tail] \in Elements /\ Contents' = Append(Contents, slots[tail])
    BY <1>1, PublishAppends DEF BlockBase, Fifo!Put
  <2>2. slots[tail] = x
    BY <1>1 DEF BlockBase, QueueInv, ProducerHolds, BlockLine, BuiltHolds
  <2>3. x = <<p, posted[p]>>
    BY <1>1 DEF BlockLine, NewestInside
  <2> QED
    BY <2>1, <2>2, <2>3
<1>3. executed \in Seq(Elements) /\ Contents \in Seq(Elements)
  BY DEF BlockBase, TypeOK, ContentsOK
<1>4. /\ \A i \in DOMAIN executed : executed[i][1] = p => executed[i][2] < posted[p]
      /\ \A i \in DOMAIN Contents : Contents[i][1] = p => Contents[i][2] < posted[p]
  BY <1>1 DEF BlockLine, NewestInside
<1> HIDE DEF Contents, x
<1>5. \A q \in Producers : enq'[q].step = "none"
  BY <1>1 DEF EnqueuePublish, NotEnqueuing, BlockBase, OneInside, TypeOK, QueueTypeOK
<1>6. BuiltHolds' /\ NewestInside'
  BY <1>5 DEF BuiltHolds, NewestInside
<1>7. /\ \A i \in DOMAIN Contents' :
            (i \in DOMAIN Contents /\ Contents'[i] = Contents[i]) \/ Contents'[i] = x
      /\ \A e : In(e, Contents) => In(e, Contents')
      /\ In(x, Contents')
  BY <1>2, <1>3, AppendMembers
<1>8. Ordered(Contents')
  BY <1>2, <1>3, <1>4, JoinsLine DEF BlockLine
<1>9. Precedes(executed, Contents')
  BY <1>2, <1>4, <1>7 DEF BlockLine, Precedes
<1>10. Queued(Contents)'
  <2>1. x[2] <= posted[x[1]]
    BY <1>2, LoopAssumption DEF BlockBase, TypeOK
  <2> QED
    BY <1>1, <1>7, <2>1 DEF BlockLine, Queued
<1>11. Tasks' = Tasks
  BY <1>1 DEF Tasks
<1>12. ASSUME NEW e \in Tasks \ refused
       PROVE  In(e, executed) \/ In(e, Contents')
  <2>1. CASE In(e, executed) \/ In(e, Contents)
    BY <1>7, <2>1
  <2>2. CASE \E q \in Producers : enq[q].step # "none" /\ enq[q].elem = e
    <3>1. e = x
      BY <1>1, <2>2 DEF BlockBase, OneInside, x
    <3> QED
      BY <1>7, <3>1
  <2> QED
    BY <2>1, <2>2 DEF BlockLine
<1> QED
  BY <1>1, <1>6, <1>8, <1>9, <1>10, <1>11, <1>12
  DEF BlockLine, Ordered, Precedes, Queued, In

(* A task is moved out of its slot, which is not the one at tail.          *)
LEMMA TakeStep ==
  ASSUME BlockBase, BlockLine, DequeueFunctor
  PROVE  BlockLine'
<1>1. DequeueTake /\ UNCHANGED <<executed, posted, refused>>
  BY DEF DequeueFunctor, loopVars
<1>2. Contents' = Contents
  BY <1>1, OthersKeep DEF BlockBase
<1> HIDE DEF Contents
<1>3. enq' = enq /\ \A i \in Index : i # front => slots'[i] = slots[i]
  BY <1>1 DEF DequeueTake, BlockBase, TypeOK, QueueTypeOK
<1>4. front # tail
  BY <1>1, SizeAssumption
  DEF DequeueTake, RefreshedTail, BlockBase, QueueInv, TailShadow, InArc, QueueTypeOK, Index
<1>5. BuiltHolds'
  BY <1>3, <1>4 DEF BlockLine, BuiltHolds, BlockBase, QueueInv, ProducerHolds, QueueTypeOK
<1>6. Tasks' = Tasks
  BY <1>1 DEF Tasks
<1> QED
  BY <1>1, <1>2, <1>3, <1>5, <1>6
  DEF BlockLine, NewestInside, Ordered, Precedes, Queued, In

(* The task that was moved out is the oldest one; it runs.                 *)
LEMMA RunDequeuedStep ==
  ASSUME BlockBase, BlockLine, RunDequeued
  PROVE  BlockLine'
<1> DEFINE x == Head(Contents)
<1>1. DequeueAdvance /\ UNCHANGED <<posted, refused, enq, slots>>
  BY DEF RunDequeued, DequeueAdvance
<1>2. Contents # <<>> /\ Contents' = Tail(Contents)
  BY <1>1, AdvanceDrops DEF BlockBase, Fifo!Get
<1>3. executed \in Seq(Elements) /\ Contents \in Seq(Elements)
  BY DEF BlockBase, TypeOK, ContentsOK
<1>4. deq.elem = x /\ x \in Elements
  <2>1. deq.step = "taken" /\ deq.elem \in Elements
    BY <1>1 DEF DequeueAdvance, BlockBase, QueueInv, ConsumerHolds
  <2>2. 1 \in 1 .. Count
    BY <1>2, <1>3 DEF BlockBase, ContentsOK
  <2>3. Contents[1] = deq.elem
    BY <2>1, <2>2 DEF Contents
  <2> HIDE DEF Contents
  <2> QED
    BY <1>2, <1>3, <2>1, <2>3
<1> HIDE DEF Contents
<1>5. executed' = Append(executed, x)
  BY <1>4 DEF RunDequeued
<1>6. /\ 1 \in DOMAIN Contents /\ x = Contents[1]
      /\ \A i \in DOMAIN Tail(Contents) :
            i + 1 \in DOMAIN Contents /\ Tail(Contents)[i] = Contents[i + 1]
      /\ \A e : In(e, Contents) => e = x \/ In(e, Tail(Contents))
  BY <1>2, <1>3, TailMembers
<1>7. Ordered(executed') /\ Ordered(Contents') /\ Precedes(executed', Contents')
  BY <1>2, <1>3, <1>5, MovesOver DEF BlockLine
<1> HIDE DEF x
<1>8. /\ \A i \in DOMAIN executed' :
            (i \in DOMAIN executed /\ executed'[i] = executed[i]) \/ executed'[i] = x
      /\ \A e : In(e, executed) => In(e, executed')
      /\ In(x, executed')
  BY <1>3, <1>4, <1>5, AppendMembers
<1>9. Queued(executed)' /\ Queued(Contents)'
  BY <1>1, <1>2, <1>6, <1>8 DEF BlockLine, Queued
<1>10. BuiltHolds'
  BY <1>1 DEF BlockLine, BuiltHolds
<1>11. NewestInside'
  BY <1>1, <1>2, <1>6, <1>8 DEF BlockLine, NewestInside
<1>12. Tasks' = Tasks
  BY <1>1 DEF Tasks
<1>13. \A e \in Tasks \ refused :
          \/ In(e, executed') \/ In(e, Contents')
          \/ \E p \in Producers : enq[p].step # "none" /\ enq[p].elem = e
  BY <1>2, <1>6, <1>8 DEF BlockLine
<1> QED
  BY <1>1, <1>7, <1>9, <1>10, <1>11, <1>12, <1>13 DEF BlockLine, Ordered, Precedes, Queued, In

(* Every step of the lock-free build keeps the line.                       *)
LEMMA BlockLineStep ==
  ASSUME LockFree, BlockBase, OneInside', BlockLine, [AnyOwnerNext]_vars
  PROVE  BlockLine'
<1>1. CASE UNCHANGED <<queueVars, executed, posted, refused>>
  <2>1. Contents' = Contents
    BY <1>1, OthersKeep DEF BlockBase
  <2> QED
    BY <1>1, <2>1, SameBlockLine DEF queueVars
<1>2. ASSUME NEW p \in Producers, Call(p) \/ CallStep(p)
      PROVE  BlockLine'
  <2>1. CASE Quit(p) \/ QueueWakeup(p)
    BY <1>1, <2>1 DEF Quit, QueueWakeup
  <2> QED
    BY <1>2, <2>1, TryEnqueueStep, ConstructStep, PublishStep
    DEF Call, CallStep, QueuePushBack
<1>3. CASE PendingDone
  <2>1. DequeueEmpty /\ UNCHANGED <<executed, posted, refused>>
    BY <1>3 DEF PendingDone
  <2>2. Contents' = Contents
    BY <2>1, OthersKeep DEF BlockBase
  <2> QED
    BY <2>1, <2>2, SameBlockLine DEF DequeueEmpty
<1>4. CASE \/ EnterLoop \/ WhileTest \/ PollWakeup \/ PollIO \/ PollTimeout \/ PendingBegin
           \/ HandleWakeUp \/ HandleIO \/ HandleIODone \/ TaskDone \/ QuitFlag \/ UNCHANGED vars
  BY <1>1, <1>4
  DEF EnterLoop, WhileTest, PollWakeup, PollIO, PollTimeout, PollReturns, PendingBegin,
      HandleWakeUp, HandleIO, HandleIODone, TaskDone, QuitFlag, vars, loopVars
<1>5. ~PendingSwap /\ ~RunSwapped
  BY DEF PendingSwap, RunSwapped
<1> QED
  BY <1>2, <1>3, <1>4, <1>5, TakeStep, RunDequeuedStep DEF AnyOwnerNext, Next, LoopStep

(* The line of the lock-free build in the state the constructor leaves.    *)
LEMMA BlockLineInit == Init => BlockLine
<1> SUFFICES ASSUME Init PROVE BlockLine
  OBVIOUS
<1>1. executed = <<>> /\ \A p \in Producers : enq[p].step = "none"
  BY DEF Init, QueueInit, NotEnqueuing
<1>2. Contents = <<>>
  BY DEF Init, QueueInit, Contents, Count
<1>3. Tasks = {}
  BY LoopAssumption DEF Init, Tasks
<1> HIDE DEF Contents
<1> QED
  BY <1>1, <1>2, <1>3 DEF BlockLine, BuiltHolds, NewestInside, Ordered, Precedes, Queued

(* The line gives what RunInOrder says of the lock-free build.             *)
LEMMA BlockLineGivesOrder ==
  ASSUME LockFree, BlockBase, BlockLine
  PROVE  RunInOrder
<1>1. ASSUME NEW k \in DOMAIN Contents
      PROVE  Contents[k] \in InFlight
  <2> USE SizeAssumption DEF BlockBase, QueueInv, QueueTypeOK, Index
  <2>1. k \in 1 .. Count /\ Count \in Nat
    BY DEF ContentsOK
  <2>2. CASE k = 1 /\ deq.step = "taken"
    BY <2>1, <2>2 DEF Contents, InFlight
  <2>3. CASE ~(k = 1 /\ deq.step = "taken")
    <3> DEFINE i == Around(front + k - 1)
    <3>1. i \in Index /\ Filled(i)
      BY <2>1 DEF Around, Count, Filled
    <3>2. Contents[k] = slots[i]
      BY <2>1, <2>3 DEF Contents
    <3> HIDE DEF i
    <3> QED
      BY <3>1, <3>2 DEF InFlight
  <2> QED
    BY <2>2, <2>3
<1> HIDE DEF Contents
<1>2. ASSUME NEW e \in Tasks \ refused
      PROVE  e \in InFlight \cup Ran
  <2>1. CASE In(e, executed)
    BY <2>1 DEF In, Ran
  <2>2. CASE In(e, Contents)
    BY <1>1, <2>2 DEF In
  <2>3. CASE \E p \in Producers : enq[p].step # "none" /\ enq[p].elem = e
    BY <2>3 DEF InFlight
  <2> QED
    BY <2>1, <2>2, <2>3 DEF BlockLine
<1> QED
  BY <1>2 DEF RunInOrder, NoTaskLost, BlockLine, Ordered

(* With one poster the lock-free build, too, runs the tasks in the order   *)
(* they were queued, none twice, and loses none that try_enqueue took      *)
(* (EventLoop.cpp:172-206 and 265-284).                                    *)
THEOREM LockFreeRunsInOrder ==
  ASSUME LockFree, OnePoster
  PROVE  (Spec => []RunInOrder) /\ (ThreadSpec => []RunInOrder)
<1>1. QueueInv => ContentsOK
  BY ContentsType
<1>2. BlockBase /\ OneInside' /\ BlockLine /\ [AnyOwnerNext]_vars => BlockLine'
  BY BlockLineStep
<1>3. BlockBase /\ BlockLine => RunInOrder
  BY BlockLineGivesOrder
<1>4. AnyOwnerSpec => []OneInside
  BY CallsDoNotOverlap
<1>5. TypeOK /\ QueueInv /\ OneInside /\ ContentsOK => BlockBase
  BY DEF BlockBase
<1>6. AnyOwnerSpec => []BlockBase
  BY <1>1, <1>4, <1>5, UsesQueue, QueueInvariance, TypeCorrect, PTL
<1> QED
  BY <1>2, <1>3, <1>4, <1>6, BlockLineInit, LoopSpecs, PTL DEF AnyOwnerSpec

-----------------------------------------------------------------------------
(* The invariant behind QuitsLiveLoop.                                     *)

\* As long as only the destructor has told the loop to stop, everything on
\* the way out of the thread comes after the destructor's quit.
OwnerInv ==
    /\ _quit \in BOOLEAN
    /\ quits \in Nat
    /\ _loop = (IF thread = "published" THEN "loop" ELSE "null")
    /\ owner = "created" => thread = "none"
    /\ quits = 0 =>
          /\ (_quit = TRUE \/ phase = "returned" \/ thread \in {"cleared", "exited"})
                => owner \in {"joining", "destroyed"}
          /\ owner = "quitting" => thread = "published"
          /\ owner # "crashed"

(* Every step of the thread, its owner and its users keeps it.             *)
LEMMA OwnerStepInv ==
  ASSUME OwnerInv, TypeOK, [ThreadNext]_allVars
  PROVE  OwnerInv'
<1> USE DEF OwnerInv
<1>1. ASSUME NEW p \in Producers, UNCHANGED threadVars, Call(p) \/ CallStep(p)
      PROVE  OwnerInv'
  <2>1. CASE Quit(p)
    BY <1>1, <2>1 DEF Quit, threadVars
  <2>2. CASE QueuePushBack(p) \/ QueueTryEnqueue(p) \/ CallStep(p)
    <3>1. UNCHANGED <<_quit, quits, phase>>
      BY <2>2
      DEF QueuePushBack, QueueTryEnqueue, CallStep, QueueConstruct, QueuePublish,
          QueueWakeup, loopVars
    <3> QED
      BY <1>1, <3>1 DEF threadVars
  <2> QED
    BY <1>1, <2>1, <2>2 DEF Call
<1>2. CASE UNCHANGED threadVars /\ (LoopStep \/ PollIO \/ PollTimeout)
  <2>1. /\ quits' = quits /\ (_quit' = _quit \/ _quit' = FALSE)
        /\ (phase' = "returned") => (phase = "returned" \/ _quit = TRUE)
    BY <1>2
    DEF LoopStep, EnterLoop, WhileTest, PollWakeup, PollIO, PollTimeout, PollReturns,
        HandleWakeUp, HandleIO, HandleIODone, PendingSwap, PendingBegin, RunSwapped,
        DequeueFunctor, RunDequeued, TaskDone, PendingDone, loopVars
  <2> QED
    BY <1>2, <2>1 DEF threadVars
<1>3. CASE RunLoop
  BY <1>1, <1>2, <1>3, LoopAssumption DEF RunLoop, Call
<1>4. CASE \E p \in Threads : UseLoop(p)
  BY <1>1, <1>4 DEF UseLoop, Threads
<1>5. CASE ConstructLoop \/ PublishLoop \/ ClearLoop \/ ExitThread
  BY <1>5 DEF ConstructLoop, PublishLoop, ClearLoop, ExitThread, vars, loopVars
<1>6. CASE DestructorQuit
  BY <1>6 DEF DestructorQuit, LoopAlive
<1>7. CASE StartLoop \/ StartLoopReturns \/ DestructorJoin \/ DestructorTest
  BY <1>7 DEF StartLoop, StartLoopReturns, DestructorJoin, DestructorTest, vars, loopVars
<1>8. CASE UNCHANGED allVars
  BY <1>8 DEF allVars, threadVars, vars, loopVars
<1> QED
  BY <1>3, <1>4, <1>5, <1>6, <1>7, <1>8 DEF ThreadNext, ThreadStep, OwnerStep

(* The destructor of EventLoopThread tests and uses _loop without the lock *)
(* (EventLoopThread.cpp:21-22); as long as nobody else stops the loop, the *)
(* loop it calls quit on exists, for any number of users and in both       *)
(* builds.                                                                 *)
THEOREM DestructorQuitsLiveLoop == ThreadSpec => []QuitsLiveLoop
<1>1. ASSUME ThreadInit
      PROVE  OwnerInv
  <2>1. /\ _quit \in BOOLEAN /\ _quit # TRUE /\ quits = 0 /\ phase = "created"
        /\ thread = "none" /\ _loop = "null" /\ owner = "created"
    BY <1>1, Zenon DEF ThreadInit, Init
  <2> QED
    BY <2>1 DEF OwnerInv
<1>2. OwnerInv => QuitsLiveLoop
  BY DEF OwnerInv, QuitsLiveLoop
<1> QED
  BY <1>1, <1>2, OwnerStepInv, TypeCorrect, LoopSpecs, PTL DEF ThreadSpec

=============================================================================
