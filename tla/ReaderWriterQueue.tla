-------------------------- MODULE ReaderWriterQueue --------------------------
(***************************************************************************)
(* moodycamel::ReaderWriterQueue as this repository carries it             *)
(* (web/base/LockFreeQueue.h) and as EventLoop uses it: constructed with   *)
(* the default size 15, so there is exactly one Block (a circular buffer   *)
(* of 16 slots whose next pointer is itself), and filled with              *)
(* try_enqueue only, so no second block is ever allocated.                 *)
(*                                                                         *)
(* An enqueue is three steps of the producer (read the indices, construct  *)
(* the element in its slot, store tail) and a dequeue is two steps of the  *)
(* consumer (move the element out, store front): those are the points      *)
(* where another thread can observe the block.  The copy constructor of    *)
(* the element and the fences around the index stores are what orders      *)
(* them; each step here is atomic, so a torn element is not modelled.      *)
(***************************************************************************)
EXTENDS Naturals, Sequences

CONSTANTS
    Producers,      \* the threads that call try_enqueue
    Elements,       \* the values that can be enqueued
    Size,           \* slots of the block: 16 in the code
    Vacant          \* what a slot without a live element holds: memory never
                    \* constructed, or whose element was moved out

ASSUME SizeAssumption == Size \in Nat /\ Size >= 2

ASSUME VacantAssumption == Vacant \notin Elements

Index == 0 .. (Size - 1)

\* (i + 1) & sizeMask
Next1(i) == IF i + 1 = Size THEN 0 ELSE i + 1

VARIABLES
    slots,          \* Block::data
    front,          \* Block::front, stored by the consumer only
    tail,           \* Block::tail, stored by producers only
    localFront,     \* Block::localFront, the producer's shadow of front
    localTail,      \* Block::localTail, the consumer's shadow of tail
    enq,            \* enq[p]: where producer p is inside inner_enqueue
    deq             \* where the consumer is inside try_dequeue

queueVars == <<slots, front, tail, localFront, localTail, enq, deq>>

NotEnqueuing == [step |-> "none", pos |-> 0, elem |-> Vacant]
NotDequeuing == [step |-> "none", elem |-> Vacant]

QueueTypeOK ==
    /\ slots \in [Index -> Elements \cup {Vacant}]
    /\ front \in Index /\ tail \in Index
    /\ localFront \in Index /\ localTail \in Index
    /\ enq \in [Producers -> [step : {"none", "room", "built"}, pos : Index,
                              elem : Elements \cup {Vacant}]]
    /\ deq \in [step : {"none", "taken"}, elem : Elements \cup {Vacant}]

QueueInit ==
    /\ slots = [i \in Index |-> Vacant]
    /\ front = 0 /\ tail = 0 /\ localFront = 0 /\ localTail = 0
    /\ enq = [p \in Producers |-> NotEnqueuing]
    /\ deq = NotDequeuing

-----------------------------------------------------------------------------
(* try_enqueue, producer p.                                                *)

\* The shadow of front is refreshed only when it makes the block look full.
RefreshedFront == IF Next1(tail) = localFront THEN front ELSE localFront

\* Mutant of EnqueueRoom: without the test for room.
EnqueueRoomUnchecked(p, e) ==
    /\ enq[p].step = "none"
    /\ enq' = [enq EXCEPT ![p] = [step |-> "room", pos |-> tail, elem |-> e]]
    /\ UNCHANGED <<slots, front, tail, localFront, localTail, deq>>

\* Mutant of EnqueueRoom: tail is stored before the element is constructed.
EnqueueRoomPublishes(p, e) ==
    /\ enq[p].step = "none"
    /\ Next1(tail) # RefreshedFront
    /\ localFront' = RefreshedFront
    /\ tail' = Next1(tail)
    /\ enq' = [enq EXCEPT ![p] = [step |-> "room", pos |-> tail, elem |-> e]]
    /\ UNCHANGED <<slots, front, localTail, deq>>

\* There is room: remember the slot to fill.
EnqueueRoom(p, e) ==
    /\ enq[p].step = "none"
    /\ Next1(tail) # RefreshedFront
    /\ localFront' = RefreshedFront
    /\ enq' = [enq EXCEPT ![p] = [step |-> "room", pos |-> tail, elem |-> e]]
    /\ UNCHANGED <<slots, front, tail, localTail, deq>>

\* The block is full and may not allocate (CannotAlloc): return false.
EnqueueFull(p) ==
    /\ enq[p].step = "none"
    /\ Next1(tail) = RefreshedFront
    /\ localFront' = RefreshedFront
    /\ UNCHANGED <<slots, front, tail, localTail, enq, deq>>

\* new (location) T(element)
EnqueueConstruct(p) ==
    /\ enq[p].step = "room"
    /\ slots' = [slots EXCEPT ![enq[p].pos] = enq[p].elem]
    /\ enq' = [enq EXCEPT ![p].step = "built"]
    /\ UNCHANGED <<front, tail, localFront, localTail, deq>>

\* tailBlock_->tail = nextBlockTail; return true
EnqueuePublish(p) ==
    /\ enq[p].step = "built"
    /\ tail' = Next1(enq[p].pos)
    /\ enq' = [enq EXCEPT ![p] = NotEnqueuing]
    /\ UNCHANGED <<slots, front, localFront, localTail, deq>>

-----------------------------------------------------------------------------
(* try_dequeue, the one consumer.                                          *)

\* The shadow of tail is refreshed only when it makes the block look empty.
RefreshedTail == IF front = localTail THEN tail ELSE localTail

\* result = std::move(*element); element->~T().  A slot without a live
\* element yields an empty std::function: moved-from functions are empty.
DequeueTake ==
    /\ deq.step = "none"
    /\ front # RefreshedTail
    /\ localTail' = RefreshedTail
    /\ deq' = [step |-> "taken", elem |-> slots[front]]
    /\ slots' = [slots EXCEPT ![front] = Vacant]
    /\ UNCHANGED <<front, tail, localFront, enq>>

\* Mutant of DequeueAdvance: front moves to the end of what was seen.
DequeueAdvanceAll ==
    /\ deq.step = "taken"
    /\ front' = localTail
    /\ deq' = NotDequeuing
    /\ UNCHANGED <<slots, tail, localFront, localTail, enq>>

\* frontBlock_->front = blockFront; return true
DequeueAdvance ==
    /\ deq.step = "taken"
    /\ front' = Next1(front)
    /\ deq' = NotDequeuing
    /\ UNCHANGED <<slots, tail, localFront, localTail, enq>>

\* The block is empty and frontBlock = tailBlock: return false.
DequeueEmpty ==
    /\ deq.step = "none"
    /\ front = RefreshedTail
    /\ localTail' = RefreshedTail
    /\ UNCHANGED <<slots, front, tail, localFront, enq, deq>>

-----------------------------------------------------------------------------
QueueNext ==
    \/ \E p \in Producers :
          \/ \E e \in Elements : EnqueueRoom(p, e)
          \/ EnqueueFull(p)
          \/ EnqueueConstruct(p)
          \/ EnqueuePublish(p)
    \/ DequeueTake
    \/ DequeueAdvance
    \/ DequeueEmpty

QueueSpec == QueueInit /\ [][QueueNext]_queueVars

-----------------------------------------------------------------------------
\* The slots a reader of the two indices takes to be filled: from front up
\* to, and not including, tail, around the circle.
Filled(i) ==
    IF front <= tail THEN front <= i /\ i < tail
                     ELSE front <= i \/ i < tail

\* The elements in the block, oldest first.  Between DequeueTake and
\* DequeueAdvance the oldest one is in the consumer's hands.
Count == IF front <= tail THEN tail - front ELSE tail + Size - front
Around(i) == IF i < Size THEN i ELSE i - Size
Contents ==
    [k \in 1 .. Count |->
        IF k = 1 /\ deq.step = "taken" THEN deq.elem
                                      ELSE slots[Around(front + k - 1)]]

\* The consumer never moves out of a slot that holds no constructed element.
NoVacantRead == deq.step = "taken" => deq.elem \in Elements

\* A producer never constructs over an element that still waits.
NoOverwrite ==
    \A p \in Producers : enq[p].step = "room" => slots[enq[p].pos] = Vacant

(* Each side only touches slots that are its own: what is moved out was    *)
(* constructed (LockFreeQueue.h:317-319), and nothing is constructed over  *)
(* an element that still waits and would be lost, its destructor never run *)
(* (LockFreeQueue.h:560-565).                                              *)
SlotsRespected == NoVacantRead /\ NoOverwrite

\* Going up from a around the circle, i is met before b.
MetBefore(a, i, b) == IF a <= b THEN a <= i /\ i < b ELSE a <= i \/ i < b

\* What the consumer will take before it looks at tail again, apart from the
\* element in its hands, and what the producer will fill before it looks at
\* front again: the one slot that is kept free is not among them.
TakenUnseen(i) == MetBefore(front, i, localTail) /\ ~(deq.step = "taken" /\ i = front)
FilledUnseen(i) == MetBefore(Next1(tail), Next1(i), localFront)

(* However old the shadows localTail and localFront are                    *)
(* (LockFreeQueue.h:312, 557), what each side does on the strength of its  *)
(* own is right: the slots up to localTail hold constructed elements, and  *)
(* the slots up to localFront hold none, but for the one just constructed  *)
(* and not yet published.                                                  *)
ShadowsAreSafe ==
    \A i \in Index :
        /\ TakenUnseen(i) => slots[i] \in Elements
        /\ FilledUnseen(i) =>
              \/ slots[i] = Vacant
              \/ \E p \in Producers : enq[p].step = "built" /\ enq[p].pos = i

(* "The consumer knows the tail will never go backwards, only forwards"    *)
(* (LockFreeQueue.h:89-92): every store moves tail to the next slot.       *)
TailOnlyForward == [][tail' \in {tail, Next1(tail)}]_queueVars

Fifo == INSTANCE BoundedFifo WITH q <- Contents, Capacity <- Size - 1

(* With its one producer and one consumer the block implements a bounded   *)
(* first-in first-out queue: what it holds changes only by an element      *)
(* joining at the end or the oldest one leaving.                           *)
FifoSpec == Fifo!Spec

=============================================================================
