-------------------------- MODULE TimerQueue_proofs --------------------------
(***************************************************************************)
(* Proofs about TimerQueue, for any set of addresses, any delays and       *)
(* intervals, any number of other threads and any length of time.          *)
(***************************************************************************)
EXTENDS TimerQueue, FiniteSetTheorems, SequenceTheorems, TLAPS

-----------------------------------------------------------------------------
(* The order of std::set.                                                  *)

(* A set of naturals that is not empty has a least element.                *)
LEMMA LeastOfNats ==
  ASSUME NEW S \in SUBSET Nat, S # {}
  PROVE  \E m \in S : \A k \in S : m <= k
<1> DEFINE R == {ss \in Nat \X Nat : ss[1] < ss[2]}
<1>1. IsWellFoundedOn(R, Nat)
  BY NatLessThanWellFounded DEF OpToRel
<1>2. PICK m \in S : \A k \in S : ~(<<k, m>> \in R)
  BY <1>1, WFMin
<1>3. ASSUME NEW k \in S
      PROVE  m <= k
  <2>1. <<k, m>> \in Nat \X Nat /\ ~(k < m)
    BY <1>2
  <2> QED
    BY <2>1
<1> QED
  BY <1>3

(* A set of entries has a first one: what reset takes from begin() of      *)
(* _timers.                                                                *)
LEMMA FirstEntry ==
  ASSUME NEW S \in SUBSET Entries, S # {}
  PROVE  \E e \in S : \A f \in S : e = f \/ Before(e, f)
<1> USE TimerAssumption DEF Entries, Time
<1> DEFINE times == {e[1] : e \in S}
<1>1. PICK t \in times : \A u \in times : t <= u
  <2>1. times \in SUBSET Nat /\ times # {}
    OBVIOUS
  <2> QED
    BY <2>1, LeastOfNats
<1> DEFINE addresses == {e[2] : e \in {f \in S : f[1] = t}}
<1>2. PICK a \in addresses : \A b \in addresses : a <= b
  <2>1. addresses \in SUBSET Nat /\ addresses # {}
    BY <1>1
  <2> QED
    BY <2>1, LeastOfNats
<1>3. <<t, a>> \in S
  BY <1>2
<1>4. ASSUME NEW f \in S
      PROVE  <<t, a>> = f \/ Before(<<t, a>>, f)
  <2>1. t <= f[1]
    BY <1>1
  <2>2. f[1] = t => a <= f[2]
    BY <1>2
  <2>3. f \in Nat \X Nat /\ <<t, a>> \in Nat \X Nat
    BY <1>3
  <2> QED
    BY <2>1, <2>2, <2>3 DEF Before
<1> QED
  BY <1>3, <1>4

\* s enumerates S in the order of std::set.
InOrder(s, S) ==
    /\ s \in [1 .. Cardinality(S) -> S]
    /\ \A i, j \in 1 .. Cardinality(S) : i < j => Before(s[i], s[j])

(* Every finite set of entries can be put in order.  The proof takes a     *)
(* smallest set that cannot, and its first entry away from it.             *)
LEMMA OrderExists ==
  ASSUME NEW S \in SUBSET Entries, IsFiniteSet(S)
  PROVE  \E s : InOrder(s, S)
<1> DEFINE Bad(T) == IsFiniteSet(T) /\ ~\E s : InOrder(s, T)
           sizes == {n \in Nat : \E T \in SUBSET Entries : Bad(T) /\ Cardinality(T) = n}
<1> SUFFICES ASSUME Bad(S) PROVE FALSE
  OBVIOUS
<1>1. Cardinality(S) \in sizes
  BY FS_CardinalityType
<1>2. PICK n \in sizes : \A k \in sizes : n <= k
  BY <1>1, LeastOfNats
<1>3. PICK T \in SUBSET Entries : Bad(T) /\ Cardinality(T) = n
  BY <1>2
<1>4. T # {}
  <2>1. SUFFICES ASSUME T = {} PROVE FALSE
    OBVIOUS
  <2>2. Cardinality(T) = 0
    BY <2>1, FS_EmptySet
  <2>3. InOrder(<<>>, T)
    BY <2>2 DEF InOrder
  <2> QED
    BY <1>3, <2>3
<1>5. PICK e \in T : \A f \in T : e = f \/ Before(e, f)
  BY <1>4, FirstEntry
<1> DEFINE U == T \ {e}
<1>6. IsFiniteSet(U) /\ Cardinality(U) = n - 1 /\ n - 1 \in Nat
  <2>1. IsFiniteSet(U) /\ Cardinality(U) = Cardinality(T) - 1
    BY <1>3, <1>5, FS_RemoveElement
  <2>2. Cardinality(U) \in Nat
    BY <2>1, FS_CardinalityType
  <2> QED
    BY <1>3, <2>1, <2>2
<1>7. PICK s : InOrder(s, U)
  <2>1. ~(n <= n - 1)
    BY <1>2
  <2>2. n - 1 \notin sizes
    BY <1>2, <2>1
  <2> QED
    BY <1>6, <2>2
<1> DEFINE r == [i \in 1 .. n |-> IF i = 1 THEN e ELSE s[i - 1]]
<1>8. r \in [1 .. n -> T]
  <2>1. ASSUME NEW i \in 1 .. n, i # 1
        PROVE  s[i - 1] \in T
    <3>1. i - 1 \in 1 .. n - 1
      BY <1>2, <2>1
    <3> QED
      BY <1>6, <1>7, <3>1 DEF InOrder
  <2> QED
    BY <1>5, <2>1
<1>9. ASSUME NEW i \in 1 .. n, NEW j \in 1 .. n, i < j
      PROVE  Before(r[i], r[j])
  <2>1. j # 1 /\ j - 1 \in 1 .. n - 1
    BY <1>2, <1>9
  <2>2. s[j - 1] \in U /\ r[j] = s[j - 1]
    BY <1>6, <1>7, <2>1 DEF InOrder
  <2>3. CASE i = 1
    BY <1>5, <2>2, <2>3
  <2>4. CASE i # 1
    <3>1. i - 1 \in 1 .. n - 1 /\ i - 1 < j - 1 /\ r[i] = s[i - 1]
      BY <1>2, <1>9, <2>4
    <3> QED
      BY <1>6, <1>7, <2>1, <2>2, <3>1 DEF InOrder
  <2> QED
    BY <2>3, <2>4
<1>10. InOrder(r, T)
  BY <1>3, <1>8, <1>9 DEF InOrder
<1> QED
  BY <1>3, <1>10

(* What getExpired returns: every entry of the set, in a sequence.         *)
LEMMA SortedIsAll ==
  ASSUME NEW S \in SUBSET Entries, IsFiniteSet(S)
  PROVE  /\ Sorted(S) \in Seq(S)
         /\ {Sorted(S)[i] : i \in DOMAIN Sorted(S)} = S
<1> DEFINE n == Cardinality(S)
           s == Sorted(S)
<1>1. n \in Nat
  BY FS_CardinalityType
<1>2. InOrder(s, S)
  BY OrderExists DEF InOrder, Sorted
<1>3. s \in Injection(1 .. n, S)
  <2>1. ASSUME NEW i \in 1 .. n, NEW j \in 1 .. n, s[i] = s[j], i # j
        PROVE  FALSE
    <3>1. s[i] \in Entries /\ s[j] \in Entries
      BY <1>2 DEF InOrder
    <3>2. Before(s[i], s[j]) \/ Before(s[j], s[i])
      BY <1>1, <1>2, <2>1 DEF InOrder
    <3>3. s[i] \in Nat \X Nat
      BY <3>1, TimerAssumption DEF Entries, Time
    <3>4. ~Before(s[i], s[i])
      BY <3>3 DEF Before
    <3> QED
      BY <2>1, <3>2, <3>4
  <2> QED
    BY <1>2, <2>1 DEF InOrder, Injection, IsInjective
<1>4. Cardinality(1 .. n) = n
  BY <1>1, FS_Interval
<1>5. s \in Surjection(1 .. n, S)
  BY <1>3, <1>4, FS_Injection
<1> HIDE DEF s, n
<1> QED
  BY <1>1, <1>5, <1>2 DEF Surjection, s, n, InOrder

-----------------------------------------------------------------------------
(* The inductive invariant.                                                *)

\* The two sets show the same live timers.
ViewsAgree ==
    /\ \A e \in _timers : /\ e[2] \in allocated
                          /\ e[1] = timer[e[2]].expiration
                          /\ <<e[2], timer[e[2]].sequence>> \in _activeTimers
    /\ \A id \in _activeTimers : /\ id[2] = timer[id[1]].sequence
                                 /\ <<timer[id[1]].expiration, id[1]>> \in _timers

\* The timers handleRead has taken out are live and in neither set.
BatchOK ==
    /\ ~_callingExpiredTimers => expired = <<>>
    /\ \A i \in DOMAIN expired : /\ expired[i][2] \in allocated
                                 /\ \A e \in _timers : e[2] # expired[i][2]

\* The timer at address a is neither in the queue nor taken out of it.
Outside(a) ==
    /\ \A e \in _timers : e[2] # a
    /\ \A i \in DOMAIN expired : expired[i][2] # a

\* An insertion that is queued is of a live timer that is not in yet and
\* that nobody else is about to insert.
AddsOK ==
    /\ \A i \in DOMAIN pending : pending[i].op = "add" =>
          /\ pending[i].id[1] \in allocated
          /\ pending[i].id[2] = timer[pending[i].id[1]].sequence
          /\ Outside(pending[i].id[1])
    /\ \A i, j \in DOMAIN pending :
          pending[i].op = "add" /\ pending[j].op = "add"
             /\ pending[i].id[1] = pending[j].id[1] => i = j

\* Sequence numbers are handed out once.
SequencesOK ==
    /\ \A a \in Addresses : timer[a].sequence <= numCreated
    /\ \A a, b \in allocated : timer[a].sequence = timer[b].sequence => a = b
    /\ \A id \in issued \cup cancelled : id[2] <= numCreated
    /\ \A i \in DOMAIN pending : pending[i].id[2] <= numCreated

\* What was cancelled is not in the queue and does not come back to it, by
\* a queued insertion or by reset.
CancelOK ==
    /\ \A id \in cancelled : id \notin _activeTimers
    /\ \A i \in DOMAIN pending : pending[i].op = "add" => pending[i].id \notin cancelled
    /\ \A i \in DOMAIN expired :
          LET id == <<expired[i][2], timer[expired[i][2]].sequence>>
          IN  id \in cancelled => id \in _cancelingTimers

Consistent == ViewsAgree /\ BatchOK /\ AddsOK /\ SequencesOK /\ CancelOK

QueueInv == TypeOK /\ Consistent

TaskType == [op : {"add", "cancel"}, id : Ids]

(* There are finitely many timers in the queue: each has a sequence number *)
(* of its own.                                                             *)
LEMMA TimersFinite ==
  ASSUME QueueInv
  PROVE  IsFiniteSet(_timers)
<1> USE DEF QueueInv, Consistent, TypeOK
<1> DEFINE f == [e \in _timers |-> timer[e[2]].sequence]
<1>1. f \in [_timers -> 0 .. MaxTimers]
  BY DEF Entries, TimerType
<1>2. ASSUME NEW e \in _timers, NEW g \in _timers, f[e] = f[g]
      PROVE  e = g
  <2>1. e \in Time \X Addresses /\ g \in Time \X Addresses
    BY DEF Entries
  <2>2. e[2] = g[2]
    BY <1>2 DEF ViewsAgree, SequencesOK
  <2>3. e[1] = timer[e[2]].expiration /\ g[1] = timer[g[2]].expiration
    BY DEF ViewsAgree
  <2> QED
    BY <2>1, <2>2, <2>3
<1>3. f \in Injection(_timers, 0 .. MaxTimers)
  BY <1>1, <1>2 DEF Injection, IsInjective
<1>4. IsFiniteSet(0 .. MaxTimers)
  BY TimerAssumption, FS_Interval
<1> QED
  BY <1>3, <1>4, FS_Injection

(* getExpired returns the timers that are due.                             *)
LEMMA ExpiredIsDue ==
  ASSUME QueueInv, HandleRead
  PROVE  /\ expired' \in Seq(Entries)
         /\ {expired'[i] : i \in DOMAIN expired'} = Due
<1>1. Due \in SUBSET Entries /\ IsFiniteSet(Due)
  <2>1. Due \in SUBSET _timers
    BY DEF Due
  <2>2. Due \in SUBSET Entries
    BY <2>1 DEF QueueInv, TypeOK
  <2> QED
    BY <2>1, <2>2, TimersFinite, FS_Subset
<1>2. expired' = Sorted(Due)
  BY DEF HandleRead
<1>3. expired' \in Seq(Due) /\ {expired'[i] : i \in DOMAIN expired'} = Due
  BY <1>1, <1>2, SortedIsAll
<1>4. expired' \in Seq(Entries)
  BY <1>1, <1>3, SeqMonotonic
<1> QED
  BY <1>3, <1>4

(* A new Timer has its place, a sequence number nobody has, and an         *)
(* expiration not before now.                                              *)
LEMMA NewTimerType ==
  ASSUME TypeOK, NEW a \in Addresses, NEW d \in Delays, NEW i \in Intervals,
         NewTimer(a, d, i)
  PROVE  /\ timer' \in [Addresses -> TimerType]
         /\ allocated' \subseteq Addresses
         /\ numCreated' \in 0 .. MaxTimers
         /\ now + d \in Time
         /\ <<now + d, a>> \in Entries
         /\ <<a, numCreated + 1>> \in Ids
<1> USE TimerAssumption DEF TypeOK
<1>1. numCreated + 1 \in 0 .. MaxTimers /\ now + d \in Time
  BY DEF NewTimer, Time
<1>2. [expiration |-> now + d, interval |-> i, sequence |-> numCreated + 1] \in TimerType
  BY <1>1 DEF TimerType
<1> QED
  BY <1>1, <1>2 DEF NewTimer, Entries, Ids

(* The numbers a Timer holds.                                              *)
LEMMA FieldsAreNumbers ==
  ASSUME NEW r \in TimerType
  PROVE  r.expiration \in Nat /\ r.interval \in Nat /\ r.sequence \in Nat
<1>1. r.interval \in Intervals \cup {0}
  BY DEF TimerType
<1>2. r.expiration \in Nat /\ r.sequence \in 0 .. MaxTimers
  BY DEF TimerType, Time
<1>3. Intervals \cup {0} \subseteq Nat
  BY TimerAssumption
<1>4. r.interval \in Nat
  BY <1>1, <1>3, Zenon
<1> QED
  BY <1>2, <1>4

(* Every step keeps the types.                                             *)
LEMMA TypeStep ==
  ASSUME QueueInv, [Next]_vars
  PROVE  TypeOK'
<1> USE TimerAssumption DEF QueueInv, TypeOK
<1>1. ASSUME NEW a \in Addresses, NEW d \in Delays, NEW i \in Intervals,
             AddTimer(a, d, i)
      PROVE  TypeOK'
  <2>1. NewTimer(a, d, i)
    BY <1>1 DEF AddTimer
  <2>2. /\ _timers' \subseteq Entries /\ _activeTimers' \subseteq Ids
        /\ issued' \subseteq Ids
    <3>1. <<now + d, a>> \in Entries /\ <<a, numCreated + 1>> \in Ids
      BY <2>1, NewTimerType
    <3> QED
      BY <1>1, <3>1 DEF AddTimer, addTimerInLoop
  <2>3. timerfd' \in Time \cup {Disarmed}
    BY <1>1, <2>1, NewTimerType DEF AddTimer, addTimerInLoop, ArmedFor, Time
  <2> QED
    BY <1>1, <2>1, <2>2, <2>3, NewTimerType DEF AddTimer, callVars
<1>2. ASSUME NEW t \in Threads, NEW a \in Addresses, NEW d \in Delays,
             NEW i \in Intervals, AddTimerFrom(t, a, d, i)
      PROVE  TypeOK'
  <2>1. NewTimer(a, d, i)
    BY <1>2 DEF AddTimerFrom
  <2>2. [op |-> "add", id |-> <<a, numCreated + 1>>] \in TaskType
    BY <2>1, NewTimerType DEF TaskType, Ids
  <2>3. pending' \in Seq(TaskType)
    BY <1>2, <2>2, AppendProperties DEF AddTimerFrom, TaskType
  <2> QED
    BY <1>2, <2>1, <2>3, NewTimerType DEF AddTimerFrom, callVars, TaskType
<1>3. ASSUME NEW id \in Ids, cancelInLoop(id)
      PROVE  /\ _timers' \subseteq Entries /\ _activeTimers' \subseteq Ids
             /\ allocated' \subseteq Addresses /\ _cancelingTimers' \subseteq Ids
             /\ cancelled' \subseteq Ids /\ missed' \subseteq Ids
  <2>1. /\ _timers' \subseteq _timers /\ _activeTimers' \subseteq _activeTimers
        /\ allocated' \subseteq allocated
    BY <1>3 DEF cancelInLoop
  <2>2. _cancelingTimers' \subseteq _cancelingTimers \cup {id}
    BY <1>3 DEF cancelInLoop
  <2>3. cancelled' \subseteq cancelled \cup {id} /\ missed' \subseteq missed \cup {id}
    BY <1>3 DEF cancelInLoop
  <2> QED
    BY <2>1, <2>2, <2>3
<1>4. ASSUME NEW id \in issued, Cancel(id)
      PROVE  TypeOK'
  BY <1>3, <1>4 DEF Cancel, callVars
<1>5. ASSUME NEW t \in Threads, NEW id \in issued, CancelFrom(t, id)
      PROVE  TypeOK'
  <2>1. [op |-> "cancel", id |-> id] \in TaskType
    BY DEF TaskType
  <2>2. pending' \in Seq(TaskType)
    BY <1>5, <2>1, AppendProperties DEF CancelFrom, TaskType
  <2> QED
    BY <1>5, <2>2 DEF CancelFrom, callVars, queueVars, TaskType
<1>6. ASSUME NEW t \in Threads, AddTimerReturns(t)
      PROVE  TypeOK'
  <2>1. returning[t] \in Addresses
    BY <1>6 DEF AddTimerReturns
  <2>2. timer[returning[t]].sequence \in 0 .. MaxTimers
    BY <2>1 DEF TimerType
  <2>3. issued' \subseteq Ids
    BY <1>6, <2>1, <2>2 DEF AddTimerReturns, Ids
  <2>4. returning' \in [Threads -> Addresses \cup {NoAddress}]
    BY <1>6 DEF AddTimerReturns
  <2> QED
    BY <1>6, <2>3, <2>4 DEF AddTimerReturns, callVars, queueVars
<1>7. CASE RunQueued
  <2>1. /\ pending' \in Seq(TaskType) /\ Head(pending) \in TaskType
    BY <1>7, HeadTailProperties DEF RunQueued, TaskType
  <2>2. Head(pending).id \in Ids
    BY <2>1 DEF TaskType
  <2>3. /\ _timers' \subseteq Entries /\ _activeTimers' \subseteq Ids
        /\ allocated' \subseteq Addresses /\ _cancelingTimers' \subseteq Ids
        /\ cancelled' \subseteq Ids /\ missed' \subseteq Ids
        /\ timerfd' \in Time \cup {Disarmed}
    <3> DEFINE id == Head(pending).id
    <3>1. id[1] \in Addresses /\ id = <<id[1], id[2]>>
      BY <2>2 DEF Ids
    <3>2. timer[id[1]].expiration \in Time
      BY <3>1 DEF TimerType
    <3>3. CASE addTimerInLoop(id[1], timer[id[1]].expiration, id[2])
               /\ UNCHANGED <<allocated, _cancelingTimers, cancelled, missed>>
      <4>1. <<timer[id[1]].expiration, id[1]>> \in Entries /\ <<id[1], id[2]>> \in Ids
        BY <2>2, <3>1, <3>2 DEF Entries
      <4>2. timerfd' \in Time \cup {Disarmed}
        BY <3>2, <3>3 DEF addTimerInLoop, ArmedFor, Time
      <4> QED
        BY <3>3, <4>1, <4>2 DEF addTimerInLoop
    <3>4. CASE cancelInLoop(id) /\ UNCHANGED timerfd
      BY <1>3, <2>2, <3>4
    <3> QED
      BY <1>7, <3>3, <3>4 DEF RunQueued
  <2> QED
    BY <1>7, <2>1, <2>3 DEF RunQueued, callVars, TaskType
<1>8. CASE HandleRead
  <2>1. expired' \in Seq(Entries)
    BY <1>8, ExpiredIsDue
  <2>2. next' \in 0 .. Len(expired')
    BY <1>8, <2>1 DEF HandleRead
  <2>3. _timers' \subseteq Entries /\ _activeTimers' \subseteq Ids
    BY <1>8 DEF HandleRead
  <2> QED
    BY <1>8, <2>1, <2>2, <2>3 DEF HandleRead, userVars
<1>9. CASE RunTimer
  BY <1>9 DEF RunTimer, queueVars, userVars
<1>10. CASE Reset
  <2>1. Restarted \subseteq Addresses
    <3>1. ASSUME NEW i \in DOMAIN expired
          PROVE  expired[i][2] \in Addresses
      <4>1. expired[i] \in Entries
        BY <3>1, ElementOfSeq
      <4> QED
        BY <4>1 DEF Entries
    <3> QED
      BY <3>1 DEF Restarted
  <2>2. ASSUME NEW a \in Restarted
        PROVE  /\ now + timer[a].interval \in Time
               /\ [timer[a] EXCEPT !.expiration = now + timer[a].interval] \in TimerType
    <3>1. timer[a] \in TimerType
      BY <2>1
    <3>3. timer[a].interval \in Nat
      BY <3>1, FieldsAreNumbers
    <3>4. now + timer[a].interval \in Nat
      BY <3>3
    <3> QED
      BY <3>1, <3>4 DEF TimerType, Time
  <2>3. timer' \in [Addresses -> TimerType]
    BY <1>10, <2>2 DEF Reset
  <2>4. _timers' \subseteq Entries /\ _activeTimers' \subseteq Ids
    <3>1. ASSUME NEW a \in Restarted
          PROVE  <<timer'[a].expiration, a>> \in Entries /\ <<a, timer[a].sequence>> \in Ids
      <4>1. a \in Addresses /\ timer[a] \in TimerType /\ timer'[a] \in TimerType
        BY <2>1, <2>3
      <4> QED
        BY <4>1 DEF Entries, Ids, TimerType
    <3> QED
      BY <1>10, <3>1 DEF Reset
  <2>5. timerfd' \in Time \cup {Disarmed}
    <3>1. CASE _timers' = {}
      BY <1>10, <3>1 DEF Reset
    <3>2. CASE _timers' # {}
      <4> DEFINE e == CHOOSE e \in _timers' : \A f \in _timers' : e = f \/ Before(e, f)
      <4>1. e \in Entries
        BY <2>4, <3>2, FirstEntry
      <4>2. timerfd' = ArmedFor(e[1])
        BY <1>10, <3>2 DEF Reset
      <4>3. e[1] \in Nat
        BY <4>1 DEF Entries, Time
      <4> HIDE DEF e
      <4> QED
        BY <4>2, <4>3 DEF ArmedFor, Time
    <3> QED
      BY <3>1, <3>2
  <2>6. allocated' \subseteq Addresses
    BY <1>10 DEF Reset
  <2>7. expired' = <<>> /\ next' = 0 /\ _callingExpiredTimers' = FALSE
    BY <1>10 DEF Reset
  <2>8. expired' \in Seq(Entries) /\ next' \in 0 .. Len(expired')
    BY <2>7
  <2> QED
    BY <1>10, <2>3, <2>4, <2>5, <2>6, <2>7, <2>8
    DEF Reset, userVars
<1>11. CASE Tick
  BY <1>11 DEF Tick, queueVars, callVars, userVars
<1>12. CASE UNCHANGED vars
  BY <1>12 DEF vars, queueVars, callVars, userVars
<1> QED
  BY <1>1, <1>2, <1>4, <1>5, <1>6, <1>7, <1>8, <1>9, <1>10, <1>11, <1>12
  DEF Next, LoopStep

-----------------------------------------------------------------------------
(* Every step keeps the queue consistent.                                  *)

(* What is in the queue, in the batch and in the tasks is at an address.   *)
LEMMA Places ==
  ASSUME TypeOK
  PROVE  /\ \A e \in _timers : e[1] \in Nat /\ e[2] \in Addresses /\ e = <<e[1], e[2]>>
         /\ \A id \in Ids : id[1] \in Addresses /\ id[2] \in Nat /\ id = <<id[1], id[2]>>
         /\ \A i \in DOMAIN expired : expired[i] \in Entries /\ expired[i][2] \in Addresses
         /\ \A i \in DOMAIN pending : pending[i] \in TaskType /\ pending[i].id \in Ids
         /\ \A a \in Addresses : timer[a] \in TimerType /\ timer[a].sequence \in Nat
<1>1. \A e \in _timers : e[1] \in Nat /\ e[2] \in Addresses /\ e = <<e[1], e[2]>>
  BY DEF TypeOK, Entries, Time
<1>2. \A id \in Ids : id[1] \in Addresses /\ id[2] \in Nat /\ id = <<id[1], id[2]>>
  BY DEF Ids
<1>3. ASSUME NEW i \in DOMAIN expired
      PROVE  expired[i] \in Entries /\ expired[i][2] \in Addresses
  <2>1. expired[i] \in Entries
    BY ElementOfSeq DEF TypeOK
  <2> QED
    BY <2>1 DEF Entries
<1>4. ASSUME NEW i \in DOMAIN pending
      PROVE  pending[i] \in TaskType /\ pending[i].id \in Ids
  <2>1. pending \in Seq(TaskType)
    BY DEF TypeOK, TaskType
  <2>2. pending[i] \in TaskType
    BY <2>1, ElementOfSeq
  <2> QED
    BY <2>2 DEF TaskType
<1>5. ASSUME NEW a \in Addresses
      PROVE  timer[a] \in TimerType /\ timer[a].sequence \in Nat
  <2>1. timer[a] \in TimerType
    BY DEF TypeOK
  <2> QED
    BY <2>1, FieldsAreNumbers
<1> QED
  BY <1>1, <1>2, <1>3, <1>4, <1>5

(* A task more in the queue.                                               *)
LEMMA AppendCases ==
  ASSUME NEW S, NEW s \in Seq(S), NEW x \in S, NEW i \in DOMAIN Append(s, x)
  PROVE  \/ i \in DOMAIN s /\ Append(s, x)[i] = s[i]
         \/ i \notin DOMAIN s /\ i = Len(s) + 1 /\ Append(s, x)[i] = x
  OBVIOUS

(* The first task taken out.                                               *)
LEMMA TailCases ==
  ASSUME NEW S, NEW s \in Seq(S), s # <<>>, NEW i \in DOMAIN Tail(s)
  PROVE  i \in Nat /\ i + 1 \in DOMAIN s /\ i + 1 # 1 /\ Tail(s)[i] = s[i + 1]
  OBVIOUS

(* A new Timer is at an address that nothing in the queue refers to, and   *)
(* the other ones are as they were.                                        *)
LEMMA NewTimerFresh ==
  ASSUME QueueInv, NEW a \in Addresses, NEW d \in Delays, NEW i \in Intervals,
         NewTimer(a, d, i)
  PROVE  /\ a \notin allocated /\ allocated' = allocated \cup {a}
         /\ numCreated' = numCreated + 1
         /\ timer'[a].expiration = now + d /\ timer'[a].sequence = numCreated + 1
         /\ \A b \in Addresses : b # a => timer'[b] = timer[b]
         /\ Outside(a)
         /\ \A id \in _activeTimers : id[1] # a
         /\ \A k \in DOMAIN pending : pending[k].op = "add" => pending[k].id[1] # a
<1> USE DEF QueueInv, Consistent
<1>1. a \notin allocated /\ allocated' = allocated \cup {a} /\ numCreated' = numCreated + 1
  BY DEF NewTimer
<1>2. /\ timer'[a].expiration = now + d /\ timer'[a].sequence = numCreated + 1
      /\ \A b \in Addresses : b # a => timer'[b] = timer[b]
  BY DEF NewTimer, TypeOK
<1>3. Outside(a)
  BY <1>1 DEF Outside, ViewsAgree, BatchOK
<1>4. ASSUME NEW id \in _activeTimers
      PROVE  id[1] # a
  <2>1. <<timer[id[1]].expiration, id[1]>> \in _timers
    BY DEF ViewsAgree
  <2> QED
    BY <1>1, <2>1 DEF ViewsAgree
<1>5. \A k \in DOMAIN pending : pending[k].op = "add" => pending[k].id[1] # a
  BY <1>1 DEF AddsOK
<1> QED
  BY <1>1, <1>2, <1>3, <1>4, <1>5

(* addTimer on the loop's thread.                                          *)
LEMMA AddTimerStep ==
  ASSUME QueueInv, NEW a \in Addresses, NEW d \in Delays, NEW i \in Intervals,
         AddTimer(a, d, i)
  PROVE  Consistent'
<1> USE DEF QueueInv, Consistent
<1> DEFINE n == numCreated + 1
<1>1. /\ a \notin allocated /\ allocated' = allocated \cup {a}
      /\ numCreated' = n
      /\ timer'[a].expiration = now + d /\ timer'[a].sequence = n
      /\ \A b \in Addresses : b # a => timer'[b] = timer[b]
      /\ Outside(a)
      /\ \A id \in _activeTimers : id[1] # a
      /\ \A k \in DOMAIN pending : pending[k].op = "add" => pending[k].id[1] # a
  BY NewTimerFresh DEF AddTimer
<1>2. /\ _timers' = _timers \cup {<<now + d, a>>}
      /\ _activeTimers' = _activeTimers \cup {<<a, n>>}
      /\ issued' = issued \cup {<<a, n>>}
      /\ UNCHANGED <<_callingExpiredTimers, expired, pending, cancelled, _cancelingTimers>>
  BY DEF AddTimer, addTimerInLoop, callVars
<1>3. numCreated \in Nat /\ n \in Nat /\ n > numCreated
  BY DEF TypeOK
<1>4. /\ _activeTimers \subseteq Ids /\ cancelled \subseteq Ids /\ issued \subseteq Ids
      /\ allocated \subseteq Addresses
  BY DEF TypeOK
<1> HIDE DEF n
<1>5. ViewsAgree'
  <2>1. ASSUME NEW e \in _timers'
        PROVE  /\ e[2] \in allocated' /\ e[1] = timer'[e[2]].expiration
               /\ <<e[2], timer'[e[2]].sequence>> \in _activeTimers'
    <3>1. CASE e \in _timers
      <4>1. e[2] \in Addresses /\ e[2] # a
        BY <1>1, <3>1, Places DEF Outside
      <4> QED
        BY <1>1, <1>2, <3>1, <4>1 DEF ViewsAgree
    <3>2. CASE e = <<now + d, a>>
      BY <1>1, <1>2, <3>2
    <3> QED
      BY <1>2, <3>1, <3>2
  <2>2. ASSUME NEW id \in _activeTimers'
        PROVE  /\ id[2] = timer'[id[1]].sequence
               /\ <<timer'[id[1]].expiration, id[1]>> \in _timers'
    <3>1. CASE id \in _activeTimers
      <4>1. id[1] \in Addresses /\ id[1] # a
        BY <1>1, <1>4, <3>1, Places
      <4> QED
        BY <1>1, <1>2, <3>1, <4>1 DEF ViewsAgree
    <3>2. CASE id = <<a, n>>
      BY <1>1, <1>2, <3>2
    <3> QED
      BY <1>2, <3>1, <3>2
  <2> QED
    BY <2>1, <2>2 DEF ViewsAgree
<1>6. BatchOK'
  <2>1. ASSUME NEW k \in DOMAIN expired
        PROVE  /\ expired[k][2] \in allocated'
               /\ \A e \in _timers' : e[2] # expired[k][2]
    BY <1>1, <1>2 DEF BatchOK, Outside
  <2> QED
    BY <1>2, <2>1 DEF BatchOK
<1>7. AddsOK'
  <2>1. ASSUME NEW k \in DOMAIN pending, pending[k].op = "add"
        PROVE  /\ pending[k].id[1] \in allocated'
               /\ pending[k].id[2] = timer'[pending[k].id[1]].sequence
               /\ \A e \in _timers' : e[2] # pending[k].id[1]
               /\ \A j \in DOMAIN expired' : expired'[j][2] # pending[k].id[1]
    <3>1. pending[k].id[1] \in Addresses /\ pending[k].id[1] # a
      BY <1>1, <2>1, Places
    <3> QED
      BY <1>1, <1>2, <2>1, <3>1 DEF AddsOK, Outside
  <2> QED
    BY <1>2, <2>1 DEF AddsOK, Outside
<1>8. SequencesOK'
  <2>1. \A b \in Addresses : timer'[b].sequence <= n
    BY <1>1, <1>3, Places DEF SequencesOK
  <2>2. ASSUME NEW b \in allocated', NEW c \in allocated',
               timer'[b].sequence = timer'[c].sequence, b # c
        PROVE  FALSE
    <3>1. \A x \in allocated : timer'[x] = timer[x] /\ timer[x].sequence <= numCreated
                                  /\ timer[x].sequence \in Nat
      BY <1>1, <1>4, Places DEF SequencesOK
    <3>2. CASE b \in allocated /\ c \in allocated
      BY <2>2, <3>1, <3>2 DEF SequencesOK
    <3>3. CASE b = a \/ c = a
      BY <1>1, <1>3, <2>2, <3>1, <3>3
    <3> QED
      BY <1>1, <3>2, <3>3
  <2>3. ASSUME NEW id \in issued' \cup cancelled'
        PROVE  id[2] <= n
    <3>1. CASE id \in issued \cup cancelled
      BY <1>3, <1>4, <3>1, Places DEF SequencesOK
    <3>2. CASE id = <<a, n>>
      BY <1>3, <3>2
    <3> QED
      BY <1>2, <3>1, <3>2
  <2>4. \A k \in DOMAIN pending : pending[k].id[2] <= n
    BY <1>3, Places DEF SequencesOK
  <2> QED
    BY <1>1, <1>2, <2>1, <2>2, <2>3, <2>4 DEF SequencesOK
<1>9. CancelOK'
  <2>1. ASSUME NEW id \in cancelled
        PROVE  id \notin _activeTimers'
    <3>1. id # <<a, n>>
      BY <1>3 DEF SequencesOK
    <3> QED
      BY <1>2, <3>1 DEF CancelOK
  <2>2. \A k \in DOMAIN expired : timer'[expired[k][2]] = timer[expired[k][2]]
    BY <1>1, Places DEF Outside
  <2> QED
    BY <1>2, <2>1, <2>2 DEF CancelOK
<1> QED
  BY <1>5, <1>6, <1>7, <1>8, <1>9

(* addTimer on another thread: the insertion is queued.                    *)
LEMMA AddTimerFromStep ==
  ASSUME QueueInv, NEW t \in Threads, NEW a \in Addresses, NEW d \in Delays,
         NEW i \in Intervals, AddTimerFrom(t, a, d, i)
  PROVE  Consistent'
<1> USE DEF QueueInv, Consistent
<1> DEFINE n == numCreated + 1
           task == [op |-> "add", id |-> <<a, n>>]
<1>1. /\ a \notin allocated /\ allocated' = allocated \cup {a}
      /\ numCreated' = n
      /\ timer'[a].sequence = n
      /\ \A b \in Addresses : b # a => timer'[b] = timer[b]
      /\ Outside(a)
      /\ \A id \in _activeTimers : id[1] # a
      /\ \A k \in DOMAIN pending : pending[k].op = "add" => pending[k].id[1] # a
  BY NewTimerFresh DEF AddTimerFrom
<1>2. /\ pending' = Append(pending, task)
      /\ UNCHANGED <<_timers, _activeTimers, issued, _callingExpiredTimers, expired,
                     cancelled, _cancelingTimers>>
  BY DEF AddTimerFrom, callVars
<1>3. numCreated \in Nat /\ n \in Nat /\ n > numCreated
  BY DEF TypeOK
<1>4. /\ _activeTimers \subseteq Ids /\ cancelled \subseteq Ids /\ issued \subseteq Ids
      /\ allocated \subseteq Addresses /\ pending \in Seq(TaskType)
  BY DEF TypeOK, TaskType
<1>5. task \in TaskType
  <2>1. <<a, n>> \in Ids
    BY NewTimerType DEF AddTimerFrom
  <2> QED
    BY <2>1 DEF TaskType
<1>6. task.op = "add" /\ task.id = <<a, n>>
  OBVIOUS
<1> HIDE DEF n, task
<1>7. ASSUME NEW k \in DOMAIN pending'
      PROVE  \/ k \in DOMAIN pending /\ pending'[k] = pending[k]
             \/ k \notin DOMAIN pending /\ k = Len(pending) + 1 /\ pending'[k] = task
  BY <1>2, <1>4, <1>5, AppendCases
<1>8. ViewsAgree'
  <2>1. \A e \in _timers : timer'[e[2]] = timer[e[2]]
    BY <1>1, Places DEF Outside
  <2>2. \A id \in _activeTimers : timer'[id[1]] = timer[id[1]]
    BY <1>1, <1>4, Places
  <2> QED
    BY <1>1, <1>2, <2>1, <2>2 DEF ViewsAgree
<1>9. BatchOK'
  BY <1>1, <1>2 DEF BatchOK
<1>10. AddsOK'
  <2>2. ASSUME NEW k \in DOMAIN pending', pending'[k].op = "add"
        PROVE  /\ pending'[k].id[1] \in allocated'
               /\ pending'[k].id[2] = timer'[pending'[k].id[1]].sequence
               /\ \A e \in _timers' : e[2] # pending'[k].id[1]
               /\ \A j \in DOMAIN expired' : expired'[j][2] # pending'[k].id[1]
    <3>1. CASE k \in DOMAIN pending /\ pending'[k] = pending[k]
      <4> DEFINE b == pending[k].id[1]
      <4>1. b \in Addresses /\ b # a
        BY <1>1, <2>2, <3>1, Places
      <4>2. b \in allocated /\ pending[k].id[2] = timer[b].sequence /\ Outside(b)
        BY <2>2, <3>1 DEF AddsOK
      <4>3. pending'[k].id[1] = b /\ pending'[k].id[2] = pending[k].id[2]
        BY <3>1
      <4> HIDE DEF b
      <4>4. b \in allocated' /\ pending'[k].id[2] = timer'[b].sequence
        BY <1>1, <4>1, <4>2, <4>3
      <4>5. /\ \A e \in _timers' : e[2] # b
            /\ \A j \in DOMAIN expired' : expired'[j][2] # b
        BY <1>2, <4>2 DEF Outside
      <4> QED
        BY <4>3, <4>4, <4>5
    <3>2. CASE pending'[k] = task
      <4>1. pending'[k].id[1] = a /\ pending'[k].id[2] = n
        BY <1>6, <3>2
      <4>2. a \in allocated' /\ n = timer'[a].sequence /\ Outside(a)
        BY <1>1
      <4>3. /\ \A e \in _timers' : e[2] # a
            /\ \A j \in DOMAIN expired' : expired'[j][2] # a
        BY <1>2, <4>2 DEF Outside
      <4> QED
        BY <4>1, <4>2, <4>3
    <3> QED
      BY <1>7, <3>1, <3>2
  <2>3. ASSUME NEW j \in DOMAIN pending', NEW k \in DOMAIN pending',
               pending'[j].op = "add", pending'[k].op = "add",
               pending'[j].id[1] = pending'[k].id[1]
        PROVE  j = k
    BY <1>1, <1>6, <1>7, <2>3 DEF AddsOK
  <2> QED
    BY <2>2, <2>3 DEF AddsOK, Outside
<1>11. SequencesOK'
  <2>1. \A b \in Addresses : timer'[b].sequence <= n
    BY <1>1, <1>3, Places DEF SequencesOK
  <2>2. ASSUME NEW b \in allocated', NEW c \in allocated',
               timer'[b].sequence = timer'[c].sequence, b # c
        PROVE  FALSE
    <3>1. \A x \in allocated : timer'[x] = timer[x] /\ timer[x].sequence <= numCreated
                                  /\ timer[x].sequence \in Nat
      BY <1>1, <1>4, Places DEF SequencesOK
    <3>2. CASE b \in allocated /\ c \in allocated
      BY <2>2, <3>1, <3>2 DEF SequencesOK
    <3>3. CASE b = a \/ c = a
      BY <1>1, <1>3, <2>2, <3>1, <3>3
    <3> QED
      BY <1>1, <3>2, <3>3
  <2>3. ASSUME NEW id \in issued' \cup cancelled'
        PROVE  id[2] <= n
    BY <1>2, <1>3, <1>4, Places DEF SequencesOK
  <2>4. ASSUME NEW k \in DOMAIN pending'
        PROVE  pending'[k].id[2] <= n
    <3>1. CASE k \in DOMAIN pending /\ pending'[k] = pending[k]
      BY <1>3, <3>1, Places DEF SequencesOK
    <3>2. CASE pending'[k] = task
      BY <1>3, <1>6, <3>2
    <3> QED
      BY <1>7, <3>1, <3>2
  <2> QED
    BY <1>1, <2>1, <2>2, <2>3, <2>4 DEF SequencesOK
<1>12. CancelOK'
  <2>1. <<a, n>> \notin cancelled
    BY <1>3 DEF SequencesOK
  <2>2. \A k \in DOMAIN expired : timer'[expired[k][2]] = timer[expired[k][2]]
    BY <1>1, Places DEF Outside
  <2>3. \A k \in DOMAIN pending' : pending'[k].op = "add" => pending'[k].id \notin cancelled
    BY <1>6, <1>7, <2>1 DEF CancelOK
  <2> QED
    BY <1>2, <2>2, <2>3 DEF CancelOK
<1> QED
  BY <1>8, <1>9, <1>10, <1>11, <1>12

(* What cancelInLoop takes out: the entry of its own timer, if that timer  *)
(* is active, and nothing else.  An active timer is neither in the batch   *)
(* nor queued for insertion.                                               *)
LEMMA CancelEffect ==
  ASSUME QueueInv, NEW id \in Ids, cancelInLoop(id)
  PROVE  \/ /\ id \in _activeTimers
            /\ \A e \in _timers : e \in _timers' <=> e[2] # id[1]
            /\ _timers' \subseteq _timers
            /\ _activeTimers' = _activeTimers \ {id}
            /\ allocated' = allocated \ {id[1]}
            /\ _cancelingTimers' = _cancelingTimers
            /\ cancelled' = cancelled \cup {id}
            /\ \A i \in DOMAIN expired : expired[i][2] # id[1]
            /\ \A i \in DOMAIN pending : pending[i].op = "add" => pending[i].id[1] # id[1]
         \/ /\ id \notin _activeTimers
            /\ UNCHANGED <<_timers, _activeTimers, allocated>>
            /\ _cancelingTimers \subseteq _cancelingTimers'
            /\ \/ cancelled' = cancelled
               \/ /\ ~AddQueued(id)
                  /\ cancelled' = cancelled \cup {id}
                  /\ _callingExpiredTimers => id \in _cancelingTimers'
<1> USE DEF QueueInv, Consistent
<1>1. CASE id \in _activeTimers
  <2> DEFINE a == id[1]
             entry == <<timer[a].expiration, a>>
  <2>1. find(id) = {id}
    BY <1>1 DEF find
  <2>2. /\ _timers' = _timers \ {entry} /\ _activeTimers' = _activeTimers \ {id}
        /\ allocated' = allocated \ {a} /\ _cancelingTimers' = _cancelingTimers
    BY <2>1 DEF cancelInLoop
  <2>3. entry \in _timers
    BY <1>1 DEF ViewsAgree
  <2>4. /\ \A i \in DOMAIN expired : expired[i][2] # a
        /\ \A i \in DOMAIN pending : pending[i].op = "add" => pending[i].id[1] # a
    BY <2>3 DEF BatchOK, AddsOK, Outside
  <2>5. cancelled' = cancelled \cup {id}
    <3>1. ~AddQueued(id)
      BY <2>4 DEF AddQueued
    <3> QED
      BY <3>1 DEF cancelInLoop
  <2>6. ASSUME NEW e \in _timers
        PROVE  e = entry <=> e[2] = a
    <3>1. e = <<e[1], e[2]>> /\ e[1] = timer[e[2]].expiration
      BY Places DEF ViewsAgree
    <3> QED
      BY <3>1
  <2> HIDE DEF a, entry
  <2>7. \A e \in _timers : e \in _timers' <=> e[2] # a
    BY <2>2, <2>6
  <2> QED
    BY <1>1, <2>2, <2>4, <2>5, <2>7 DEF a
<1>2. CASE id \notin _activeTimers
  <2>1. find(id) = {}
    BY <1>2 DEF find
  <2>2. UNCHANGED <<_timers, _activeTimers, allocated>>
    BY <2>1 DEF cancelInLoop
  <2>3. /\ _cancelingTimers \subseteq _cancelingTimers'
        /\ _callingExpiredTimers => id \in _cancelingTimers'
    BY <2>1 DEF cancelInLoop
  <2>4. cancelled' = cancelled \/ (~AddQueued(id) /\ cancelled' = cancelled \cup {id})
    BY DEF cancelInLoop
  <2> QED
    BY <1>2, <2>2, <2>3, <2>4
<1> QED
  BY <1>1, <1>2

(* cancelInLoop, called by the user (m = 0) or as the first task of the    *)
(* loop's queue (m = 1).                                                   *)
LEMMA CancelStep ==
  ASSUME QueueInv, NEW id \in Ids, cancelInLoop(id), id[2] <= numCreated,
         UNCHANGED <<timer, numCreated, issued, callVars>>,
         NEW m \in Nat,
         \A i \in DOMAIN pending' :
            i \in Nat /\ i + m \in DOMAIN pending /\ pending'[i] = pending[i + m]
  PROVE  Consistent'
<1> USE DEF QueueInv, Consistent
<1>1. UNCHANGED <<timer, numCreated, issued, _callingExpiredTimers, expired>>
  BY DEF callVars
<1>2. /\ _timers' \subseteq _timers /\ _activeTimers' \subseteq _activeTimers
      /\ _cancelingTimers \subseteq _cancelingTimers'
      /\ cancelled' \subseteq cancelled \cup {id}
  BY CancelEffect
<1>3. /\ \A e \in _timers' : e[2] \in allocated'
      /\ \A i \in DOMAIN expired : expired[i][2] \in allocated'
      /\ \A i \in DOMAIN pending : pending[i].op = "add" => pending[i].id[1] \in allocated'
  <2>1. /\ \A e \in _timers : e[2] \in allocated
        /\ \A i \in DOMAIN expired : expired[i][2] \in allocated
        /\ \A i \in DOMAIN pending : pending[i].op = "add" => pending[i].id[1] \in allocated
    BY DEF ViewsAgree, BatchOK, AddsOK
  <2> QED
    BY <1>2, <2>1, CancelEffect
<1>4. ViewsAgree'
  <2>1. ASSUME NEW e \in _timers'
        PROVE  <<e[2], timer[e[2]].sequence>> \in _activeTimers'
    <3>1. /\ e \in _timers /\ <<e[2], timer[e[2]].sequence>> \in _activeTimers
      BY <1>2 DEF ViewsAgree
    <3>2. CASE e[2] # id[1]
      <4>1. <<e[2], timer[e[2]].sequence>> # id
        BY <3>2
      <4> QED
        BY <3>1, <4>1, CancelEffect
    <3>3. CASE e[2] = id[1]
      BY <3>1, <3>3, CancelEffect
    <3> QED
      BY <3>2, <3>3
  <2>2. ASSUME NEW active \in _activeTimers'
        PROVE  <<timer[active[1]].expiration, active[1]>> \in _timers'
    <3> DEFINE e == <<timer[active[1]].expiration, active[1]>>
    <3>1. /\ active \in _activeTimers /\ active \in Ids
          /\ active[2] = timer[active[1]].sequence /\ e \in _timers /\ e[2] = active[1]
      BY <1>2 DEF ViewsAgree, TypeOK
    <3>2. CASE id \in _activeTimers
      <4>1. id[2] = timer[id[1]].sequence
        BY <3>2 DEF ViewsAgree
      <4>2. active # id
        BY <3>2, CancelEffect
      <4>3. active = <<active[1], active[2]>> /\ id = <<id[1], id[2]>>
        BY <3>1, Places
      <4>4. active[1] # id[1]
        BY <3>1, <4>1, <4>2, <4>3
      <4> HIDE DEF e
      <4> QED
        BY <3>1, <3>2, <4>4, CancelEffect DEF e
    <3>3. CASE id \notin _activeTimers
      BY <3>1, <3>3, CancelEffect
    <3> QED
      BY <3>2, <3>3
  <2>3. /\ \A e \in _timers' : e[1] = timer[e[2]].expiration
        /\ \A active \in _activeTimers' : active[2] = timer[active[1]].sequence
    BY <1>2 DEF ViewsAgree
  <2> QED
    BY <1>1, <1>3, <2>1, <2>2, <2>3 DEF ViewsAgree
<1>5. BatchOK'
  BY <1>1, <1>2, <1>3 DEF BatchOK
<1>6. AddsOK'
  <2>1. ASSUME NEW i \in DOMAIN pending', pending'[i].op = "add"
        PROVE  /\ pending'[i].id[1] \in allocated'
               /\ pending'[i].id[2] = timer'[pending'[i].id[1]].sequence
               /\ \A e \in _timers' : e[2] # pending'[i].id[1]
               /\ \A j \in DOMAIN expired' : expired'[j][2] # pending'[i].id[1]
    <3>1. i + m \in DOMAIN pending /\ pending'[i] = pending[i + m]
      OBVIOUS
    <3>2. /\ pending[i + m].id[2] = timer[pending[i + m].id[1]].sequence
          /\ \A e \in _timers : e[2] # pending[i + m].id[1]
          /\ \A j \in DOMAIN expired : expired[j][2] # pending[i + m].id[1]
      BY <2>1, <3>1 DEF AddsOK, Outside
    <3> QED
      BY <1>1, <1>2, <1>3, <2>1, <3>1, <3>2
  <2>2. ASSUME NEW i \in DOMAIN pending', NEW j \in DOMAIN pending',
               pending'[i].op = "add", pending'[j].op = "add",
               pending'[i].id[1] = pending'[j].id[1]
        PROVE  i = j
    <3>1. i + m = j + m
      BY <2>2 DEF AddsOK
    <3> QED
      BY <3>1
  <2> QED
    BY <2>1, <2>2 DEF AddsOK, Outside
<1>7. SequencesOK'
  <2>1. allocated' \subseteq allocated
    BY CancelEffect
  <2>2. \A i \in DOMAIN pending' : pending'[i].id[2] <= numCreated
    BY DEF SequencesOK
  <2>3. ASSUME NEW x \in issued' \cup cancelled'
        PROVE  x[2] <= numCreated
    BY <1>1, <1>2 DEF SequencesOK
  <2> QED
    BY <1>1, <2>1, <2>2, <2>3 DEF SequencesOK
<1>8. CancelOK'
  <2>1. ASSUME NEW x \in cancelled'
        PROVE  x \notin _activeTimers'
    <3>1. CASE x \in cancelled
      BY <1>2, <3>1 DEF CancelOK
    <3>2. CASE x = id
      BY <3>2, CancelEffect
    <3> QED
      BY <1>2, <3>1, <3>2
  <2>2. ASSUME NEW i \in DOMAIN pending', pending'[i].op = "add"
        PROVE  pending'[i].id \notin cancelled'
    <3>1. i + m \in DOMAIN pending /\ pending'[i] = pending[i + m]
      OBVIOUS
    <3>2. pending[i + m].id \notin cancelled
      BY <2>2, <3>1 DEF CancelOK
    <3>3. pending[i + m].id = id => AddQueued(id)
      <4>1. pending[i + m] = [op |-> pending[i + m].op, id |-> pending[i + m].id]
        BY <3>1, Places DEF TaskType
      <4> QED
        BY <2>2, <3>1, <4>1 DEF AddQueued
    <3>4. CASE id \in _activeTimers
      BY <2>2, <3>1, <3>2, <3>4, CancelEffect
    <3>5. CASE id \notin _activeTimers
      BY <3>1, <3>2, <3>3, <3>5, CancelEffect
    <3> QED
      BY <3>4, <3>5
  <2>3. ASSUME NEW i \in DOMAIN expired
        PROVE  LET x == <<expired[i][2], timer[expired[i][2]].sequence>>
               IN  x \in cancelled' => x \in _cancelingTimers'
    <3> DEFINE x == <<expired[i][2], timer[expired[i][2]].sequence>>
    <3>1. CASE x \in cancelled
      BY <1>2, <3>1 DEF CancelOK
    <3>2. CASE x = id
      <4>1. id[1] = expired[i][2] /\ _callingExpiredTimers
        BY <3>2 DEF BatchOK
      <4> QED
        BY <3>1, <3>2, <4>1, CancelEffect
    <3> QED
      BY <1>2, <3>1, <3>2
  <2> QED
    BY <1>1, <2>1, <2>2, <2>3 DEF CancelOK
<1> QED
  BY <1>4, <1>5, <1>6, <1>7, <1>8

(* addTimerInLoop as the first task of the loop's queue.                   *)
LEMMA RunAddStep ==
  ASSUME QueueInv, RunQueued, Head(pending).op = "add",
         addTimerInLoop(Head(pending).id[1], timer[Head(pending).id[1]].expiration,
                        Head(pending).id[2]),
         UNCHANGED <<allocated, _cancelingTimers, cancelled, missed>>
  PROVE  Consistent'
<1> USE DEF QueueInv, Consistent
<1> DEFINE a == pending[1].id[1]
           s == pending[1].id[2]
<1>1. /\ pending \in Seq(TaskType) /\ pending # <<>> /\ pending' = Tail(pending)
      /\ ~_callingExpiredTimers
      /\ UNCHANGED <<timer, numCreated, issued, _callingExpiredTimers, expired>>
  BY DEF RunQueued, TypeOK, TaskType, callVars
<1>2. 1 \in DOMAIN pending /\ Head(pending) = pending[1] /\ pending[1].op = "add"
  BY <1>1
<1>3. \A i \in DOMAIN pending' : /\ i \in Nat /\ i + 1 \in DOMAIN pending /\ i + 1 # 1
                                 /\ pending'[i] = pending[i + 1]
  BY <1>1, TailCases
<1>4. expired = <<>>
  BY <1>1 DEF BatchOK
<1>5. a \in allocated /\ s = timer[a].sequence /\ Outside(a) /\ pending[1].id \notin cancelled
  BY <1>2 DEF AddsOK, CancelOK
<1>6. a \in Addresses /\ pending[1].id = <<a, s>>
  BY <1>2, Places
<1>7. /\ _timers' = _timers \cup {<<timer[a].expiration, a>>}
      /\ _activeTimers' = _activeTimers \cup {<<a, s>>}
  BY <1>2 DEF addTimerInLoop
<1>8. \A i \in DOMAIN pending' : pending'[i].op = "add" => pending'[i].id[1] # a
  BY <1>2, <1>3 DEF AddsOK
<1> HIDE DEF a, s
<1>9. ViewsAgree'
  BY <1>1, <1>5, <1>7 DEF ViewsAgree
<1>10. BatchOK'
  BY <1>1, <1>4 DEF BatchOK
<1>11. AddsOK'
  <2>1. ASSUME NEW i \in DOMAIN pending', pending'[i].op = "add"
        PROVE  /\ pending'[i].id[1] \in allocated'
               /\ pending'[i].id[2] = timer'[pending'[i].id[1]].sequence
               /\ \A e \in _timers' : e[2] # pending'[i].id[1]
               /\ \A j \in DOMAIN expired' : expired'[j][2] # pending'[i].id[1]
    <3>1. i + 1 \in DOMAIN pending /\ pending'[i] = pending[i + 1]
      BY <1>3
    <3>2. /\ pending[i + 1].id[1] \in allocated
          /\ pending[i + 1].id[2] = timer[pending[i + 1].id[1]].sequence
          /\ \A e \in _timers : e[2] # pending[i + 1].id[1]
      BY <2>1, <3>1 DEF AddsOK, Outside
    <3>3. pending'[i].id[1] # a
      BY <1>8, <2>1
    <3> QED
      BY <1>1, <1>4, <1>7, <3>1, <3>2, <3>3
  <2>2. ASSUME NEW i \in DOMAIN pending', NEW j \in DOMAIN pending',
               pending'[i].op = "add", pending'[j].op = "add",
               pending'[i].id[1] = pending'[j].id[1]
        PROVE  i = j
    <3>1. i + 1 = j + 1
      BY <1>3, <2>2 DEF AddsOK
    <3> QED
      BY <1>3, <3>1
  <2> QED
    BY <2>1, <2>2 DEF AddsOK, Outside
<1>12. SequencesOK'
  BY <1>1, <1>3 DEF SequencesOK
<1>13. CancelOK'
  BY <1>1, <1>3, <1>4, <1>5, <1>6, <1>7 DEF CancelOK
<1> QED
  BY <1>9, <1>10, <1>11, <1>12, <1>13

(* handleRead takes the timers that are due out of both sets.              *)
LEMMA HandleReadStep ==
  ASSUME QueueInv, HandleRead
  PROVE  Consistent'
<1> USE DEF QueueInv, Consistent
<1>1. {expired'[i] : i \in DOMAIN expired'} = Due
  BY ExpiredIsDue
<1>2. /\ _callingExpiredTimers' = TRUE
      /\ _timers' = _timers \ Due
      /\ _activeTimers' =
            {id \in _activeTimers : \A e \in Due : id # <<e[2], timer[e[2]].sequence>>}
      /\ UNCHANGED <<timer, allocated, numCreated, pending, issued, cancelled>>
  BY DEF HandleRead, userVars
<1>3. Due \subseteq _timers
  BY DEF Due
<1>4. \A i \in DOMAIN expired' : expired'[i] \in Due
  BY <1>1
<1> HIDE DEF Due
<1>5. ASSUME NEW e \in _timers, NEW f \in _timers, e[2] = f[2]
      PROVE  e = f
  <2>1. e[1] = timer[e[2]].expiration /\ f[1] = timer[f[2]].expiration
    BY DEF ViewsAgree
  <2>2. e = <<e[1], e[2]>> /\ f = <<f[1], f[2]>>
    BY Places
  <2> QED
    BY <1>5, <2>1, <2>2
<1>6. ViewsAgree'
  <2>1. ASSUME NEW e \in _timers'
        PROVE  <<e[2], timer[e[2]].sequence>> \in _activeTimers'
    <3>1. e \in _timers /\ e \notin Due /\ <<e[2], timer[e[2]].sequence>> \in _activeTimers
      BY <1>2 DEF ViewsAgree
    <3>2. ASSUME NEW f \in Due
          PROVE  <<e[2], timer[e[2]].sequence>> # <<f[2], timer[f[2]].sequence>>
      <4>1. f[2] # e[2]
        BY <1>3, <1>5, <3>1
      <4> QED
        BY <4>1
    <3> QED
      BY <1>2, <3>1, <3>2
  <2>2. ASSUME NEW id \in _activeTimers'
        PROVE  <<timer[id[1]].expiration, id[1]>> \in _timers'
    <3> DEFINE e == <<timer[id[1]].expiration, id[1]>>
    <3>1. /\ id \in _activeTimers /\ e \in _timers /\ id[2] = timer[id[1]].sequence
          /\ id = <<id[1], id[2]>>
      BY <1>2, Places DEF ViewsAgree, TypeOK
    <3>2. e[2] = id[1]
      OBVIOUS
    <3> HIDE DEF e
    <3>3. e \notin Due
      BY <1>2, <3>1, <3>2
    <3> QED
      BY <1>2, <3>1, <3>3 DEF e
  <2> QED
    BY <1>2, <2>1, <2>2 DEF ViewsAgree
<1>7. BatchOK'
  <2>1. ASSUME NEW i \in DOMAIN expired'
        PROVE  /\ expired'[i][2] \in allocated'
               /\ \A e \in _timers' : e[2] # expired'[i][2]
    <3>1. expired'[i] \in Due /\ expired'[i] \in _timers
      BY <1>3, <1>4
    <3> QED
      BY <1>2, <1>5, <3>1 DEF ViewsAgree
  <2> QED
    BY <1>2, <2>1 DEF BatchOK
<1>8. AddsOK'
  <2>1. ASSUME NEW i \in DOMAIN pending, pending[i].op = "add"
        PROVE  /\ \A e \in _timers' : e[2] # pending[i].id[1]
               /\ \A j \in DOMAIN expired' : expired'[j][2] # pending[i].id[1]
    <3>1. \A e \in _timers : e[2] # pending[i].id[1]
      BY <2>1 DEF AddsOK, Outside
    <3> QED
      BY <1>2, <1>3, <1>4, <3>1
  <2> QED
    BY <1>2, <2>1 DEF AddsOK, Outside
<1>9. SequencesOK'
  BY <1>2 DEF SequencesOK
<1>10. CancelOK'
  <2>1. ASSUME NEW i \in DOMAIN expired'
        PROVE  <<expired'[i][2], timer[expired'[i][2]].sequence>> \notin cancelled
    <3>1. expired'[i] \in _timers
      BY <1>3, <1>4
    <3> QED
      BY <3>1 DEF ViewsAgree, CancelOK
  <2> QED
    BY <1>2, <2>1 DEF CancelOK
<1> QED
  BY <1>6, <1>7, <1>8, <1>9, <1>10

(* reset puts the repeating timers of the batch back and deletes the       *)
(* others.                                                                 *)
LEMMA ResetStep ==
  ASSUME QueueInv, Reset
  PROVE  Consistent'
<1> USE DEF QueueInv, Consistent
<1> DEFINE Batch == {expired[i][2] : i \in DOMAIN expired}
<1>1. /\ expired' = <<>>
      /\ _timers' = _timers \cup {<<timer'[a].expiration, a>> : a \in Restarted}
      /\ _activeTimers' = _activeTimers \cup {<<a, timer[a].sequence>> : a \in Restarted}
      /\ allocated' = allocated \ (Batch \ Restarted)
      /\ UNCHANGED <<numCreated, pending, issued, cancelled>>
  BY DEF Reset, userVars
<1>2. /\ Batch \subseteq allocated /\ Batch \subseteq Addresses
      /\ \A e \in _timers : e[2] \notin Batch
      /\ \A i \in DOMAIN pending : pending[i].op = "add" => pending[i].id[1] \notin Batch
  BY Places DEF BatchOK, AddsOK, Outside
<1>3. /\ Restarted \subseteq Batch
      /\ \A a \in Restarted : <<a, timer[a].sequence>> \notin _cancelingTimers
  BY DEF Restarted
<1>4. \A a \in Batch : <<a, timer[a].sequence>> \in cancelled
                         => <<a, timer[a].sequence>> \in _cancelingTimers
  BY DEF CancelOK
<1>5. \A a \in Addresses : timer'[a].sequence = timer[a].sequence
  <2>1. ASSUME NEW a \in Addresses
        PROVE  timer'[a].sequence = timer[a].sequence
    <3>1. timer[a] \in TimerType
      BY DEF TypeOK
    <3>2. timer'[a] = IF a \in Restarted
                      THEN [timer[a] EXCEPT !.expiration = now + timer[a].interval]
                      ELSE timer[a]
      BY DEF Reset
    <3> QED
      BY <3>1, <3>2 DEF TimerType
  <2> QED
    BY <2>1
<1>6. \A a \in Addresses \ Batch : timer'[a] = timer[a]
  BY <1>3 DEF Reset
<1>7. \A id \in _activeTimers : id \in Ids /\ id[1] \in Addresses /\ id[1] \notin Batch
  <2>1. ASSUME NEW id \in _activeTimers
        PROVE  id[1] \notin Batch
    <3>1. <<timer[id[1]].expiration, id[1]>> \in _timers
      BY DEF ViewsAgree
    <3> QED
      BY <1>2, <3>1
  <2> QED
    BY <2>1, Places DEF TypeOK
<1> HIDE DEF Batch
<1>8. ViewsAgree'
  <2>1. ASSUME NEW e \in _timers'
        PROVE  /\ e[2] \in allocated' /\ e[1] = timer'[e[2]].expiration
               /\ <<e[2], timer'[e[2]].sequence>> \in _activeTimers'
    <3>1. CASE e \in _timers
      <4>1. e[2] \in Addresses \ Batch
        BY <1>2, <3>1, Places
      <4> QED
        BY <1>1, <1>6, <3>1, <4>1 DEF ViewsAgree
    <3>2. CASE e \notin _timers
      <4>1. PICK a \in Restarted : e = <<timer'[a].expiration, a>>
        BY <1>1, <3>2
      <4>2. a \in allocated /\ a \in Addresses
        BY <1>2, <1>3
      <4> QED
        BY <1>1, <1>5, <4>1, <4>2
    <3> QED
      BY <3>1, <3>2
  <2>2. ASSUME NEW id \in _activeTimers'
        PROVE  /\ id[2] = timer'[id[1]].sequence
               /\ <<timer'[id[1]].expiration, id[1]>> \in _timers'
    <3>1. CASE id \in _activeTimers
      BY <1>1, <1>6, <1>7, <3>1 DEF ViewsAgree
    <3>2. CASE id \notin _activeTimers
      <4>1. PICK a \in Restarted : id = <<a, timer[a].sequence>>
        BY <1>1, <3>2
      <4>2. a \in Addresses
        BY <1>2, <1>3
      <4> QED
        BY <1>1, <1>5, <4>1, <4>2
    <3> QED
      BY <3>1, <3>2
  <2> QED
    BY <2>1, <2>2 DEF ViewsAgree
<1>9. BatchOK'
  BY <1>1 DEF BatchOK
<1>10. AddsOK'
  <2>1. ASSUME NEW i \in DOMAIN pending, pending[i].op = "add"
        PROVE  /\ pending[i].id[1] \in allocated'
               /\ pending[i].id[2] = timer'[pending[i].id[1]].sequence
               /\ \A e \in _timers' : e[2] # pending[i].id[1]
    <3>1. /\ pending[i].id[1] \in allocated /\ pending[i].id[1] \in Addresses \ Batch
          /\ pending[i].id[2] = timer[pending[i].id[1]].sequence
          /\ \A e \in _timers : e[2] # pending[i].id[1]
      BY <1>2, <2>1, Places DEF AddsOK, Outside
    <3>2. ASSUME NEW e \in _timers'
          PROVE  e[2] # pending[i].id[1]
      <4>1. CASE e \in _timers
        BY <3>1, <4>1
      <4>2. CASE e \notin _timers
        BY <1>1, <1>3, <3>1, <4>2
      <4> QED
        BY <4>1, <4>2
    <3> QED
      BY <1>1, <1>5, <3>1, <3>2
  <2> QED
    BY <1>1, <2>1 DEF AddsOK, Outside
<1>11. SequencesOK'
  <2>1. allocated' \subseteq allocated /\ allocated \subseteq Addresses
    BY <1>1 DEF TypeOK
  <2> QED
    BY <1>1, <1>5, <2>1 DEF SequencesOK
<1>12. CancelOK'
  <2>1. ASSUME NEW id \in cancelled
        PROVE  id \notin _activeTimers'
    BY <1>1, <1>3, <1>4 DEF CancelOK
  <2> QED
    BY <1>1, <2>1 DEF CancelOK
<1> QED
  BY <1>8, <1>9, <1>10, <1>11, <1>12

(* The other steps: a cancellation queued by another thread, a TimerId     *)
(* returned to one, a callback, the clock.                                 *)
LEMMA ConsistentStep ==
  ASSUME QueueInv, [Next]_vars
  PROVE  Consistent'
<1> USE DEF QueueInv
<1>1. ASSUME NEW id \in issued, Cancel(id)
      PROVE  Consistent'
  <2>1. id \in Ids /\ id[2] <= numCreated
    BY DEF Consistent, SequencesOK, TypeOK
  <2>2. \A i \in DOMAIN pending' :
           i \in Nat /\ i + 0 \in DOMAIN pending /\ pending'[i] = pending[i + 0]
    <3>1. pending' = pending /\ pending \in Seq(TaskType)
      BY <1>1 DEF Cancel, TypeOK, TaskType
    <3> QED
      BY <3>1
  <2>3. cancelInLoop(id) /\ UNCHANGED <<timer, numCreated, issued, callVars>>
    BY <1>1 DEF Cancel
  <2> QED
    BY <2>1, <2>2, <2>3, CancelStep
<1>2. ASSUME NEW t \in Threads, NEW id \in issued, CancelFrom(t, id)
      PROVE  Consistent'
  <2> USE DEF Consistent
  <2> DEFINE task == [op |-> "cancel", id |-> id]
  <2>1. /\ pending' = Append(pending, task)
        /\ UNCHANGED <<timer, allocated, _timers, _activeTimers, numCreated, _cancelingTimers,
                       _callingExpiredTimers, expired, issued, cancelled>>
    BY <1>2 DEF CancelFrom, queueVars, callVars
  <2>2. pending \in Seq(TaskType) /\ task \in TaskType /\ id[2] <= numCreated
    BY DEF TypeOK, TaskType, SequencesOK
  <2>3. task.op = "cancel" /\ task.id = id
    OBVIOUS
  <2> HIDE DEF task
  <2>4. ASSUME NEW k \in DOMAIN pending'
        PROVE  \/ k \in DOMAIN pending /\ pending'[k] = pending[k]
               \/ pending'[k].op = "cancel" /\ pending'[k].id[2] <= numCreated
    BY <2>1, <2>2, <2>3, AppendCases
  <2>5. ViewsAgree' /\ BatchOK'
    BY <2>1 DEF ViewsAgree, BatchOK
  <2>6. AddsOK'
    BY <2>1, <2>4 DEF AddsOK, Outside
  <2>7. SequencesOK'
    BY <2>1, <2>4 DEF SequencesOK
  <2>8. CancelOK'
    BY <2>1, <2>4 DEF CancelOK
  <2> QED
    BY <2>5, <2>6, <2>7, <2>8
<1>3. ASSUME NEW t \in Threads, AddTimerReturns(t)
      PROVE  Consistent'
  <2> USE DEF Consistent
  <2>1. /\ UNCHANGED <<timer, allocated, _timers, _activeTimers, numCreated, _cancelingTimers,
                       _callingExpiredTimers, expired, pending, cancelled>>
        /\ issued' = issued \cup {<<returning[t], timer[returning[t]].sequence>>}
        /\ returning[t] \in Addresses
    BY <1>3 DEF AddTimerReturns, queueVars, callVars, TypeOK
  <2>2. ViewsAgree' /\ BatchOK'
    BY <2>1 DEF ViewsAgree, BatchOK
  <2>3. AddsOK'
    BY <2>1 DEF AddsOK, Outside
  <2>4. SequencesOK'
    BY <2>1 DEF SequencesOK
  <2>5. CancelOK'
    BY <2>1 DEF CancelOK
  <2> QED
    BY <2>2, <2>3, <2>4, <2>5
<1>4. CASE RunQueued
  <2>1. /\ pending \in Seq(TaskType) /\ pending # <<>> /\ pending' = Tail(pending)
        /\ UNCHANGED <<timer, numCreated, callVars, issued>>
    BY <1>4 DEF RunQueued, TypeOK, TaskType
  <2>2. 1 \in DOMAIN pending /\ Head(pending) = pending[1]
    BY <2>1
  <2>3. CASE /\ Head(pending).op = "add"
             /\ addTimerInLoop(Head(pending).id[1], timer[Head(pending).id[1]].expiration,
                               Head(pending).id[2])
             /\ UNCHANGED <<allocated, _cancelingTimers, cancelled, missed>>
    BY <1>4, <2>3, RunAddStep
  <2>4. CASE cancelInLoop(Head(pending).id)
    <3>1. Head(pending).id \in Ids /\ Head(pending).id[2] <= numCreated
      BY <2>2, Places DEF Consistent, SequencesOK
    <3>2. \A i \in DOMAIN pending' :
             i \in Nat /\ i + 1 \in DOMAIN pending /\ pending'[i] = pending[i + 1]
      BY <2>1, TailCases
    <3> QED
      BY <2>1, <2>4, <3>1, <3>2, CancelStep
  <2> QED
    BY <1>4, <2>3, <2>4 DEF RunQueued
<1>5. CASE \/ RunTimer \/ Tick \/ UNCHANGED vars
  <2>1. UNCHANGED <<timer, allocated, _timers, _activeTimers, numCreated, _cancelingTimers,
                    _callingExpiredTimers, expired, pending, issued, cancelled>>
    BY <1>5 DEF RunTimer, Tick, vars, queueVars, callVars, userVars
  <2> QED
    BY <2>1 DEF Consistent, ViewsAgree, BatchOK, AddsOK, Outside, SequencesOK, CancelOK
<1> QED
  BY <1>1, <1>2, <1>3, <1>4, <1>5, AddTimerStep, AddTimerFromStep, HandleReadStep, ResetStep
  DEF Next, LoopStep

-----------------------------------------------------------------------------
(* The theorems.                                                           *)

(* The invariant holds in every reachable state.                           *)
LEMMA QueueInvariant == Spec => []QueueInv
<1>1. Init => QueueInv
  <2> SUFFICES ASSUME Init PROVE QueueInv
    OBVIOUS
  <2>1. NoTimer \in TimerType
    BY TimerAssumption DEF NoTimer, TimerType, Time
  <2>2. TypeOK
    <3>1. expired \in Seq(Entries) /\ next \in 0 .. Len(expired)
      BY DEF Init
    <3>2. pending \in Seq([op : {"add", "cancel"}, id : Ids])
      BY DEF Init
    <3>3. timer \in [Addresses -> TimerType] /\ now \in 0 .. MaxTime /\ numCreated \in 0 .. MaxTimers
      BY <2>1, TimerAssumption DEF Init
    <3> QED
      BY <3>1, <3>2, <3>3 DEF Init, TypeOK
  <2>3. \A a \in Addresses : timer[a].sequence = 0
    BY DEF Init, NoTimer
  <2>4. Consistent
    BY <2>3 DEF Init, Consistent, ViewsAgree, BatchOK, AddsOK, SequencesOK, CancelOK
  <2> QED
    BY <2>2, <2>4 DEF QueueInv
<1>2. QueueInv /\ [Next]_vars => QueueInv'
  BY TypeStep, ConsistentStep DEF QueueInv
<1> QED
  BY <1>1, <1>2, PTL DEF Spec

(* Type correctness.                                                       *)
THEOREM TypeCorrect == Spec => []TypeOK
<1>1. QueueInv => TypeOK
  BY DEF QueueInv
<1> QED
  BY <1>1, QueueInvariant, PTL

(* _timers and _activeTimers stay two views of the same live timers, and   *)
(* no timer is deleted while handleRead has to run or restart it or while  *)
(* its insertion is queued: the assertions of TimerQueue.cpp:132-146 and   *)
(* 172-185 never fail, whatever is added and cancelled from where.         *)
THEOREM SetsAlwaysAgree == Spec => []SetsAgree
<1>1. ASSUME QueueInv
      PROVE  SetsAgree
  <2> USE DEF QueueInv, Consistent
  <2> DEFINE held == {e[2] : e \in _timers}
  <2>1. held \subseteq allocated
    BY <1>1 DEF ViewsAgree
  <2>2. _timers = {<<timer[a].expiration, a>> : a \in held}
    <3>1. ASSUME NEW e \in _timers
          PROVE  e = <<timer[e[2]].expiration, e[2]>>
      BY <1>1, Places DEF ViewsAgree
    <3> QED
      BY <3>1
  <2>3. _activeTimers = {<<a, timer[a].sequence>> : a \in held}
    <3>1. ASSUME NEW id \in _activeTimers
          PROVE  /\ id = <<id[1], timer[id[1]].sequence>> /\ id[1] \in held
      <4>1. /\ id = <<id[1], id[2]>> /\ id[2] = timer[id[1]].sequence
            /\ <<timer[id[1]].expiration, id[1]>> \in _timers
        BY <1>1, Places DEF ViewsAgree, TypeOK
      <4> QED
        BY <4>1
    <3>2. \A a \in held : <<a, timer[a].sequence>> \in _activeTimers
      BY <1>1 DEF ViewsAgree
    <3> HIDE DEF held
    <3> QED
      BY <3>1, <3>2
  <2>4. ExpiredAreLive
    BY <1>1 DEF ExpiredAreLive, BatchOK, AddsOK
  <2> QED
    BY <2>1, <2>2, <2>3, <2>4 DEF SetsAgree
<1> QED
  BY <1>1, QueueInvariant, PTL

(* A cancelled timer never comes back: not by reset, and not by an         *)
(* insertion that was still queued.                                        *)
THEOREM CancelledNeverReturns == Spec => []CancelledStaysOut
<1>1. QueueInv => CancelledStaysOut
  BY DEF QueueInv, Consistent, CancelOK, CancelledStaysOut
<1> QED
  BY <1>1, QueueInvariant, PTL

(* A timer leaves the queue only because it is due or because its own      *)
(* TimerId was cancelled, though its address may have held other timers    *)
(* whose TimerIds are still in the users' hands.                           *)
THEOREM OnlyOwnCancelRemoves == Spec => OnlyOwnCancel
<1> DEFINE Removed == \A id \in _activeTimers \ _activeTimers' :
              id \in cancelled' \/ \E i \in DOMAIN expired' : expired'[i][2] = id[1]
<1>1. ASSUME QueueInv, [Next]_vars
      PROVE  [Removed]_vars
  <2> SUFFICES ASSUME Next, NEW id \in _activeTimers \ _activeTimers'
               PROVE  id \in cancelled' \/ \E i \in DOMAIN expired' : expired'[i][2] = id[1]
    BY <1>1
  <2>1. ASSUME NEW x \in Ids, cancelInLoop(x)
        PROVE  id \in cancelled'
    BY <1>1, <2>1, CancelEffect
  <2>2. CASE \E x \in issued : Cancel(x)
    BY <1>1, <2>1, <2>2 DEF Cancel, QueueInv, TypeOK
  <2>3. CASE RunQueued
    <3>1. CASE cancelInLoop(Head(pending).id)
      <4>1. pending \in Seq(TaskType) /\ pending # <<>>
        BY <1>1, <2>3 DEF RunQueued, QueueInv, TypeOK, TaskType
      <4>2. Head(pending) \in TaskType
        BY <4>1, HeadTailProperties
      <4>3. Head(pending).id \in Ids
        BY <4>2 DEF TaskType
      <4> QED
        BY <2>1, <3>1, <4>3
    <3>2. CASE addTimerInLoop(Head(pending).id[1], timer[Head(pending).id[1]].expiration,
                              Head(pending).id[2])
      BY <3>2 DEF addTimerInLoop
    <3> QED
      BY <2>3, <3>1, <3>2 DEF RunQueued
  <2>4. CASE HandleRead
    <3>1. PICK e \in Due : id = <<e[2], timer[e[2]].sequence>>
      BY <2>4 DEF HandleRead
    <3>2. PICK i \in DOMAIN expired' : expired'[i] = e
      BY <1>1, <2>4, ExpiredIsDue
    <3> QED
      BY <3>1, <3>2
  <2>5. CASE Reset
    BY <2>5 DEF Reset
  <2>6. ASSUME NEW a \in Addresses, NEW d \in Delays, NEW i \in Intervals,
               AddTimer(a, d, i)
        PROVE  FALSE
    BY <2>6 DEF AddTimer, addTimerInLoop
  <2>7. ASSUME NEW t \in Threads, NEW a \in Addresses, NEW d \in Delays, NEW i \in Intervals,
               AddTimerFrom(t, a, d, i)
        PROVE  FALSE
    BY <2>7 DEF AddTimerFrom
  <2>8. ASSUME NEW t \in Threads, NEW x \in issued, CancelFrom(t, x)
        PROVE  FALSE
    BY <2>8 DEF CancelFrom, queueVars
  <2>9. ASSUME NEW t \in Threads, AddTimerReturns(t)
        PROVE  FALSE
    BY <2>9 DEF AddTimerReturns, queueVars
  <2>10. CASE RunTimer \/ Tick
    BY <2>10 DEF RunTimer, Tick, queueVars
  <2> QED
    BY <2>2, <2>3, <2>4, <2>5, <2>6, <2>7, <2>8, <2>9, <2>10 DEF Next, LoopStep
<1> QED
  BY <1>1, QueueInvariant, PTL DEF Spec, OnlyOwnCancel

\* The timerfd is armed in time for an entry.
Covered(e, fd, t) == fd # Disarmed /\ (fd <= e[1] \/ fd <= t + 1)

(* Setting the timerfd for one entry covers every entry that is not        *)
(* earlier.                                                                *)
LEMMA ArmedCovers ==
  ASSUME TypeOK, NEW when \in Nat, NEW e \in Entries, when <= e[1]
  PROVE  Covered(e, ArmedFor(when), now)
<1>1. now \in Nat /\ e[1] \in Nat
  BY DEF TypeOK, Entries, Time
<1> QED
  BY <1>1 DEF Covered, ArmedFor, Disarmed

(* An insertion keeps the timerfd in time: it is set when the new timer is *)
(* the earliest one, and otherwise the earliest one has already set it.    *)
LEMMA AddCovers ==
  ASSUME TypeOK, TypeOK', TimerfdCovers, ~_callingExpiredTimers, now' = now,
         NEW a \in Addresses, NEW when \in Nat, NEW s, addTimerInLoop(a, when, s)
  PROVE  TimerfdCovers'
<1>1. /\ _timers' = _timers \cup {<<when, a>>}
      /\ timerfd' = IF EarliestChanged(when) THEN ArmedFor(when) ELSE timerfd
  BY DEF addTimerInLoop
<1>2. /\ \A e \in _timers' : e \in Entries /\ e[1] \in Nat
      /\ now \in Nat /\ timerfd \in Int
  <2>1. /\ _timers' \subseteq Entries /\ now \in Nat /\ timerfd \in Int
    BY TimerAssumption DEF TypeOK, Disarmed, Time
  <2> QED
    BY <2>1 DEF Entries, Time
<1>3. ASSUME NEW e \in _timers'
      PROVE  Covered(e, timerfd', now)
  <2>1. CASE EarliestChanged(when)
    <3>1. when <= e[1]
      <4>1. CASE e \in _timers
        BY <1>2, <2>1, <4>1 DEF EarliestChanged
      <4>2. CASE e = <<when, a>>
        BY <4>2
      <4> QED
        BY <1>1, <4>1, <4>2
    <3> QED
      BY <1>1, <1>2, <2>1, <3>1, ArmedCovers
  <2>2. CASE ~EarliestChanged(when)
    <3>1. PICK f \in _timers : ~(when < f[1])
      BY <2>2 DEF EarliestChanged
    <3>2. /\ Covered(f, timerfd, now) /\ (e \in _timers => Covered(e, timerfd, now))
      BY DEF TimerfdCovers, Covered
    <3>3. f[1] \in Nat /\ f[1] <= when
      BY <1>1, <1>2, <3>1
    <3>4. e \in _timers \/ e[1] = when
      BY <1>1
    <3>5. timerfd' = timerfd
      BY <1>1, <2>2
    <3> QED
      BY <1>2, <3>2, <3>3, <3>4, <3>5 DEF Covered
  <2> QED
    BY <2>1, <2>2
<1> QED
  BY <1>3 DEF TimerfdCovers, Covered

(* The timerfd is always armed in time for the earliest timer: no timer    *)
(* waits for a wakeup nobody has asked the kernel for.                     *)
THEOREM TimerfdAlwaysCovers == Spec => []TimerfdCovers
<1>1. Init => TimerfdCovers
  BY DEF Init, TimerfdCovers
<1>2. ASSUME QueueInv, QueueInv', TimerfdCovers, [Next]_vars
      PROVE  TimerfdCovers'
  <2> USE <1>2 DEF QueueInv
  <2>1. ASSUME NEW a \in Addresses, NEW d \in Delays, NEW i \in Intervals,
               AddTimer(a, d, i)
        PROVE  TimerfdCovers'
    <3>1. /\ addTimerInLoop(a, now + d, numCreated + 1) /\ now' = now
          /\ _callingExpiredTimers' = _callingExpiredTimers
      BY <2>1 DEF AddTimer, callVars
    <3>2. now + d \in Nat
      BY <2>1, NewTimerType DEF AddTimer, Time
    <3>3. CASE _callingExpiredTimers
      BY <3>1, <3>3 DEF TimerfdCovers
    <3>4. CASE ~_callingExpiredTimers
      BY <3>1, <3>2, <3>4, AddCovers
    <3> QED
      BY <3>3, <3>4
  <2>2. CASE RunQueued
    <3> DEFINE id == Head(pending).id
    <3>1. /\ ~_callingExpiredTimers /\ now' = now
          /\ _callingExpiredTimers' = _callingExpiredTimers
      BY <2>2 DEF RunQueued, callVars
    <3>2. id \in Ids
      <4>1. pending \in Seq(TaskType) /\ pending # <<>>
        BY <2>2 DEF RunQueued, TypeOK, TaskType
      <4>2. Head(pending) \in TaskType
        BY <4>1, HeadTailProperties
      <4> QED
        BY <4>2 DEF TaskType
    <3>3. id[1] \in Addresses /\ timer[id[1]].expiration \in Nat
      BY <3>2, Places, FieldsAreNumbers
    <3>4. CASE addTimerInLoop(id[1], timer[id[1]].expiration, id[2])
      BY <3>1, <3>3, <3>4, AddCovers
    <3>5. CASE cancelInLoop(id) /\ UNCHANGED timerfd
      <4>1. _timers' \subseteq _timers
        BY <3>5 DEF cancelInLoop
      <4> QED
        BY <3>1, <3>5, <4>1 DEF TimerfdCovers
    <3> QED
      BY <2>2, <3>4, <3>5 DEF RunQueued
  <2>3. CASE HandleRead
    BY <2>3 DEF HandleRead, TimerfdCovers
  <2>4. CASE Reset
    <3>1. SUFFICES ASSUME _timers' # {}
                   PROVE  \A e \in _timers' : Covered(e, timerfd', now')
      BY DEF TimerfdCovers, Covered
    <3> DEFINE first == CHOOSE e \in _timers' : \A f \in _timers' : e = f \/ Before(e, f)
    <3>2. _timers' \subseteq Entries
      BY DEF TypeOK
    <3>3. first \in _timers' /\ \A f \in _timers' : first = f \/ Before(first, f)
      BY <3>1, <3>2, FirstEntry
    <3>4. timerfd' = ArmedFor(first[1]) /\ now' = now
      BY <2>4, <3>1 DEF Reset
    <3> HIDE DEF first
    <3>5. ASSUME NEW f \in _timers'
          PROVE  first[1] \in Nat /\ first[1] <= f[1]
      <4>1. first[1] \in Nat /\ f[1] \in Nat
        BY <3>2, <3>3 DEF Entries, Time
      <4>2. first = f \/ Before(first, f)
        BY <3>3
      <4> QED
        BY <4>1, <4>2 DEF Before
    <3> QED
      BY <3>2, <3>4, <3>5, ArmedCovers
  <2>5. ASSUME NEW id \in issued, Cancel(id)
        PROVE  TimerfdCovers'
    <3>1. _timers' \subseteq _timers /\ UNCHANGED <<now, timerfd, _callingExpiredTimers>>
      BY <2>5 DEF Cancel, cancelInLoop, callVars
    <3> QED
      BY <3>1 DEF TimerfdCovers
  <2>6. CASE Tick
    <3>1. now' = now + 1 /\ UNCHANGED <<timerfd, _timers, _callingExpiredTimers>>
      BY <2>6 DEF Tick, queueVars, callVars
    <3>2. now \in Nat /\ timerfd \in Int
      BY TimerAssumption DEF TypeOK, Time, Disarmed
    <3> QED
      BY <3>1, <3>2 DEF TimerfdCovers
  <2>7. ASSUME NEW t \in Threads, NEW a \in Addresses, NEW d \in Delays, NEW i \in Intervals,
               AddTimerFrom(t, a, d, i)
        PROVE  UNCHANGED <<timerfd, _timers, now, _callingExpiredTimers>>
    BY <2>7 DEF AddTimerFrom, callVars
  <2>8. ASSUME NEW t \in Threads, NEW id \in issued, CancelFrom(t, id)
        PROVE  UNCHANGED <<timerfd, _timers, now, _callingExpiredTimers>>
    BY <2>8 DEF CancelFrom, queueVars, callVars
  <2>9. ASSUME NEW t \in Threads, AddTimerReturns(t)
        PROVE  UNCHANGED <<timerfd, _timers, now, _callingExpiredTimers>>
    BY <2>9 DEF AddTimerReturns, queueVars, callVars
  <2>10. CASE RunTimer \/ UNCHANGED vars
    BY <2>10 DEF RunTimer, queueVars, vars, callVars, TimerfdCovers
  <2>11. CASE UNCHANGED <<timerfd, _timers, now, _callingExpiredTimers>>
    BY <2>11 DEF TimerfdCovers
  <2> QED
    BY <2>1, <2>2, <2>3, <2>4, <2>5, <2>6, <2>7, <2>8, <2>9, <2>10, <2>11 DEF Next, LoopStep
<1> QED
  BY <1>1, <1>2, QueueInvariant, PTL DEF Spec

=============================================================================
