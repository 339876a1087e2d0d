----------------------------- MODULE Parts_proofs -----------------------------
(***************************************************************************)
(* Proofs about the parts of the server that share no state: the thread    *)
(* pools, the connection pools, the buffer, the log, and Channel and       *)
(* Poller, these for any number of channel objects and descriptors and any *)
(* way descriptors are used again.                                         *)
(***************************************************************************)
EXTENDS AsyncLog, ConnectionPools, ThreadPool, Buffer, Poller,
        FiniteSetTheorems, SequenceTheorems, WellFoundedInduction, TLAPS

-----------------------------------------------------------------------------
(* The thread pools.                                                       *)

WorkerStates == {"check", "wait", "run", "returned", "lost"}

PoolTypes ==
    /\ worker \in [PoolWorkers -> WorkerStates]
    /\ task \in [PoolWorkers -> Nat]
    /\ added \in 0 .. MaxTasks /\ tasks \in Seq(1 .. added)
    /\ done \in [1 .. MaxTasks -> {0, 1}]

\* A task in the queue is there once and has not run; neither has the task a
\* worker took, which no other worker has and which is not in the queue.
TaskPlaces ==
    /\ \A i \in 1 .. Len(tasks) : done[tasks[i]] = 0
    /\ \A i, j \in 1 .. Len(tasks) : tasks[i] = tasks[j] => i = j
    /\ \A w \in PoolWorkers : worker[w] = "run" =>
          /\ task[w] \in 1 .. added /\ done[task[w]] = 0
          /\ \A i \in 1 .. Len(tasks) : tasks[i] # task[w]
    /\ \A v, w \in PoolWorkers :
          worker[v] = "run" /\ worker[w] = "run" /\ task[v] = task[w] => v = w

\* A task that was added has run, or is in the queue, or a worker has it.
TaskKept ==
    \A n \in 1 .. MaxTasks :
        IF n <= added
        THEN \/ done[n] = 1 \/ \E i \in 1 .. Len(tasks) : tasks[i] = n
             \/ \E w \in PoolWorkers : worker[w] = "run" /\ task[w] = n
        ELSE done[n] = 0

\* A worker that returns leaves an empty queue, to which nothing is added any
\* more; only base loses workers.
LeftEmpty ==
    \A w \in PoolWorkers :
        /\ worker[w] = "returned" => stopping # "no" /\ tasks = <<>>
        /\ worker[w] = "lost" => kind = "base"

TaskPoolInv == PoolTypes /\ TaskPlaces /\ TaskKept /\ LeftEmpty

(* Initially.                                                              *)
LEMMA TaskPoolInit ==
  ASSUME ThreadPoolInit
  PROVE  TaskPoolInv
<1> USE DEF ThreadPoolInit
<1>1. PoolTypes
  BY ThreadPoolAssumption DEF PoolTypes, WorkerStates
<1>2. TaskPlaces
  BY DEF TaskPlaces
<1>3. TaskKept
  BY ThreadPoolAssumption DEF TaskKept
<1>4. LeftEmpty
  BY DEF LeftEmpty
<1> QED
  BY <1>1, <1>2, <1>3, <1>4 DEF TaskPoolInv

\* Some of those that wait are told.
Wakes ==
    /\ worker' \in [PoolWorkers -> WorkerStates]
    /\ \A w \in PoolWorkers :
          worker'[w] = worker[w] \/ (worker[w] = "wait" /\ worker'[w] = "check")

(* notify_one and notify_all wake some of those that wait.                 *)
LEMMA NotifyWakes ==
  ASSUME TaskPoolInv, NotifyOne \/ NotifyAll \/ UNCHANGED worker
  PROVE  Wakes
<1>1. worker \in [PoolWorkers -> WorkerStates]
  BY DEF TaskPoolInv, PoolTypes
<1>2. CASE NotifyOne
  BY <1>1, <1>2 DEF NotifyOne, Waiters, Wakes, WorkerStates
<1>3. CASE NotifyAll
  BY <1>1, <1>3 DEF NotifyAll, Wakes, WorkerStates
<1>4. CASE UNCHANGED worker
  BY <1>1, <1>4 DEF Wakes
<1> QED
  BY <1>2, <1>3, <1>4

(* Waking workers moves no task.                                           *)
LEMMA WakingKeeps ==
  ASSUME TaskPoolInv, Wakes, UNCHANGED <<kind, tasks, task, added, done>>,
         stopping' = "no" => stopping = "no"
  PROVE  TaskPoolInv'
<1>1. \A w \in PoolWorkers : worker'[w] = "run" <=> worker[w] = "run"
  BY DEF Wakes
<1>3. PoolTypes'
  BY DEF TaskPoolInv, PoolTypes, Wakes
<1>4. TaskPlaces'
  BY <1>1 DEF TaskPoolInv, TaskPlaces
<1>5. TaskKept'
  BY <1>1 DEF TaskPoolInv, TaskKept
<1>6. LeftEmpty'
  BY DEF TaskPoolInv, LeftEmpty, Wakes
<1> QED
  BY <1>3, <1>4, <1>5, <1>6 DEF TaskPoolInv

(* add (base/ThreadPool.cpp:40-50, threadpool/ThreadPool.h:84-107).        *)
LEMMA AddKeeps ==
  ASSUME TaskPoolInv, AddTask
  PROVE  TaskPoolInv'
<1>0. /\ added < MaxTasks /\ stopping = "no" /\ added' = added + 1
      /\ tasks' = Append(tasks, added + 1)
      /\ UNCHANGED <<kind, task, stopping, done>>
      /\ NotifyOne \/ UNCHANGED worker
  BY DEF AddTask
<1>1. Wakes
  BY <1>0, NotifyWakes
<1>2. /\ added \in Nat /\ added \in 0 .. MaxTasks /\ added' \in 1 .. MaxTasks
      /\ tasks \in Seq(1 .. added) /\ MaxTasks \in Nat
      /\ done \in [1 .. MaxTasks -> {0, 1}] /\ task \in [PoolWorkers -> Nat]
  BY <1>0, ThreadPoolAssumption DEF TaskPoolInv, PoolTypes
<1>3. tasks \in Seq(1 .. added')
  BY <1>0, <1>2, SeqMonotonic
<1>4. /\ tasks' \in Seq(1 .. added') /\ Len(tasks') = Len(tasks) + 1
      /\ \A i \in 1 .. Len(tasks) : tasks'[i] = tasks[i]
      /\ tasks'[Len(tasks) + 1] = added'
  BY <1>0, <1>2, <1>3, AppendProperties
<1>5. Len(tasks) \in Nat /\ \A i \in 1 .. Len(tasks) : tasks[i] \in 1 .. added
  BY <1>2, ElementOfSeq
<1>6. ASSUME NEW i \in 1 .. Len(tasks')
      PROVE  \/ i \in 1 .. Len(tasks) /\ tasks'[i] = tasks[i] /\ tasks[i] \in 1 .. added
             \/ i = Len(tasks) + 1 /\ tasks'[i] = added'
  BY <1>4, <1>5
<1>7. \A w \in PoolWorkers : worker'[w] = "run" <=> worker[w] = "run"
  BY <1>1 DEF Wakes
<1>8. done[added'] = 0
  BY <1>0, <1>2 DEF TaskPoolInv, TaskKept
<1>9. PoolTypes'
  BY <1>0, <1>1, <1>2, <1>4 DEF PoolTypes, Wakes
<1>10. TaskPlaces'
  <2>1. ASSUME NEW i \in 1 .. Len(tasks')
        PROVE  done'[tasks'[i]] = 0
    BY <1>0, <1>6, <1>8 DEF TaskPoolInv, TaskPlaces
  <2>2. ASSUME NEW i \in 1 .. Len(tasks'), NEW j \in 1 .. Len(tasks'), tasks'[i] = tasks'[j]
        PROVE  i = j
    <3>1. added' \notin 1 .. added
      BY <1>0, <1>2
    <3> QED
      BY <2>2, <1>6, <3>1 DEF TaskPoolInv, TaskPlaces
  <2>3. ASSUME NEW w \in PoolWorkers, worker'[w] = "run"
        PROVE  /\ task'[w] \in 1 .. added' /\ done'[task'[w]] = 0
               /\ \A i \in 1 .. Len(tasks') : tasks'[i] # task'[w]
    <3>1. /\ task[w] \in 1 .. added /\ done[task[w]] = 0
          /\ \A i \in 1 .. Len(tasks) : tasks[i] # task[w]
      BY <2>3, <1>7 DEF TaskPoolInv, TaskPlaces
    <3>2. task[w] # added' /\ task[w] \in 1 .. added'
      BY <3>1, <1>0, <1>2
    <3> QED
      BY <3>1, <3>2, <1>0, <1>6
  <2>4. \A v, w \in PoolWorkers :
          worker'[v] = "run" /\ worker'[w] = "run" /\ task'[v] = task'[w] => v = w
    BY <1>0, <1>7 DEF TaskPoolInv, TaskPlaces
  <2> QED
    BY <2>1, <2>2, <2>3, <2>4 DEF TaskPlaces
<1>11. TaskKept'
  <2> SUFFICES ASSUME NEW n \in 1 .. MaxTasks
               PROVE  IF n <= added'
                      THEN \/ done'[n] = 1 \/ \E i \in 1 .. Len(tasks') : tasks'[i] = n
                           \/ \E w \in PoolWorkers : worker'[w] = "run" /\ task'[w] = n
                      ELSE done'[n] = 0
    BY DEF TaskKept
  <2>1. CASE n <= added
    <3>1. \/ done[n] = 1 \/ \E i \in 1 .. Len(tasks) : tasks[i] = n
          \/ \E w \in PoolWorkers : worker[w] = "run" /\ task[w] = n
      BY <2>1 DEF TaskPoolInv, TaskKept
    <3>2. \A i \in 1 .. Len(tasks) : i \in 1 .. Len(tasks')
      BY <1>4, <1>5
    <3>3. n <= added'
      BY <2>1, <1>0, <1>2
    <3> QED
      BY <3>1, <3>2, <3>3, <1>0, <1>4, <1>7
  <2>2. CASE n = added'
    <3>1. Len(tasks) + 1 \in 1 .. Len(tasks')
      BY <1>4, <1>5
    <3>2. \E i \in 1 .. Len(tasks') : tasks'[i] = n
      BY <2>2, <3>1, <1>4
    <3>3. n <= added'
      BY <2>2, <1>2
    <3> QED
      BY <3>2, <3>3
  <2>3. CASE n > added'
    BY <2>3, <1>0, <1>2 DEF TaskPoolInv, TaskKept
  <2> QED
    BY <2>1, <2>2, <2>3, <1>0, <1>2
<1>12. LeftEmpty'
  BY <1>0, <1>1 DEF TaskPoolInv, LeftEmpty, Wakes
<1> QED
  BY <1>9, <1>10, <1>11, <1>12 DEF TaskPoolInv

(* A worker looks at the queue (base/ThreadPool.cpp:52-76,                 *)
(* threadpool/ThreadPool.h:53-77).                                         *)
LEMMA CheckKeeps ==
  ASSUME TaskPoolInv, NEW w \in PoolWorkers, CheckQueue(w)
  PROVE  TaskPoolInv'
<1>0. worker[w] = "check" /\ UNCHANGED <<kind, stopping, added, done>>
  BY DEF CheckQueue
<1>1. /\ worker \in [PoolWorkers -> WorkerStates]
      /\ task \in [PoolWorkers -> Nat] /\ tasks \in Seq(1 .. added)
      /\ added \in 0 .. MaxTasks /\ done \in [1 .. MaxTasks -> {0, 1}]
  BY DEF TaskPoolInv, PoolTypes
<1>2. CASE tasks = <<>> /\ worker' = [worker EXCEPT ![w] = IF stopping = "no" THEN "wait" ELSE "returned"]
           /\ UNCHANGED <<tasks, task>>
  <2>1. \A v \in PoolWorkers : worker'[v] = "run" <=> worker[v] = "run"
    BY <1>0, <1>1, <1>2
  <2>2. PoolTypes'
    BY <1>0, <1>1, <1>2 DEF PoolTypes, WorkerStates
  <2>3. TaskPlaces' /\ TaskKept'
    BY <1>0, <1>2, <2>1 DEF TaskPoolInv, TaskPlaces, TaskKept
  <2>4. LeftEmpty'
    BY <1>0, <1>1, <1>2 DEF TaskPoolInv, LeftEmpty
  <2> QED
    BY <2>2, <2>3, <2>4 DEF TaskPoolInv
<1>3. CASE Take(w)
  <2>0. /\ tasks # <<>> /\ tasks' = Tail(tasks)
        /\ worker' = [worker EXCEPT ![w] = "run"]
        /\ task' = [task EXCEPT ![w] = Head(tasks)]
    BY <1>3 DEF Take
  <2>1. /\ Head(tasks) \in 1 .. added /\ Head(tasks) = tasks[1]
        /\ tasks' \in Seq(1 .. added) /\ Len(tasks') = Len(tasks) - 1
        /\ \A i \in 1 .. Len(tasks') : tasks'[i] = tasks[i + 1]
        /\ Len(tasks) \in Nat /\ Len(tasks) > 0
    BY <1>1, <2>0, HeadTailProperties
  <2>2. \A i \in 1 .. Len(tasks') : i + 1 \in 1 .. Len(tasks) /\ i + 1 # 1
    BY <2>1
  <2>3. 1 \in 1 .. Len(tasks) /\ added \in Nat
    BY <1>1, <2>1
  <2>4. /\ worker'[w] = "run" /\ task'[w] = tasks[1]
        /\ \A v \in PoolWorkers \ {w} : worker'[v] = worker[v] /\ task'[v] = task[v]
    BY <1>1, <2>0, <2>1
  <2>5. PoolTypes'
    <3>1. task' \in [PoolWorkers -> Nat]
      BY <1>1, <2>0, <2>1, <2>3
    <3> QED
      BY <3>1, <1>0, <1>1, <2>0, <2>1 DEF PoolTypes, WorkerStates
  <2>6. TaskPlaces'
    <3>1. \A i \in 1 .. Len(tasks') : done'[tasks'[i]] = 0
      BY <1>0, <2>1, <2>2 DEF TaskPoolInv, TaskPlaces
    <3>2. ASSUME NEW i \in 1 .. Len(tasks'), NEW j \in 1 .. Len(tasks'), tasks'[i] = tasks'[j]
          PROVE  i = j
      <4>1. i + 1 = j + 1
        BY <3>2, <2>1, <2>2 DEF TaskPoolInv, TaskPlaces
      <4> QED
        BY <4>1
    <3>3. \A i \in 1 .. Len(tasks') : tasks'[i] # tasks[1]
      BY <2>1, <2>2, <2>3 DEF TaskPoolInv, TaskPlaces
    <3>4. done[tasks[1]] = 0
      BY <2>3 DEF TaskPoolInv, TaskPlaces
    <3>5. ASSUME NEW v \in PoolWorkers, worker'[v] = "run"
          PROVE  /\ task'[v] \in 1 .. added' /\ done'[task'[v]] = 0
                 /\ \A i \in 1 .. Len(tasks') : tasks'[i] # task'[v]
      <4>1. CASE v = w
        BY <4>1, <1>0, <2>1, <2>4, <3>3, <3>4
      <4>2. CASE v # w
        <5>1. /\ task[v] \in 1 .. added /\ done[task[v]] = 0
              /\ \A i \in 1 .. Len(tasks) : tasks[i] # task[v]
          BY <4>2, <3>5, <2>4 DEF TaskPoolInv, TaskPlaces
        <5> QED
          BY <5>1, <4>2, <1>0, <2>1, <2>2, <2>4
      <4> QED
        BY <4>1, <4>2
    <3>6. \A v \in PoolWorkers \ {w} : worker'[v] = "run" => task'[v] # task'[w]
      BY <2>3, <2>4 DEF TaskPoolInv, TaskPlaces
    <3>7. ASSUME NEW u \in PoolWorkers, NEW v \in PoolWorkers,
                 worker'[u] = "run", worker'[v] = "run", task'[u] = task'[v]
          PROVE  u = v
      <4>1. CASE u # w /\ v # w
        BY <4>1, <3>7, <2>4 DEF TaskPoolInv, TaskPlaces
      <4>2. CASE u = w \/ v = w
        BY <4>2, <3>6, <3>7
      <4> QED
        BY <4>1, <4>2
    <3> QED
      BY <3>1, <3>2, <3>5, <3>7 DEF TaskPlaces
  <2>7. TaskKept'
    <3> SUFFICES ASSUME NEW n \in 1 .. MaxTasks
                 PROVE  IF n <= added'
                        THEN \/ done'[n] = 1 \/ \E i \in 1 .. Len(tasks') : tasks'[i] = n
                             \/ \E v \in PoolWorkers : worker'[v] = "run" /\ task'[v] = n
                        ELSE done'[n] = 0
      BY DEF TaskKept
    <3>1. CASE n <= added
      <4>1. CASE done[n] = 1
        BY <4>1, <3>1, <1>0
      <4>2. ASSUME NEW i \in 1 .. Len(tasks), tasks[i] = n
            PROVE  \/ \E j \in 1 .. Len(tasks') : tasks'[j] = n
                   \/ \E v \in PoolWorkers : worker'[v] = "run" /\ task'[v] = n
        <5>1. CASE i = 1
          BY <5>1, <4>2, <2>4
        <5>2. CASE i # 1
          <6>1. i - 1 \in 1 .. Len(tasks') /\ (i - 1) + 1 = i
            BY <5>2, <2>1
          <6> QED
            BY <6>1, <4>2, <2>1
        <5> QED
          BY <5>1, <5>2
      <4>3. ASSUME NEW v \in PoolWorkers, worker[v] = "run", task[v] = n
            PROVE  worker'[v] = "run" /\ task'[v] = n
        BY <4>3, <1>0, <2>4
      <4> QED
        BY <4>1, <4>2, <4>3, <3>1, <1>0 DEF TaskPoolInv, TaskKept
    <3>2. CASE ~(n <= added)
      BY <3>2, <1>0 DEF TaskPoolInv, TaskKept
    <3> QED
      BY <3>1, <3>2
  <2>8. LeftEmpty'
    BY <1>0, <2>0, <2>4 DEF TaskPoolInv, LeftEmpty
  <2> QED
    BY <2>5, <2>6, <2>7, <2>8 DEF TaskPoolInv
<1> QED
  BY <1>2, <1>3 DEF CheckQueue

(* A worker runs its task, which may throw.                                *)
LEMMA RunKeeps ==
  ASSUME TaskPoolInv, NEW w \in PoolWorkers, RunTask(w)
  PROVE  TaskPoolInv'
<1>0. /\ worker[w] = "run" /\ done' = [done EXCEPT ![task[w]] = @ + 1]
      /\ UNCHANGED <<kind, tasks, task, stopping, added>>
      /\ \/ worker' = [worker EXCEPT ![w] = "check"]
         \/ kind = "base" /\ worker' = [worker EXCEPT ![w] = "lost"]
  BY DEF RunTask
<1>1. /\ worker \in [PoolWorkers -> WorkerStates]
      /\ task \in [PoolWorkers -> Nat] /\ tasks \in Seq(1 .. added)
      /\ added \in 0 .. MaxTasks /\ done \in [1 .. MaxTasks -> {0, 1}]
      /\ MaxTasks \in Nat
  BY ThreadPoolAssumption DEF TaskPoolInv, PoolTypes
<1>2. /\ task[w] \in 1 .. added /\ done[task[w]] = 0
      /\ \A i \in 1 .. Len(tasks) : tasks[i] # task[w]
  BY <1>0 DEF TaskPoolInv, TaskPlaces
<1>3. task[w] \in 1 .. MaxTasks
  BY <1>1, <1>2
<1>4. /\ done'[task[w]] = 1
      /\ \A n \in 1 .. MaxTasks : n # task[w] => done'[n] = done[n]
      /\ done' \in [1 .. MaxTasks -> {0, 1}]
  BY <1>0, <1>1, <1>2, <1>3
<1>5. /\ worker' \in [PoolWorkers -> WorkerStates]
      /\ worker'[w] # "run" /\ worker'[w] # "returned"
      /\ worker'[w] = "lost" => kind = "base"
      /\ \A v \in PoolWorkers : v # w => worker'[v] = worker[v]
  BY <1>0, <1>1 DEF WorkerStates
<1>6. PoolTypes'
  BY <1>0, <1>1, <1>4, <1>5 DEF PoolTypes
<1>7. TaskPlaces'
  <2>1. ASSUME NEW i \in 1 .. Len(tasks)
        PROVE  done'[tasks[i]] = 0
    <3>1. tasks[i] \in 1 .. added /\ tasks[i] # task[w] /\ done[tasks[i]] = 0
      BY <1>1, <1>2, ElementOfSeq DEF TaskPoolInv, TaskPlaces
    <3>2. tasks[i] \in 1 .. MaxTasks
      BY <3>1, <1>1
    <3> QED
      BY <3>1, <3>2, <1>4
  <2>2. ASSUME NEW v \in PoolWorkers, worker'[v] = "run"
        PROVE  /\ task[v] \in 1 .. added /\ done'[task[v]] = 0
               /\ \A i \in 1 .. Len(tasks) : tasks[i] # task[v]
    <3>1. v # w /\ worker[v] = "run"
      BY <2>2, <1>5
    <3>2. /\ task[v] \in 1 .. added /\ done[task[v]] = 0 /\ task[v] # task[w]
          /\ \A i \in 1 .. Len(tasks) : tasks[i] # task[v]
      BY <3>1, <1>0 DEF TaskPoolInv, TaskPlaces
    <3>3. task[v] \in 1 .. MaxTasks
      BY <3>2, <1>1
    <3> QED
      BY <3>2, <3>3, <1>4
  <2>3. ASSUME NEW u \in PoolWorkers, NEW v \in PoolWorkers,
               worker'[u] = "run", worker'[v] = "run", task[u] = task[v]
        PROVE  u = v
    BY <2>3, <1>5 DEF TaskPoolInv, TaskPlaces
  <2>4. \A i, j \in 1 .. Len(tasks) : tasks[i] = tasks[j] => i = j
    BY DEF TaskPoolInv, TaskPlaces
  <2> QED
    BY <2>1, <2>2, <2>3, <2>4, <1>0 DEF TaskPlaces
<1>8. TaskKept'
  <2> SUFFICES ASSUME NEW n \in 1 .. MaxTasks
               PROVE  IF n <= added
                      THEN \/ done'[n] = 1 \/ \E i \in 1 .. Len(tasks) : tasks[i] = n
                           \/ \E v \in PoolWorkers : worker'[v] = "run" /\ task[v] = n
                      ELSE done'[n] = 0
    BY <1>0 DEF TaskKept
  <2>1. CASE n = task[w]
    BY <2>1, <1>1, <1>2, <1>4
  <2>2. CASE n # task[w]
    <3>1. done'[n] = done[n]
      BY <2>2, <1>4
    <3>2. \A v \in PoolWorkers : worker[v] = "run" /\ task[v] = n => worker'[v] = "run"
      BY <2>2, <1>5
    <3> QED
      BY <3>1, <3>2 DEF TaskPoolInv, TaskKept
  <2> QED
    BY <2>1, <2>2
<1>9. LeftEmpty'
  BY <1>0, <1>5 DEF TaskPoolInv, LeftEmpty
<1> QED
  BY <1>6, <1>7, <1>8, <1>9 DEF TaskPoolInv

(* No task runs twice, and a pool that has joined its workers has run      *)
(* every task, whenever it is stopped and whichever workers of base are    *)
(* lost to tasks that throw; if all of them are, what has not run is still *)
(* in the queue (base/ThreadPool.cpp:18-83, threadpool/ThreadPool.h).      *)
THEOREM PoolRunsTasksOnce == ThreadPoolSpec => []TasksRunOnce
<1>1. ThreadPoolInit => TaskPoolInv
  BY TaskPoolInit
<1>2. TaskPoolInv /\ [ThreadPoolNext]_threadPoolVars => TaskPoolInv'
  <2> SUFFICES ASSUME TaskPoolInv, [ThreadPoolNext]_threadPoolVars
               PROVE  TaskPoolInv'
    OBVIOUS
  <2>1. CASE AddTask
    BY <2>1, AddKeeps
  <2>2. CASE AddNotifies
    BY <2>2, NotifyWakes, WakingKeeps DEF AddNotifies
  <2>3. CASE StopPool
    <3>1. Wakes
      BY <2>3, NotifyWakes DEF StopPool
    <3> QED
      BY <2>3, <3>1, WakingKeeps DEF StopPool
  <2>4. CASE StopNotifies
    BY <2>4, NotifyWakes, WakingKeeps DEF StopNotifies
  <2>5. CASE \E w \in PoolWorkers : PoolWorker(w)
    BY <2>5, CheckKeeps, RunKeeps DEF PoolWorker
  <2>6. CASE UNCHANGED threadPoolVars
    BY <2>6, NotifyWakes, WakingKeeps DEF threadPoolVars
  <2> QED
    BY <2>1, <2>2, <2>3, <2>4, <2>5, <2>6 DEF ThreadPoolNext
<1>3. TaskPoolInv => TasksRunOnce
  <2> SUFFICES ASSUME TaskPoolInv PROVE TasksRunOnce
    OBVIOUS
  <2>1. \A n \in 1 .. MaxTasks : done[n] \in {0, 1}
    BY DEF TaskPoolInv, PoolTypes
  <2>2. ASSUME Joined, NEW n \in 1 .. added
        PROVE  done[n] = 1 \/ (AllLost /\ \E i \in DOMAIN tasks : tasks[i] = n)
    <3>1. n \in 1 .. MaxTasks /\ n <= added
      BY ThreadPoolAssumption DEF TaskPoolInv, PoolTypes
    <3>2. \A w \in PoolWorkers : worker[w] # "run"
      BY <2>2 DEF Joined
    <3>3. done[n] = 1 \/ \E i \in 1 .. Len(tasks) : tasks[i] = n
      BY <3>1, <3>2 DEF TaskPoolInv, TaskKept
    <3>4. DOMAIN tasks = 1 .. Len(tasks)
      BY DEF TaskPoolInv, PoolTypes
    <3>5. ASSUME NEW i \in 1 .. Len(tasks)
          PROVE  AllLost
      <4>1. tasks # <<>>
        BY <3>5
      <4>2. \A w \in PoolWorkers : worker[w] = "lost"
        BY <2>2, <4>1 DEF Joined, TaskPoolInv, LeftEmpty
      <4>3. kind = "base"
        BY <4>2, ThreadPoolAssumption DEF TaskPoolInv, LeftEmpty
      <4> QED
        BY <4>2, <4>3 DEF AllLost
    <3> QED
      BY <3>3, <3>4, <3>5
  <2> QED
    BY <2>1, <2>2 DEF TasksRunOnce
<1> QED
  BY <1>1, <1>2, <1>3, PTL DEF ThreadPoolSpec

-----------------------------------------------------------------------------
(* The connection pools.                                                   *)

(* The image of a finite set under an injective function has its size.     *)
LEMMA ImageSize ==
  ASSUME NEW S, IsFiniteSet(S), NEW f, \A x, y \in S : f[x] = f[y] => x = y
  PROVE  /\ IsFiniteSet({f[x] : x \in S})
         /\ Cardinality({f[x] : x \in S}) = Cardinality(S)
<1> DEFINE T == {f[x] : x \in S}
           g == [x \in S |-> f[x]]
<1>1. g \in [S -> T] /\ \A x \in S : g[x] = f[x]
  OBVIOUS
<1>2. g \in Surjection(S, T)
  <2>1. \A z \in T : \E x \in S : g[x] = z
    BY <1>1
  <2> QED
    BY <1>1, <2>1 DEF Surjection
<1>3. g \in Injection(S, T)
  BY <1>1 DEF Injection, IsInjective
<1> HIDE DEF g, T
<1>4. IsFiniteSet(T) /\ Cardinality(T) = Cardinality(S)
  BY <1>2, <1>3, FS_Surjection
<1> QED
  BY <1>4 DEF T

LoginAt ==
    {"idle", "redis wait", "redis pop", "redis free", "redis get", "sql get",
     "sql wait", "query"}

Lent == {t \in Threads : sql[t] # 0}

\* The connections to MySQL: every one is idle or lent to one thread, the
\* thread that makes a query.
SqlTypes ==
    /\ made \in Nat /\ connections \in Seq(1 .. made)
    /\ login \in [Threads -> LoginAt] /\ sql \in [Threads -> 0 .. made]

SqlPlaces ==
    /\ \A i, j \in 1 .. Len(connections) : connections[i] = connections[j] => i = j
    /\ \A t \in Threads : sql[t] # 0 =>
          \A i \in 1 .. Len(connections) : connections[i] # sql[t]
    /\ \A s, t \in Threads : sql[s] # 0 /\ sql[s] = sql[t] => s = t
    /\ \A t \in Threads : sql[t] # 0 <=> login[t] = "query"

SqlCount ==
    /\ connectionCount = Len(connections) + Cardinality(Lent)
    /\ connectionCount <= MaxSize /\ connectionCount >= InitSize - 1

SqlInv == SqlTypes /\ SqlPlaces /\ SqlCount

\* The Redis pool: a thread that passed the semaphore finds a connection.
Popping == {t \in Threads : login[t] = "redis pop"}

RedisInv ==
    /\ conn_que \in Seq(Nat) /\ rc \in [Threads -> Nat]
    /\ sem \in Nat /\ sem + Cardinality(Popping) = Len(conn_que)

(* Initially.                                                              *)
LEMMA PoolsInit ==
  ASSUME PoolInit
  PROVE  SqlInv /\ RedisInv
<1> USE PoolAssumption DEF PoolInit, SqlPoolInit, RedisPoolInit
<1>0. InitSize \in Nat /\ MaxSize \in Nat /\ RedisSize \in Nat
  OBVIOUS
<1>1. /\ connections \in Seq(1 .. made) /\ Len(connections) = InitSize
      /\ \A i \in 1 .. InitSize : connections[i] = i
  BY <1>0
<1>2. SqlTypes
  BY <1>0, <1>1 DEF SqlTypes, LoginAt
<1>3. SqlPlaces
  BY <1>0, <1>1 DEF SqlPlaces
<1>4. Lent = {} /\ Popping = {}
  BY DEF Lent, Popping
<1>5. SqlCount
  BY <1>0, <1>1, <1>4, FS_EmptySet DEF SqlCount
<1>6. RedisInv
  <2>1. conn_que \in Seq(Nat) /\ Len(conn_que) = RedisSize
    BY <1>0
  <2> QED
    BY <2>1, <1>0, <1>4, FS_EmptySet DEF RedisInv
<1> QED
  BY <1>2, <1>3, <1>5, <1>6 DEF SqlInv

(* What the logins do with Redis leaves the connections to MySQL alone.    *)
LEMMA SqlKept ==
  ASSUME SqlInv, UNCHANGED <<connections, connectionCount, made, sql>>,
         login' \in [Threads -> LoginAt],
         \A t \in Threads : login'[t] = "query" <=> login[t] = "query"
  PROVE  SqlInv'
<1>1. SqlTypes' /\ SqlPlaces'
  BY DEF SqlInv, SqlTypes, SqlPlaces
<1>2. Lent' = Lent
  BY DEF Lent
<1>3. SqlCount'
  BY <1>2 DEF SqlInv, SqlCount
<1> QED
  BY <1>1, <1>3 DEF SqlInv

(* ... and the other way round.                                            *)
LEMMA RedisKept ==
  ASSUME RedisInv, UNCHANGED <<conn_que, sem>>, rc' \in [Threads -> Nat],
         \A t \in Threads : login'[t] = "redis pop" <=> login[t] = "redis pop"
  PROVE  RedisInv'
<1>1. Popping' = Popping
  BY DEF Popping
<1> QED
  BY <1>1 DEF RedisInv

(* The threads that pop are finitely many, and so are the lent ones.       *)
LEMMA FiniteThreads ==
  /\ IsFiniteSet(Popping) /\ Cardinality(Popping) \in Nat
  /\ IsFiniteSet(Lent) /\ Cardinality(Lent) \in Nat
<1>1. Popping \subseteq Threads /\ Lent \subseteq Threads
  BY DEF Popping, Lent
<1>2. IsFiniteSet(Popping) /\ IsFiniteSet(Lent)
  BY <1>1, PoolAssumption, FS_Subset
<1> QED
  BY <1>2, FS_CardinalityType

(* RedisPool::getRedisCache and ~RedisConnRAII: the semaphore and the      *)
(* queue move together (RedisPool.cpp).                                    *)
LEMMA RedisStepsKeep ==
  ASSUME SqlInv, RedisInv, NEW t \in Threads,
         \/ RedisEmpty(t) \/ RedisWait(t) \/ RedisPop(t) \/ freeRedisCache(t)
         \/ RedisGet(t)
  PROVE  SqlInv' /\ RedisInv'
<1> USE DEF Move, sqlVars, redisVars
<1>0. /\ login \in [Threads -> LoginAt]
      /\ conn_que \in Seq(Nat) /\ rc \in [Threads -> Nat]
      /\ sem \in Nat /\ sem + Cardinality(Popping) = Len(conn_que)
  BY DEF SqlInv, SqlTypes, RedisInv
<1>1. UNCHANGED <<connections, connectionCount, made, sql>>
  BY DEF RedisEmpty, RedisWait, RedisPop, freeRedisCache, RedisGet
<1>2. /\ login[t] \in {"idle", "redis wait", "redis pop", "redis free", "redis get"}
      /\ \/ login' = [login EXCEPT ![t] = "idle"]
         \/ login' = [login EXCEPT ![t] = "redis wait"]
         \/ login' = [login EXCEPT ![t] = "redis pop"]
         \/ login' = [login EXCEPT ![t] = "redis free"]
         \/ login' = [login EXCEPT ![t] = "redis get"]
         \/ login' = [login EXCEPT ![t] = "sql get"]
  BY DEF RedisEmpty, RedisWait, RedisPop, freeRedisCache, RedisGet
<1>3. login' \in [Threads -> LoginAt]
  BY <1>0, <1>2 DEF LoginAt
<1>4. \A s \in Threads : login'[s] = "query" <=> login[s] = "query"
  BY <1>0, <1>2
<1>5. SqlInv'
  BY <1>1, <1>3, <1>4, SqlKept
<1>6. CASE RedisEmpty(t)
  <2>1. \A s \in Threads : login'[s] = "redis pop" <=> login[s] = "redis pop"
    BY <1>0, <1>6 DEF RedisEmpty
  <2> QED
    BY <1>0, <1>5, <1>6, <2>1, RedisKept DEF RedisEmpty
<1>7. CASE RedisWait(t)
  <2>1. Popping' = Popping \cup {t} /\ t \notin Popping
    BY <1>0, <1>7 DEF RedisWait, Popping
  <2>2. Cardinality(Popping') = Cardinality(Popping) + 1
    BY <2>1, FiniteThreads, FS_AddElement
  <2>3. sem' = sem - 1 /\ sem > 0 /\ UNCHANGED <<conn_que, rc>>
    BY <1>7 DEF RedisWait
  <2>4. RedisInv'
    BY <1>0, <2>2, <2>3, FiniteThreads DEF RedisInv
  <2> QED
    BY <1>5, <2>4
<1>8. CASE RedisPop(t)
  <2>1. Popping' = Popping \ {t} /\ t \in Popping
    BY <1>0, <1>8 DEF RedisPop, Popping
  <2>2. Cardinality(Popping') = Cardinality(Popping) - 1
    BY <2>1, FiniteThreads, FS_RemoveElement
  <2>3. /\ conn_que # <<>> /\ conn_que' = Tail(conn_que) /\ sem' = sem
        /\ rc' = [rc EXCEPT ![t] = Head(conn_que)]
    BY <1>8 DEF RedisPop
  <2>4. Tail(conn_que) \in Seq(Nat) /\ Len(Tail(conn_que)) = Len(conn_que) - 1
        /\ Head(conn_que) \in Nat
    BY <1>0, <2>3, HeadTailProperties
  <2>5. RedisInv'
    BY <1>0, <2>2, <2>3, <2>4, FiniteThreads DEF RedisInv
  <2> QED
    BY <1>5, <2>5
<1>9. CASE freeRedisCache(t)
  <2>1. Popping' = Popping
    BY <1>0, <1>9 DEF freeRedisCache, Popping
  <2>2. conn_que' = Append(conn_que, rc[t]) /\ sem' = sem + 1 /\ rc' = rc
    BY <1>9 DEF freeRedisCache
  <2>3. conn_que' \in Seq(Nat) /\ Len(conn_que') = Len(conn_que) + 1
    BY <1>0, <2>2, AppendProperties
  <2>4. RedisInv'
    BY <1>0, <2>1, <2>2, <2>3, FiniteThreads DEF RedisInv
  <2> QED
    BY <1>5, <2>4
<1>10. CASE RedisGet(t)
  <2>1. \A s \in Threads : login'[s] = "redis pop" <=> login[s] = "redis pop"
    BY <1>0, <1>10 DEF RedisGet
  <2>2. rc' \in [Threads -> Nat] /\ UNCHANGED <<conn_que, sem>>
    BY <1>0, <1>10 DEF RedisGet
  <2> QED
    BY <1>5, <2>1, <2>2, RedisKept
<1> QED
  BY <1>5, <1>6, <1>7, <1>8, <1>9, <1>10

(* getConnection finds an idle connection (MySqlConnectionPool.cpp).       *)
LEMMA SqlTakeKeeps ==
  ASSUME SqlInv, RedisInv, NEW t \in Threads, SqlTake(t)
  PROVE  SqlInv' /\ RedisInv'
<1>0. /\ login[t] = "sql get" /\ connections # <<>>
      /\ sql' = [sql EXCEPT ![t] = Head(connections)]
      /\ connections' = Tail(connections)
      /\ login' = Wake([login EXCEPT ![t] = "query"])
      /\ UNCHANGED <<connectionCount, made, conn_que, sem, rc>>
  BY DEF SqlTake, redisVars
<1>1. /\ made \in Nat /\ connections \in Seq(1 .. made)
      /\ login \in [Threads -> LoginAt] /\ sql \in [Threads -> 0 .. made]
  BY DEF SqlInv, SqlTypes
<1>2. /\ Head(connections) \in 1 .. made /\ Head(connections) = connections[1]
      /\ connections' \in Seq(1 .. made) /\ Len(connections') = Len(connections) - 1
      /\ \A i \in 1 .. Len(connections') : connections'[i] = connections[i + 1]
      /\ Len(connections) \in Nat /\ Len(connections) > 0
  <2>1. Len(connections) \in Nat /\ Len(connections) > 0
    <3>1. connections \in Seq(1 .. made) /\ connections # <<>>
      BY <1>0, <1>1
    <3>2. Len(connections) \in Nat /\ Len(connections) # 0
      BY <3>1, EmptySeq, LenProperties
    <3> QED
      BY <3>2
  <2>2. /\ Head(connections) \in 1 .. made
        /\ Tail(connections) \in Seq(1 .. made)
        /\ Len(Tail(connections)) = Len(connections) - 1
        /\ \A i \in 1 .. Len(Tail(connections)) : Tail(connections)[i] = connections[i + 1]
    BY <1>0, <1>1, HeadTailProperties
  <2>3. Head(connections) = connections[1]
    BY <1>1, <2>1
  <2> QED
    BY <1>0, <2>1, <2>2, <2>3
<1>3. /\ login' \in [Threads -> LoginAt] /\ login'[t] = "query"
      /\ \A s \in Threads : s # t => (login'[s] = "query" <=> login[s] = "query")
      /\ \A s \in Threads : login'[s] = "redis pop" <=> login[s] = "redis pop"
  BY <1>0, <1>1 DEF Wake, LoginAt
<1>4. /\ sql'[t] = connections[1] /\ connections[1] # 0 /\ sql[t] = 0
      /\ \A s \in Threads : s # t => sql'[s] = sql[s]
      /\ sql' \in [Threads -> 0 .. made]
  <2>1. sql[t] = 0
    BY <1>0 DEF SqlInv, SqlPlaces
  <2>2. Head(connections) \in 0 .. made /\ connections[1] # 0
    BY <1>1, <1>2
  <2> QED
    BY <1>0, <1>1, <1>2, <2>1, <2>2
<1>5. SqlTypes'
  BY <1>0, <1>1, <1>2, <1>3, <1>4 DEF SqlTypes
<1>6. \A i \in 1 .. Len(connections') : i + 1 \in 1 .. Len(connections) /\ i + 1 # 1
  BY <1>2
<1>7. 1 \in 1 .. Len(connections)
  BY <1>2
<1>8. SqlPlaces'
  <2>1. ASSUME NEW i \in 1 .. Len(connections'), NEW j \in 1 .. Len(connections'),
               connections'[i] = connections'[j]
        PROVE  i = j
    <3>1. \A k, m \in 1 .. Len(connections) : connections[k] = connections[m] => k = m
      BY DEF SqlInv, SqlPlaces
    <3>2. connections[i + 1] = connections[j + 1]
      BY <2>1, <1>2
    <3>3. i + 1 = j + 1
      BY <1>6, <3>1, <3>2
    <3> QED
      BY <3>3
  <2>2. ASSUME NEW s \in Threads, sql'[s] # 0, NEW i \in 1 .. Len(connections')
        PROVE  connections'[i] # sql'[s]
    <3>1. connections'[i] = connections[i + 1] /\ i + 1 \in 1 .. Len(connections)
          /\ i + 1 # 1
      BY <1>2, <1>6
    <3>2. CASE s = t
      BY <3>1, <3>2, <1>4, <1>7 DEF SqlInv, SqlPlaces
    <3>3. CASE s # t
      BY <3>1, <3>3, <2>2, <1>4 DEF SqlInv, SqlPlaces
    <3> QED
      BY <3>2, <3>3
  <2>3. ASSUME NEW r \in Threads, NEW s \in Threads, sql'[r] # 0, sql'[r] = sql'[s]
        PROVE  r = s
    BY <2>3, <1>4, <1>7 DEF SqlInv, SqlPlaces
  <2>4. \A s \in Threads : sql'[s] # 0 <=> login'[s] = "query"
    <3>1. \A s \in Threads : sql[s] # 0 <=> login[s] = "query"
      BY DEF SqlInv, SqlPlaces
    <3> QED
      BY <1>3, <1>4, <3>1
  <2> QED
    BY <2>1, <2>2, <2>3, <2>4 DEF SqlPlaces
<1>9. SqlCount'
  <2>1. Lent' = Lent \cup {t} /\ t \notin Lent
    BY <1>4 DEF Lent
  <2>2. Cardinality(Lent') = Cardinality(Lent) + 1
    BY <2>1, FiniteThreads, FS_AddElement
  <2>3. connectionCount' = Len(connections') + Cardinality(Lent')
    <3>1. connectionCount' = Len(connections) + Cardinality(Lent)
      BY <1>0 DEF SqlInv, SqlCount
    <3> QED
      BY <3>1, <2>2, <1>2, FiniteThreads
  <2> QED
    BY <1>0, <2>3 DEF SqlInv, SqlCount
<1>10. RedisInv'
  BY <1>0, <1>3, RedisKept DEF RedisInv
<1> QED
  BY <1>5, <1>8, <1>9, <1>10 DEF SqlInv

(* The deleter gives a connection back (getConnection).                    *)
LEMMA SqlReleaseKeeps ==
  ASSUME SqlInv, RedisInv, NEW t \in Threads, SqlRelease(t)
  PROVE  SqlInv' /\ RedisInv'
<1>0. /\ login[t] = "query" /\ login' = [login EXCEPT ![t] = "idle"]
      /\ connections' = Append(connections, sql[t])
      /\ sql' = [sql EXCEPT ![t] = 0] /\ rc' = [rc EXCEPT ![t] = 0]
      /\ UNCHANGED <<connectionCount, made, conn_que, sem>>
  BY DEF SqlRelease, Move
<1>1. /\ made \in Nat /\ connections \in Seq(1 .. made)
      /\ login \in [Threads -> LoginAt] /\ sql \in [Threads -> 0 .. made]
  BY DEF SqlInv, SqlTypes
<1>2. sql[t] # 0 /\ sql[t] \in 1 .. made
  BY <1>0, <1>1 DEF SqlInv, SqlPlaces
<1>3. /\ connections' \in Seq(1 .. made) /\ Len(connections') = Len(connections) + 1
      /\ \A i \in 1 .. Len(connections) : connections'[i] = connections[i]
      /\ connections'[Len(connections) + 1] = sql[t] /\ Len(connections) \in Nat
  BY <1>0, <1>1, <1>2, AppendProperties
<1>4. ASSUME NEW i \in 1 .. Len(connections')
      PROVE  \/ i \in 1 .. Len(connections) /\ connections'[i] = connections[i]
             \/ i = Len(connections) + 1 /\ connections'[i] = sql[t]
  BY <1>3
<1>5. /\ login' \in [Threads -> LoginAt] /\ login'[t] = "idle"
      /\ \A s \in Threads : s # t => login'[s] = login[s]
      /\ sql' \in [Threads -> 0 .. made] /\ sql'[t] = 0
      /\ \A s \in Threads : s # t => sql'[s] = sql[s]
  <2>1. /\ login' \in [Threads -> LoginAt] /\ login'[t] = "idle"
        /\ \A s \in Threads : s # t => login'[s] = login[s]
    BY <1>0, <1>1 DEF LoginAt
  <2>2. 0 \in 0 .. made
    BY <1>1
  <2>3. /\ sql' \in [Threads -> 0 .. made] /\ sql'[t] = 0
        /\ \A s \in Threads : s # t => sql'[s] = sql[s]
    BY <1>0, <1>1, <2>2
  <2> QED
    BY <2>1, <2>3
<1>6. SqlTypes'
  BY <1>0, <1>1, <1>3, <1>5 DEF SqlTypes
<1>7. SqlPlaces'
  <2>1. ASSUME NEW i \in 1 .. Len(connections'), NEW j \in 1 .. Len(connections'),
               connections'[i] = connections'[j]
        PROVE  i = j
    BY <2>1, <1>2, <1>4 DEF SqlInv, SqlPlaces
  <2>2. ASSUME NEW s \in Threads, sql'[s] # 0, NEW i \in 1 .. Len(connections')
        PROVE  connections'[i] # sql'[s]
    BY <2>2, <1>2, <1>4, <1>5 DEF SqlInv, SqlPlaces
  <2>3. ASSUME NEW r \in Threads, NEW s \in Threads, sql'[r] # 0, sql'[r] = sql'[s]
        PROVE  r = s
    BY <2>3, <1>5 DEF SqlInv, SqlPlaces
  <2>4. \A s \in Threads : sql'[s] # 0 <=> login'[s] = "query"
    BY <1>5 DEF SqlInv, SqlPlaces
  <2> QED
    BY <2>1, <2>2, <2>3, <2>4 DEF SqlPlaces
<1>8. SqlCount'
  <2>1. Lent' = Lent \ {t} /\ t \in Lent
    BY <1>2, <1>5 DEF Lent
  <2>2. Cardinality(Lent') = Cardinality(Lent) - 1
    BY <2>1, FiniteThreads, FS_RemoveElement
  <2>3. connectionCount' = Len(connections') + Cardinality(Lent')
    <3>1. connectionCount' = Len(connections) + Cardinality(Lent)
      BY <1>0 DEF SqlInv, SqlCount
    <3> QED
      BY <3>1, <2>2, <1>3, FiniteThreads
  <2> QED
    BY <1>0, <2>3 DEF SqlInv, SqlCount
<1>9. RedisInv'
  <2>1. rc' \in [Threads -> Nat]
    BY <1>0 DEF RedisInv
  <2>2. \A s \in Threads : login'[s] = "redis pop" <=> login[s] = "redis pop"
    BY <1>0, <1>5
  <2> QED
    BY <1>0, <2>1, <2>2, RedisKept
<1> QED
  BY <1>6, <1>7, <1>8, <1>9 DEF SqlInv

(* getConnection without an idle connection, and its time-out.             *)
LEMMA SqlWaitKeeps ==
  ASSUME SqlInv, RedisInv, NEW t \in Threads, SqlWait(t) \/ SqlTimeout(t)
  PROVE  SqlInv' /\ RedisInv'
<1> USE DEF Move, sqlVars, redisVars
<1>0. login \in [Threads -> LoginAt] /\ rc \in [Threads -> Nat]
  BY DEF SqlInv, SqlTypes, RedisInv
<1>1. UNCHANGED <<connections, connectionCount, made, sql, conn_que, sem>>
  BY DEF SqlWait, SqlTimeout
<1>2. /\ login[t] \in {"sql get", "sql wait"}
      /\ \/ login' = [login EXCEPT ![t] = "idle"]
         \/ login' = [login EXCEPT ![t] = "sql get"]
         \/ login' = [login EXCEPT ![t] = "sql wait"]
  BY DEF SqlWait, SqlTimeout
<1>3. login' \in [Threads -> LoginAt]
  BY <1>0, <1>2 DEF LoginAt
<1>4. \A s \in Threads : login'[s] = "query" <=> login[s] = "query"
  BY <1>0, <1>2
<1>5. \A s \in Threads : login'[s] = "redis pop" <=> login[s] = "redis pop"
  BY <1>0, <1>2
<1>6. rc' = rc \/ rc' = [rc EXCEPT ![t] = 0]
  BY DEF SqlWait, SqlTimeout
<1>7. rc' \in [Threads -> Nat]
  BY <1>0, <1>6
<1> QED
  BY <1>1, <1>3, <1>4, <1>5, <1>7, SqlKept, RedisKept

(* Waking the waiting threads moves nobody into or out of a query.         *)
LEMMA WakeKeeps ==
  ASSUME login \in [Threads -> LoginAt]
  PROVE  /\ Wake(login) \in [Threads -> LoginAt]
         /\ \A s \in Threads : Wake(login)[s] = "query" <=> login[s] = "query"
         /\ \A s \in Threads : Wake(login)[s] = "redis pop" <=> login[s] = "redis pop"
BY DEF Wake, LoginAt

(* One round of produceConnection (MySqlConnectionPool.cpp).               *)
LEMMA ProduceKeeps ==
  ASSUME SqlInv, RedisInv, produceConnection
  PROVE  SqlInv' /\ RedisInv'
<1>0. /\ made \in Nat /\ connections \in Seq(1 .. made)
      /\ login \in [Threads -> LoginAt] /\ sql \in [Threads -> 0 .. made]
      /\ rc \in [Threads -> Nat]
  BY DEF SqlInv, SqlTypes, RedisInv
<1>1. UNCHANGED <<sql, conn_que, sem, rc>>
  BY DEF produceConnection, redisVars
<1>2. login' = login \/ login' = Wake(login)
  BY DEF produceConnection
<1>3. /\ login' \in [Threads -> LoginAt]
      /\ \A s \in Threads : login'[s] = "query" <=> login[s] = "query"
      /\ \A s \in Threads : login'[s] = "redis pop" <=> login[s] = "redis pop"
  BY <1>0, <1>2, WakeKeeps
<1>4. RedisInv'
  BY <1>0, <1>1, <1>3, RedisKept
<1>5. CASE UNCHANGED <<connections, connectionCount, made>>
  BY <1>1, <1>3, <1>4, <1>5, SqlKept
<1>6. CASE /\ connections = <<>> /\ connectionCount < MaxSize
           /\ made' = made + 1 /\ connections' = <<made + 1>>
           /\ connectionCount' = connectionCount + 1
  <2>1. /\ Len(connections') = 1 /\ connections'[1] = made + 1
        /\ connections' \in Seq(1 .. made') /\ made' \in Nat
    BY <1>0, <1>6
  <2>2. sql' \in [Threads -> 0 .. made']
    <3>1. \A s \in Threads : sql[s] \in 0 .. made /\ sql[s] \in 0 .. made'
      BY <1>0, <1>6
    <3> QED
      BY <1>0, <1>1, <3>1
  <2>3. SqlTypes'
    BY <1>3, <2>1, <2>2 DEF SqlTypes
  <2>4. SqlPlaces'
    <3>1. ASSUME NEW i \in 1 .. Len(connections')
          PROVE  i = 1 /\ connections'[i] = made + 1
      BY <2>1
    <3>2. ASSUME NEW s \in Threads
          PROVE  sql'[s] = sql[s] /\ sql[s] # made + 1
      <4>1. sql[s] \in 0 .. made
        BY <1>0
      <4> QED
        BY <1>0, <1>1, <4>1
    <3>3. \A s \in Threads : sql'[s] # 0 <=> login'[s] = "query"
      BY <1>3, <3>2 DEF SqlInv, SqlPlaces
    <3>4. \A r, s \in Threads : sql'[r] # 0 /\ sql'[r] = sql'[s] => r = s
      BY <3>2 DEF SqlInv, SqlPlaces
    <3> QED
      BY <3>1, <3>2, <3>3, <3>4 DEF SqlPlaces
  <2>5. SqlCount'
    <3>1. Lent' = Lent
      BY <1>1 DEF Lent
    <3>2. Len(connections) = 0
      BY <1>6
    <3>3. connectionCount = Cardinality(Lent)
      BY <3>2, FiniteThreads DEF SqlInv, SqlCount
    <3>4. connectionCount' = Len(connections') + Cardinality(Lent')
      BY <1>6, <2>1, <3>1, <3>3, FiniteThreads
    <3>5. connectionCount' <= MaxSize /\ connectionCount' >= InitSize - 1
      BY <1>6, <3>3, FiniteThreads, PoolAssumption DEF SqlInv, SqlCount
    <3> QED
      BY <3>4, <3>5 DEF SqlCount
  <2> QED
    BY <1>4, <2>3, <2>4, <2>5 DEF SqlInv
<1> QED
  BY <1>5, <1>6 DEF produceConnection

(* One round of scanConnectionTime (MySqlConnectionPool.cpp): what         *)
(* goes are idle connections, from the front.                              *)
LEMMA ScanKeeps ==
  ASSUME SqlInv, RedisInv, scanConnectionTime
  PROVE  SqlInv' /\ RedisInv'
<1>0. /\ made \in Nat /\ connections \in Seq(1 .. made) /\ Len(connections) \in Nat
      /\ login \in [Threads -> LoginAt] /\ sql \in [Threads -> 0 .. made]
      /\ rc \in [Threads -> Nat]
  BY DEF SqlInv, SqlTypes, RedisInv
<1>1. UNCHANGED <<made, sql, login, conn_que, sem, rc>>
  BY DEF scanConnectionTime, redisVars
<1>2. RedisInv'
  BY <1>0, <1>1, RedisKept
<1>3. CASE UNCHANGED <<connections, connectionCount>>
  BY <1>0, <1>1, <1>2, <1>3, SqlKept
<1>4. ASSUME NEW k \in 1 .. Len(connections),
             connectionCount - k >= InitSize - 1,
             connections' = SubSeq(connections, k + 1, Len(connections)),
             connectionCount' = connectionCount - k
      PROVE  SqlInv'
  <2>1. /\ k \in Nat /\ k >= 1 /\ k <= Len(connections)
    BY <1>0
  <2>2. /\ Len(connections') = Len(connections) - k
        /\ \A i \in 1 .. Len(connections') :
              /\ connections'[i] = connections[i + k] /\ i + k \in 1 .. Len(connections)
              /\ connections[i + k] \in 1 .. made
    BY <1>0, <1>4, <2>1
  <2>3. connections' \in Seq(1 .. made)
    <3>1. k + 1 \in 1 .. Len(connections) + 1
      BY <1>0, <2>1
    <3>2. Len(connections) \in k .. Len(connections)
      BY <1>0, <2>1
    <3> QED
      BY <1>0, <1>4, <3>1, <3>2, SubSeqProperties
  <2>4. SqlTypes'
    BY <1>0, <1>1, <2>3 DEF SqlTypes
  <2>5. SqlPlaces'
    <3>1. ASSUME NEW i \in 1 .. Len(connections'), NEW j \in 1 .. Len(connections'),
                 connections'[i] = connections'[j]
          PROVE  i = j
      <4>1. i + k = j + k
        BY <3>1, <2>2 DEF SqlInv, SqlPlaces
      <4> QED
        BY <4>1, <2>1
    <3>2. ASSUME NEW s \in Threads, sql'[s] # 0, NEW i \in 1 .. Len(connections')
          PROVE  connections'[i] # sql'[s]
      BY <3>2, <1>1, <2>2 DEF SqlInv, SqlPlaces
    <3>3. /\ \A s \in Threads : sql'[s] # 0 <=> login'[s] = "query"
          /\ \A r, s \in Threads : sql'[r] # 0 /\ sql'[r] = sql'[s] => r = s
      BY <1>1 DEF SqlInv, SqlPlaces
    <3> QED
      BY <3>1, <3>2, <3>3 DEF SqlPlaces
  <2>6. SqlCount'
    <3>1. Lent' = Lent
      BY <1>1 DEF Lent
    <3>2. connectionCount = Len(connections) + Cardinality(Lent)
      BY DEF SqlInv, SqlCount
    <3>3. connectionCount' = Len(connections') + Cardinality(Lent')
      BY <1>0, <1>4, <2>1, <2>2, <3>1, <3>2, FiniteThreads
    <3>4. connectionCount' <= MaxSize /\ connectionCount' >= InitSize - 1
      BY <1>0, <1>4, <2>1, <3>2, FiniteThreads, PoolAssumption DEF SqlInv, SqlCount
    <3> QED
      BY <3>3, <3>4 DEF SqlCount
  <2> QED
    BY <2>4, <2>5, <2>6 DEF SqlInv
<1>5. \/ UNCHANGED <<connections, connectionCount>>
      \/ \E k \in 1 .. Len(connections) :
            /\ connectionCount - k >= InitSize - 1
            /\ connections' = SubSeq(connections, k + 1, Len(connections))
            /\ connectionCount' = connectionCount - k
  BY DEF scanConnectionTime
<1> QED
  BY <1>2, <1>3, <1>4, <1>5

(* _connectionCount counts the connections that are idle or lent, none is  *)
(* in two places, they stay within mysql.maxSize and one below             *)
(* mysql.initSize, and the semaphore of the Redis pool never promises more *)
(* than its queue holds.                                                   *)
THEOREM PoolsAlwaysAccounted == PoolSpec => []PoolsAccounted
<1>1. PoolInit => SqlInv /\ RedisInv
  BY PoolsInit
<1>2. SqlInv /\ RedisInv /\ [PoolNext]_poolVars => SqlInv' /\ RedisInv'
  <2> SUFFICES ASSUME SqlInv, RedisInv, [PoolNext]_poolVars
               PROVE  SqlInv' /\ RedisInv'
    OBVIOUS
  <2>1. CASE UNCHANGED poolVars
    <3>1. UNCHANGED <<connections, connectionCount, made, sql, login, rc, conn_que, sem>>
      BY <2>1 DEF poolVars
    <3> QED
      BY <3>1, SqlKept, RedisKept DEF SqlInv, SqlTypes, RedisInv
  <2>2. ASSUME NEW t \in Threads, LoginStep(t)
        PROVE  SqlInv' /\ RedisInv'
    BY <2>2, RedisStepsKeep, SqlTakeKeeps, SqlWaitKeeps, SqlReleaseKeeps DEF LoginStep
  <2> QED
    BY <2>1, <2>2, ProduceKeeps, ScanKeeps DEF PoolNext
<1>3. SqlInv /\ RedisInv => PoolsAccounted
  <2> SUFFICES ASSUME SqlInv, RedisInv
               PROVE  PoolsAccounted
    OBVIOUS
  <2> DEFINE idle == {connections[i] : i \in DOMAIN connections}
             held == {sql[t] : t \in Lent}
  <2>1. DOMAIN connections = 1 .. Len(connections) /\ Len(connections) \in Nat
    BY DEF SqlInv, SqlTypes
  <2>2. IsFiniteSet(DOMAIN connections) /\ Cardinality(DOMAIN connections) = Len(connections)
    <3> DEFINE n == Len(connections)
    <3>0. n \in Nat /\ 1 \in Int /\ n \in Int
      BY <2>1
    <3> HIDE DEF n
    <3>2. /\ IsFiniteSet(1 .. n)
          /\ Cardinality(1 .. n) = IF 1 > n THEN 0 ELSE n - 1 + 1
      BY <3>0, FS_Interval, Zenon
    <3>3. Cardinality(1 .. n) = n
      BY <3>0, <3>2
    <3>1. IsFiniteSet(1 .. Len(connections))
          /\ Cardinality(1 .. Len(connections)) = Len(connections)
      BY <3>2, <3>3 DEF n
    <3> QED
      BY <2>1, <3>1
  <2>3. IsFiniteSet(idle) /\ Cardinality(idle) = Len(connections)
    <3>1. \A i, j \in DOMAIN connections : connections[i] = connections[j] => i = j
      BY <2>1 DEF SqlInv, SqlPlaces
    <3> QED
      BY <2>2, <3>1, ImageSize
  <2>4. IsFiniteSet(held) /\ Cardinality(held) = Cardinality(Lent)
    <3>1. \A s, t \in Lent : sql[s] = sql[t] => s = t
      BY DEF SqlInv, SqlPlaces, Lent
    <3> QED
      BY <3>1, FiniteThreads, ImageSize
  <2>5. held \cap idle = {}
    BY <2>1 DEF SqlInv, SqlPlaces, Lent
  <2> HIDE DEF held, idle
  <2>6. Cardinality(held \cup idle) = Cardinality(held) + Cardinality(idle)
    <3>1. Cardinality(held \cap idle) = 0
      BY <2>5, FS_EmptySet
    <3>2. Cardinality(held \cup idle)
            = Cardinality(held) + Cardinality(idle) - Cardinality(held \cap idle)
      BY <2>3, <2>4, FS_Union
    <3>3. Cardinality(held) \in Nat /\ Cardinality(idle) \in Nat
      BY <2>3, <2>4, FS_CardinalityType
    <3> QED
      BY <3>1, <3>2, <3>3
  <2>7. connectionCount = Len(connections) + Cardinality(Lent)
    BY DEF SqlInv, SqlCount
  <2>8. Cardinality(held \cup idle) = connectionCount
    BY <2>1, <2>3, <2>4, <2>6, <2>7, FiniteThreads
  <2>9. RedisPromise
    BY DEF RedisInv, RedisPromise, Popping
  <2>10. connectionCount <= MaxSize /\ connectionCount >= InitSize - 1
    BY DEF SqlInv, SqlCount
  <2> QED
    BY <2>3, <2>7, <2>8, <2>9, <2>10 DEF PoolsAccounted, held, idle, Lent
<1> QED
  BY <1>1, <1>2, <1>3, PTL DEF PoolSpec

-----------------------------------------------------------------------------
(* The buffer.                                                             *)

\* Buffer b holds, between its indices, the bytes numbered t + 1 to g.
Holds(b, g, t) ==
    /\ b \in [bytes : Seq(Nat), reader : Nat, writer : Nat]
    /\ g \in Nat /\ t \in Nat
    /\ kCheapPrepend <= b.reader /\ b.reader <= b.writer /\ b.writer <= Len(b.bytes)
    /\ b.writer - b.reader = g - t
    /\ \A i \in b.reader + 1 .. b.writer : b.bytes[i] = t + (i - b.reader)

\* data are the bytes numbered from g + 1.
From(data, g) == data \in Seq(Nat) /\ \A i \in 1 .. Len(data) : data[i] = g + i

(* What a buffer is made of.                                               *)
LEMMA BufferFields ==
  ASSUME NEW b, NEW g, NEW t, Holds(b, g, t)
  PROVE  \E bytes \in Seq(Nat), r \in Nat, w \in Nat :
            /\ b = [bytes |-> bytes, reader |-> r, writer |-> w]
            /\ kCheapPrepend <= r /\ r <= w /\ w <= Len(bytes) /\ w - r = g - t
            /\ \A i \in r + 1 .. w : bytes[i] = t + (i - r)
            /\ g \in Nat /\ t \in Nat
<1>1. /\ b.bytes \in Seq(Nat) /\ b.reader \in Nat /\ b.writer \in Nat
      /\ b = [bytes |-> b.bytes, reader |-> b.reader, writer |-> b.writer]
  BY DEF Holds
<1> QED
  BY <1>1 DEF Holds

(* A buffer whose indices and bytes are right.                             *)
LEMMA HoldsWhen ==
  ASSUME NEW bytes \in Seq(Nat), NEW r \in Nat, NEW w \in Nat, NEW g \in Nat, NEW t \in Nat,
         kCheapPrepend <= r, r <= w, w <= Len(bytes), w - r = g - t,
         \A i \in r + 1 .. w : bytes[i] = t + (i - r)
  PROVE  Holds([bytes |-> bytes, reader |-> r, writer |-> w], g, t)
BY DEF Holds

(* retrieve and retrieveAll take from the front (Buffer.h).                *)
LEMMA RetrieveKeeps ==
  ASSUME NEW b, NEW g, NEW t, Holds(b, g, t), NEW len \in 0 .. readableBytes(b)
  PROVE  Holds(retrieve(b, len), g, t + len)
<1>0. PICK bytes \in Seq(Nat), r \in Nat, w \in Nat :
            /\ b = [bytes |-> bytes, reader |-> r, writer |-> w]
            /\ kCheapPrepend <= r /\ r <= w /\ w <= Len(bytes) /\ w - r = g - t
            /\ \A i \in r + 1 .. w : bytes[i] = t + (i - r)
            /\ g \in Nat /\ t \in Nat
  BY BufferFields
<1>1. len \in Nat /\ len <= w - r /\ t + len \in Nat /\ Len(bytes) \in Nat
      /\ kCheapPrepend \in Nat
  BY <1>0, BufferAssumption DEF readableBytes
<1>3. CASE len < w - r
  <2>1. retrieve(b, len) = [bytes |-> bytes, reader |-> r + len, writer |-> w]
    BY <1>0, <1>3 DEF retrieve, readableBytes
  <2>2. \A i \in (r + len) + 1 .. w : bytes[i] = (t + len) + (i - (r + len))
    BY <1>0, <1>1
  <2>3. /\ kCheapPrepend <= r + len /\ r + len <= w
        /\ w - (r + len) = g - (t + len) /\ r + len \in Nat
    BY <1>0, <1>1, <1>3
  <2>4. Holds([bytes |-> bytes, reader |-> r + len, writer |-> w], g, t + len)
    BY <2>2, <2>3, <1>0, <1>1, HoldsWhen
  <2> QED
    BY <2>1, <2>4
<1>4. CASE ~(len < w - r)
  <2>1. retrieve(b, len) = [bytes |-> bytes, reader |-> kCheapPrepend, writer |-> kCheapPrepend]
    BY <1>0, <1>4 DEF retrieve, retrieveAll, readableBytes
  <2>2. /\ kCheapPrepend - kCheapPrepend = g - (t + len) /\ kCheapPrepend <= Len(bytes)
        /\ kCheapPrepend <= kCheapPrepend
    BY <1>0, <1>1, <1>4
  <2>3. \A i \in kCheapPrepend + 1 .. kCheapPrepend : bytes[i] = (t + len) + (i - kCheapPrepend)
    BY <1>1
  <2>4. Holds([bytes |-> bytes, reader |-> kCheapPrepend, writer |-> kCheapPrepend], g, t + len)
    BY <2>2, <2>3, <1>0, <1>1, HoldsWhen
  <2> QED
    BY <2>1, <2>4
<1> QED
  BY <1>3, <1>4

(* Part of a sequence.                                                     *)
LEMMA PartOf ==
  ASSUME NEW bytes \in Seq(Nat), NEW r \in Nat, NEW w \in Nat, r <= w, w <= Len(bytes)
  PROVE  /\ SubSeq(bytes, r + 1, w) \in Seq(Nat)
         /\ Len(SubSeq(bytes, r + 1, w)) = w - r
         /\ \A i \in 1 .. w - r : SubSeq(bytes, r + 1, w)[i] = bytes[r + i]
<1>1. \A i \in r + 1 .. w : bytes[i] \in Nat
  OBVIOUS
<1>2. SubSeq(bytes, r + 1, w) \in Seq(Nat)
  <2> DEFINE n == r + 1
  <2>1. n \in Int /\ w \in Int /\ \A i \in n .. w : bytes[i] \in Nat
    BY <1>1
  <2> HIDE DEF n
  <2>2. SubSeq(bytes, n, w) \in Seq(Nat)
    BY <2>1, SubSeqProperties
  <2> QED
    BY <2>2 DEF n
<1>3. Len(SubSeq(bytes, r + 1, w)) = w - r
  OBVIOUS
<1>4. \A i \in 1 .. w - r : SubSeq(bytes, r + 1, w)[i] = bytes[r + i]
  OBVIOUS
<1> QED
  BY <1>2, <1>3, <1>4

(* Store keeps the length and changes only the places it stores to.        *)
LEMMA StoreStores ==
  ASSUME NEW bytes \in Seq(Nat), NEW at \in Nat, NEW data \in Seq(Nat)
  PROVE  /\ Store(bytes, at, data) \in Seq(Nat)
         /\ Len(Store(bytes, at, data)) = Len(bytes)
         /\ \A i \in 1 .. Len(bytes) : i <= at => Store(bytes, at, data)[i] = bytes[i]
         /\ \A i \in 1 .. Len(bytes) : i > at /\ i <= at + Len(data) =>
               Store(bytes, at, data)[i] = data[i - at]
<1> DEFINE f == [i \in 1 .. Len(bytes) |-> IF i - at \in 1 .. Len(data)
                                           THEN data[i - at] ELSE bytes[i]]
<1>1. /\ DOMAIN bytes = 1 .. Len(bytes) /\ DOMAIN data = 1 .. Len(data)
      /\ Len(bytes) \in Nat /\ Len(data) \in Nat
  OBVIOUS
<1>2. Store(bytes, at, data) = f
  BY <1>1 DEF Store
<1>3. \A i \in 1 .. Len(bytes) : (IF i - at \in 1 .. Len(data)
                                  THEN data[i - at] ELSE bytes[i]) \in Nat
  BY <1>1
<1>4. f \in [1 .. Len(bytes) -> Nat]
  BY <1>3
<1>5. f \in Seq(Nat) /\ Len(f) = Len(bytes)
  BY <1>1, <1>4
<1>6. ASSUME NEW i \in 1 .. Len(bytes), i <= at
      PROVE  f[i] = bytes[i]
  BY <1>1, <1>6
<1>7. ASSUME NEW i \in 1 .. Len(bytes), i > at, i <= at + Len(data)
      PROVE  f[i] = data[i - at]
  BY <1>1, <1>7
<1> HIDE DEF f
<1> QED
  BY <1>2, <1>5, <1>6, <1>7

(* makeSpace keeps what is readable and makes the room asked for, by       *)
(* growing the vector or by moving the content (Buffer.h, makeSpace).      *)
LEMMA MakeSpaceKeeps ==
  ASSUME NEW b, NEW g, NEW t, Holds(b, g, t), NEW len \in Nat, writableBytes(b) < len
  PROVE  /\ Holds(makeSpace(b, len), g, t)
         /\ writableBytes(makeSpace(b, len)) >= len
<1>0. PICK bytes \in Seq(Nat), r \in Nat, w \in Nat :
            /\ b = [bytes |-> bytes, reader |-> r, writer |-> w]
            /\ kCheapPrepend <= r /\ r <= w /\ w <= Len(bytes) /\ w - r = g - t
            /\ \A i \in r + 1 .. w : bytes[i] = t + (i - r)
            /\ g \in Nat /\ t \in Nat
  BY BufferFields
<1>1. Len(bytes) \in Nat /\ kCheapPrepend \in Nat /\ DOMAIN bytes = 1 .. Len(bytes)
  BY BufferAssumption
<1>2. /\ writableBytes(b) = Len(bytes) - w /\ prependableBytes(b) = r
      /\ readableBytes(b) = w - r /\ toString(b) = SubSeq(bytes, r + 1, w)
  BY <1>0 DEF writableBytes, prependableBytes, readableBytes, toString, size
<1>3. CASE (Len(bytes) - w) + r < len + kCheapPrepend
  <2> DEFINE f == [i \in 1 .. w + len |-> IF i \in 1 .. Len(bytes) THEN bytes[i] ELSE Free]
  <2>1. makeSpace(b, len) = [bytes |-> f, reader |-> r, writer |-> w]
    BY <1>0, <1>1, <1>2, <1>3 DEF makeSpace
  <2>2. f \in [1 .. w + len -> Nat]
    BY <1>1 DEF Free
  <2>3. f \in Seq(Nat) /\ Len(f) = w + len
    BY <2>2
  <2>4. \A i \in r + 1 .. w : f[i] = t + (i - r)
    BY <1>0, <1>1
  <2> HIDE DEF f
  <2>5. Holds([bytes |-> f, reader |-> r, writer |-> w], g, t)
    <3>1. w <= Len(f)
      BY <2>3
    <3> QED
      BY <1>0, <2>3, <2>4, <3>1, HoldsWhen
  <2>6. writableBytes(makeSpace(b, len)) = (w + len) - w
    BY <2>1, <2>3 DEF writableBytes, size
  <2> QED
    BY <2>1, <2>5, <2>6
<1>4. CASE ~((Len(bytes) - w) + r < len + kCheapPrepend)
  <2> DEFINE s == SubSeq(bytes, r + 1, w)
             f == Store(bytes, kCheapPrepend, s)
             v == kCheapPrepend + (w - r)
  <2>1. makeSpace(b, len) = [bytes |-> f, reader |-> kCheapPrepend, writer |-> v]
    BY <1>0, <1>1, <1>2, <1>4 DEF makeSpace
  <2>2. /\ s \in Seq(Nat) /\ Len(s) = w - r
        /\ \A i \in 1 .. w - r : s[i] = t + i
    <3>2. /\ s \in Seq(Nat) /\ Len(s) = w - r
          /\ \A i \in 1 .. w - r : s[i] = bytes[r + i]
      BY <1>0, PartOf
    <3>4. ASSUME NEW i \in 1 .. w - r
          PROVE  s[i] = t + i
      <4>1. s[i] = bytes[r + i] /\ r + i \in r + 1 .. w
        BY <3>2
      <4> QED
        BY <4>1, <1>0
    <3> QED
      BY <3>2, <3>4
  <2> HIDE DEF s
  <2>3. /\ f \in Seq(Nat) /\ Len(f) = Len(bytes)
        /\ \A i \in 1 .. Len(bytes) : i > kCheapPrepend /\ i <= kCheapPrepend + Len(s) =>
              f[i] = s[i - kCheapPrepend]
    BY <1>1, <2>2, StoreStores
  <2> HIDE DEF f
  <2>4. v \in Nat /\ kCheapPrepend <= v /\ v - kCheapPrepend = g - t /\ v <= Len(bytes)
    BY <1>0, <1>1
  <2>5. ASSUME NEW i \in kCheapPrepend + 1 .. v
        PROVE  f[i] = t + (i - kCheapPrepend)
    <3>1. /\ i \in 1 .. Len(bytes) /\ i > kCheapPrepend /\ i <= kCheapPrepend + Len(s)
          /\ i - kCheapPrepend \in 1 .. w - r
      BY <2>2, <2>4, <1>0, <1>1
    <3> QED
      BY <3>1, <2>2, <2>3
  <2>6. v <= Len(f) /\ kCheapPrepend <= kCheapPrepend
    BY <2>3, <2>4, <1>1
  <2>7. writableBytes(makeSpace(b, len)) = Len(bytes) - v
    BY <2>1, <2>3 DEF writableBytes, size
  <2>8. Len(bytes) - v >= len
    BY <1>0, <1>1, <1>4
  <2> HIDE DEF v
  <2>9. Holds([bytes |-> f, reader |-> kCheapPrepend, writer |-> v], g, t)
    BY <1>0, <1>1, <2>3, <2>4, <2>5, <2>6, HoldsWhen
  <2> QED
    BY <2>1, <2>7, <2>8, <2>9
<1> QED
  BY <1>3, <1>4

(* Storing where there is room.                                            *)
LEMMA StoreKeeps ==
  ASSUME NEW b, NEW g, NEW t, Holds(b, g, t), NEW data, From(data, g),
         Len(data) <= writableBytes(b)
  PROVE  Holds(Stored(b, data), g + Len(data), t)
<1>0. PICK bytes \in Seq(Nat), r \in Nat, w \in Nat :
            /\ b = [bytes |-> bytes, reader |-> r, writer |-> w]
            /\ kCheapPrepend <= r /\ r <= w /\ w <= Len(bytes) /\ w - r = g - t
            /\ \A i \in r + 1 .. w : bytes[i] = t + (i - r)
            /\ g \in Nat /\ t \in Nat
  BY BufferFields
<1> DEFINE f == Store(bytes, w, data)
           n == Len(data)
<1>1. /\ data \in Seq(Nat) /\ n \in Nat /\ n <= Len(bytes) - w /\ Len(bytes) \in Nat
      /\ kCheapPrepend \in Nat /\ \A i \in 1 .. n : data[i] = g + i
  BY <1>0, BufferAssumption DEF From, writableBytes, size
<1>2. /\ f \in Seq(Nat) /\ Len(f) = Len(bytes)
      /\ \A i \in 1 .. Len(bytes) : i <= w => f[i] = bytes[i]
      /\ \A i \in 1 .. Len(bytes) : i > w /\ i <= w + n => f[i] = data[i - w]
  BY <1>1, StoreStores
<1>3. Stored(b, data) = [bytes |-> f, reader |-> r, writer |-> w + n]
  BY <1>0 DEF Stored
<1> HIDE DEF f, n
<1>4. ASSUME NEW i \in r + 1 .. w + n
      PROVE  f[i] = t + (i - r)
  <2>1. i \in 1 .. Len(bytes)
    BY <1>0, <1>1
  <2>2. CASE i <= w
    <3>1. i \in r + 1 .. w
      BY <2>2, <1>0
    <3> QED
      BY <3>1, <2>1, <2>2, <1>0, <1>2
  <2>3. CASE ~(i <= w)
    <3>1. i > w /\ i <= w + n /\ i - w \in 1 .. n
      BY <2>1, <2>3, <1>0, <1>1
    <3>2. f[i] = g + (i - w)
      BY <3>1, <2>1, <1>1, <1>2
    <3> QED
      BY <3>2, <2>1, <1>0, <1>1
  <2> QED
    BY <2>2, <2>3
<1>5. /\ w + n \in Nat /\ g + n \in Nat /\ r <= w + n /\ w + n <= Len(f)
      /\ (w + n) - r = (g + n) - t
  BY <1>0, <1>1, <1>2
<1>6. Holds([bytes |-> f, reader |-> r, writer |-> w + n], g + n, t)
  BY <1>0, <1>2, <1>4, <1>5, HoldsWhen
<1> QED
  BY <1>3, <1>6 DEF n

(* append makes room and stores (Buffer.cpp, append).                      *)
LEMMA AppendKeeps ==
  ASSUME NEW b, NEW g, NEW t, Holds(b, g, t), NEW data, From(data, g)
  PROVE  Holds(bufferAppend(b, data), g + Len(data), t)
<1> DEFINE e == ensureWritable(b, Len(data))
<1>1. Len(data) \in Nat
  BY DEF From
<1>2. writableBytes(b) \in Int
  <2>1. b.bytes \in Seq(Nat) /\ b.writer \in Nat
    BY DEF Holds
  <2>2. Len(b.bytes) \in Nat
    BY <2>1
  <2> QED
    BY <2>1, <2>2 DEF writableBytes, size
<1>3. Holds(e, g, t) /\ Len(data) <= writableBytes(e)
  <2>1. CASE writableBytes(b) < Len(data)
    <3>1. e = makeSpace(b, Len(data))
      BY <2>1 DEF ensureWritable
    <3>2. Holds(e, g, t) /\ writableBytes(e) >= Len(data)
      BY <3>1, <2>1, <1>1, MakeSpaceKeeps
    <3> QED
      BY <3>2
  <2>2. CASE ~(writableBytes(b) < Len(data))
    <3>1. e = b
      BY <2>2 DEF ensureWritable
    <3> QED
      BY <3>1, <2>2, <1>1, <1>2
  <2> QED
    BY <2>1, <2>2
<1> HIDE DEF e
<1>4. Holds(Stored(e, data), g + Len(data), t)
  BY <1>3, StoreKeeps
<1> QED
  BY <1>4 DEF bufferAppend, e

(* A read fills the room there is and appends the rest (Buffer.cpp,        *)
(* readFd).                                                                *)
LEMMA ReadKeeps ==
  ASSUME NEW b, NEW g, NEW t, Holds(b, g, t), NEW data, From(data, g)
  PROVE  Holds(ReadIn(b, data), g + Len(data), t)
<1> DEFINE m == writableBytes(b)
           n == Len(data)
           head == SubSeq(data, 1, m)
           tail == SubSeq(data, m + 1, n)
<1>0. /\ data \in Seq(Nat) /\ n \in Nat /\ g \in Nat
      /\ \A i \in 1 .. n : data[i] = g + i
  BY DEF From, Holds
<1>1. m \in Nat
  <2>1. b.bytes \in Seq(Nat) /\ b.writer \in Nat /\ b.writer <= Len(b.bytes)
    BY DEF Holds
  <2>2. Len(b.bytes) \in Nat
    BY <2>1
  <2> QED
    BY <2>1, <2>2 DEF writableBytes, size
<1>2. CASE n <= m
  <2>1. ReadIn(b, data) = Stored(b, data)
    BY <1>2 DEF ReadIn
  <2> QED
    BY <2>1, <1>2, StoreKeeps
<1>3. CASE ~(n <= m)
  <2>1. ReadIn(b, data) = bufferAppend(Stored(b, head), tail)
    BY <1>3 DEF ReadIn
  <2> HIDE DEF m, n
  <2>2. m <= n
    BY <1>0, <1>1, <1>3
  <2>3. From(head, g) /\ Len(head) = m
    <3>1. /\ SubSeq(data, 0 + 1, m) \in Seq(Nat) /\ Len(SubSeq(data, 0 + 1, m)) = m - 0
          /\ \A i \in 1 .. m - 0 : SubSeq(data, 0 + 1, m)[i] = data[0 + i]
      BY <1>0, <1>1, <2>2, PartOf DEF n
    <3>2. head \in Seq(Nat) /\ Len(head) = m
      BY <3>1, <1>1
    <3>3. \A i \in 1 .. m : head[i] = data[i] /\ i \in 1 .. n
      BY <3>1, <1>0, <1>1, <2>2
    <3> QED
      BY <3>2, <3>3, <1>0 DEF From
  <2>4. From(tail, g + m) /\ Len(tail) = n - m
    <3>1. /\ tail \in Seq(Nat) /\ Len(tail) = n - m
          /\ \A i \in 1 .. n - m : tail[i] = data[m + i]
      BY <1>0, <1>1, <2>2, PartOf DEF n
    <3>2. ASSUME NEW i \in 1 .. n - m
          PROVE  tail[i] = (g + m) + i
      <4>1. m + i \in 1 .. n /\ tail[i] = data[m + i]
        BY <3>1, <1>0, <1>1, <2>2
      <4>2. tail[i] = g + (m + i)
        BY <4>1, <1>0
      <4> QED
        BY <4>2, <1>0, <1>1
    <3> QED
      BY <3>1, <3>2 DEF From
  <2> HIDE DEF head, tail
  <2>5. m <= writableBytes(b)
    BY <1>1 DEF m
  <2>6. Holds(Stored(b, head), g + m, t)
    BY <2>3, <2>5, StoreKeeps
  <2>7. Holds(bufferAppend(Stored(b, head), tail), (g + m) + (n - m), t)
    BY <2>4, <2>6, AppendKeeps
  <2>8. (g + m) + (n - m) = g + n
    BY <1>0, <1>1
  <2> QED
    BY <2>1, <2>7, <2>8 DEF n
<1> QED
  BY <1>2, <1>3

(* What comes in is numbered on.                                           *)
LEMMA Numbered ==
  ASSUME NEW g \in Nat, NEW len \in Nat
  PROVE  From([i \in 1 .. len |-> g + i], g) /\ Len([i \in 1 .. len |-> g + i]) = len
BY DEF From

BufferInv == Holds(buffer, given, taken)

(* However the buffer grows, moves its content or takes part of a read     *)
(* from the stack, its readable bytes are the ones given and not yet taken *)
(* (Buffer.cpp: append, readFd, readFdET, writeFd, retrieve).              *)
THEOREM BufferAlwaysQueue == BufferSpec => []BufferIsQueue
<1>1. BufferInit => BufferInv
  <2> SUFFICES ASSUME BufferInit
               PROVE  BufferInv
    OBVIOUS
  <2> DEFINE n == kCheapPrepend + InitialSize
             f == [i \in 1 .. n |-> Free]
  <2>1. n \in Nat /\ kCheapPrepend \in Nat /\ kCheapPrepend <= n
    BY BufferAssumption
  <2>2. f \in Seq(Nat) /\ Len(f) = n
    BY <2>1 DEF Free
  <2>3. buffer = [bytes |-> f, reader |-> kCheapPrepend, writer |-> kCheapPrepend]
        /\ given = 0 /\ taken = 0
    BY DEF BufferInit
  <2> HIDE DEF f, n
  <2>4. /\ kCheapPrepend <= kCheapPrepend /\ kCheapPrepend <= Len(f)
        /\ kCheapPrepend - kCheapPrepend = 0 - 0
        /\ \A i \in kCheapPrepend + 1 .. kCheapPrepend : f[i] = 0 + (i - kCheapPrepend)
    BY <2>1, <2>2
  <2>5. Holds([bytes |-> f, reader |-> kCheapPrepend, writer |-> kCheapPrepend], 0, 0)
    BY <2>1, <2>2, <2>4, HoldsWhen
  <2> QED
    BY <2>3, <2>5 DEF BufferInv
<1>2. BufferInv /\ [BufferNext]_bufferVars => BufferInv'
  <2> SUFFICES ASSUME BufferInv, [BufferNext]_bufferVars
               PROVE  BufferInv'
    OBVIOUS
  <2>0. Holds(buffer, given, taken) /\ given \in Nat /\ taken \in Nat
    BY DEF BufferInv, Holds
  <2>r. readableBytes(buffer) \in Nat
    BY <2>0 DEF Holds, readableBytes
  <2>1. ASSUME NEW len \in 0 .. MaxBytes, AppendData(len) \/ readFd(len)
        PROVE  BufferInv'
    <3>1. len \in Nat
      BY BufferAssumption
    <3>2. From(Incoming(len), given) /\ Len(Incoming(len)) = len
      BY <2>0, <3>1, Numbered DEF Incoming
    <3>3. /\ buffer' = bufferAppend(buffer, Incoming(len))
             \/ buffer' = ReadIn(buffer, Incoming(len))
          /\ given' = given + len /\ taken' = taken
      BY <2>1 DEF AppendData, readFd
    <3>4. Holds(buffer', given + len, taken)
      BY <2>0, <3>2, <3>3, AppendKeeps, ReadKeeps
    <3> QED
      BY <3>3, <3>4 DEF BufferInv
  <2>2. ASSUME NEW len \in 0 .. MaxBytes, Retrieve(len)
        PROVE  BufferInv'
    <3>1. Holds(retrieve(buffer, len), given, taken + len)
      BY <2>0, <2>2, RetrieveKeeps DEF Retrieve
    <3> QED
      BY <3>1, <2>2 DEF Retrieve, BufferInv
  <2>3. ASSUME NEW len \in 0 .. MaxBytes, NEW more \in 0 .. MaxBytes, readFdET(len, more)
        PROVE  BufferInv'
    <3> DEFINE b == ReadIn(buffer, Incoming(len))
               data == [i \in 1 .. more |-> given + len + i]
    <3>1. len \in Nat /\ more \in Nat /\ given + len \in Nat
      BY <2>0, BufferAssumption
    <3>2. From(Incoming(len), given) /\ Len(Incoming(len)) = len
      BY <2>0, <3>1, Numbered DEF Incoming
    <3>3. Holds(b, given + len, taken)
      BY <2>0, <3>2, ReadKeeps
    <3>4. /\ buffer' = IF more = 0 THEN b ELSE ReadIn(b, data)
          /\ given' = given + len + more /\ taken' = taken
      BY <2>3 DEF readFdET
    <3>5. From(data, given + len) /\ Len(data) = more
      BY <3>1, Numbered
    <3> HIDE DEF b, data
    <3>6. Holds(ReadIn(b, data), given + len + more, taken)
      BY <3>3, <3>5, ReadKeeps
    <3>7. CASE more = 0
      <4>1. given' = given + len /\ buffer' = b
        BY <3>1, <3>4, <3>7
      <4> QED
        BY <4>1, <3>3, <3>4 DEF BufferInv
    <3>8. CASE more # 0
      BY <3>4, <3>6, <3>8 DEF BufferInv
    <3> QED
      BY <3>7, <3>8
  <2>4. ASSUME NEW len \in 0 .. MaxBytes, NEW more \in 0 .. MaxBytes, writeFd(len, more)
        PROVE  BufferInv'
    <3> DEFINE b == retrieve(buffer, len)
    <3>1. /\ len \in 1 .. readableBytes(buffer) /\ more \in 0 .. readableBytes(buffer) - len
          /\ buffer' = IF more = 0 THEN b ELSE retrieve(b, more)
          /\ taken' = taken + len + more /\ given' = given
      BY <2>4 DEF writeFd
    <3>2. len \in 0 .. readableBytes(buffer) /\ len \in Nat /\ more \in Nat
      BY <2>r, <3>1
    <3>3. Holds(b, given, taken + len)
      BY <2>0, <3>2, RetrieveKeeps
    <3> HIDE DEF b
    <3>4. readableBytes(b) = readableBytes(buffer) - len
      <4>1. /\ b.writer - b.reader = given - (taken + len)
            /\ buffer.writer - buffer.reader = given - taken
        BY <2>0, <3>3 DEF Holds
      <4> QED
        BY <4>1, <2>0, <3>2 DEF readableBytes
    <3>5. more \in 0 .. readableBytes(b)
      BY <3>1, <3>4
    <3>6. Holds(retrieve(b, more), given, taken + len + more)
      BY <3>3, <3>5, RetrieveKeeps
    <3>7. CASE more = 0
      <4>1. taken' = taken + len /\ buffer' = b
        BY <2>0, <3>1, <3>2, <3>7
      <4> QED
        BY <4>1, <3>1, <3>3 DEF BufferInv
    <3>8. CASE more # 0
      BY <3>1, <3>6, <3>8 DEF BufferInv
    <3> QED
      BY <3>7, <3>8
  <2>5. CASE RetrieveAll
    <3> DEFINE n == readableBytes(buffer)
    <3>1. n \in 0 .. readableBytes(buffer) /\ ~(n < readableBytes(buffer))
      BY <2>r
    <3>2. Holds(retrieve(buffer, n), given, taken + n)
      BY <2>0, <3>1, RetrieveKeeps
    <3>3. retrieve(buffer, n) = retrieveAll(buffer)
      BY <3>1 DEF retrieve
    <3> QED
      BY <2>5, <3>2, <3>3 DEF RetrieveAll, BufferInv
  <2>6. CASE UNCHANGED bufferVars
    BY <2>6 DEF bufferVars, BufferInv
  <2> QED
    BY <2>1, <2>2, <2>3, <2>4, <2>5, <2>6 DEF BufferNext
<1>3. BufferInv => BufferIsQueue
  <2> SUFFICES ASSUME BufferInv
               PROVE  BufferIsQueue
    OBVIOUS
  <2>1. Holds(buffer, given, taken)
    BY DEF BufferInv
  <2>2. PICK bytes \in Seq(Nat), r \in Nat, w \in Nat :
            /\ buffer = [bytes |-> bytes, reader |-> r, writer |-> w]
            /\ kCheapPrepend <= r /\ r <= w /\ w <= Len(bytes) /\ w - r = given - taken
            /\ \A i \in r + 1 .. w : bytes[i] = taken + (i - r)
            /\ given \in Nat /\ taken \in Nat
    BY <2>1, BufferFields
  <2> DEFINE s == SubSeq(bytes, r + 1, w)
             f == [i \in 1 .. given - taken |-> taken + i]
  <2>3. /\ s \in Seq(Nat) /\ Len(s) = w - r
        /\ \A i \in 1 .. w - r : s[i] = bytes[r + i]
    BY <2>2, PartOf
  <2>4. ASSUME NEW i \in 1 .. w - r
        PROVE  s[i] = taken + i
    <3>1. r + i \in r + 1 .. w
      BY <2>2
    <3> QED
      BY <3>1, <2>2, <2>3
  <2>5. toString(buffer) = s
    BY <2>2 DEF toString
  <2> HIDE DEF s
  <2>6. s = f
    <3>1. s = [i \in 1 .. w - r |-> s[i]]
      BY <2>3
    <3> QED
      BY <3>1, <2>2, <2>4
  <2>7. kCheapPrepend <= buffer.reader /\ buffer.reader <= buffer.writer
        /\ buffer.writer <= size(buffer)
    BY <2>2 DEF size
  <2> QED
    BY <2>5, <2>6, <2>7 DEF BufferIsQueue
<1> QED
  BY <1>1, <1>2, <1>3, PTL DEF BufferSpec

-----------------------------------------------------------------------------
(* The asynchronous log.                                                   *)

Line == [n : Nat, len : Nat]
Buffers == Seq(Seq(Line))
Empties == {<<>>, << <<>> >>}

\* The buffers and the places they are in: one in _cur, at most one, with
\* nothing in it, in _next, buf1 and buf2.
LogTypes ==
    /\ files \in Buffers /\ files # <<>>
    /\ buffers \in Buffers /\ buf_to_write \in Buffers
    /\ cur \in Buffers /\ Len(cur) = 1
    /\ next \in Empties /\ buf1 \in Empties /\ buf2 \in Empties
    /\ logged \in Nat /\ dropped \subseteq 1 .. logged

\* The writer has both its spare buffers whenever it may swap; while it
\* writes, the batch holds as many buffers as it gave away.
Spares ==
    /\ next = Null => Len(buffers) >= 1
    /\ writer \in {"while", "swap"} => buf1 # Null /\ buf2 # Null
    /\ writer \in {"write", "reuse"} =>
          /\ buf1 = Null /\ Len(buf_to_write) >= 1
          /\ buf2 = Null => Len(buf_to_write) >= 2
    /\ writer \in {"while", "swap", "write", "reuse", "end"}

\* The lines that were logged and not dropped are there, in their order.
InOrder == Rising(AllBuffers) /\ Numbers(AllBuffers) = (1 .. logged) \ dropped

LogInv == LogTypes /\ Spares /\ InOrder

-----------------------------------------------------------------------------
(* What is computed one place after the other: every set of numbers that   *)
(* is not empty has a least one, so a statement about all places has no    *)
(* first counterexample.                                                   *)

(* The least counterexample.                                               *)
LEMMA LeastOf ==
  ASSUME NEW T, T \subseteq Nat, T # {}
  PROVE  \E n \in T : \A m \in T : n <= m
<1>1. PICK R : R = {p \in Nat \X Nat : p[1] < p[2]}
  OBVIOUS
<1>2. IsWellFoundedOn(R, Nat)
  BY NatLessThanWellFounded, <1>1 DEF OpToRel
<1>3. PICK n \in T : \A m \in T : ~(<<m, n>> \in R)
  BY <1>2, WFMin
<1>4. \A m \in T : ~(m < n)
  BY <1>3, <1>1
<1> QED
  BY <1>4

(* The length of an empty buffer (LogBuffer::length).                      *)
LEMMA EmptyLength == Length(<<>>) = 0
<1> DEFINE IsSum(f) == f = [i \in 0 .. 0 |-> IF i = 0 THEN 0 ELSE f[i - 1] + <<>>[i].len]
<1>1. PICK g : g = CHOOSE f : IsSum(f)
  OBVIOUS
<1>2. PICK h : h = [i \in 0 .. 0 |-> 0]
  OBVIOUS
<1>3. IsSum(h)
  BY <1>2
<1>4. IsSum(g)
  BY <1>1, <1>3
<1>5. g[0] = 0
  BY <1>4
<1>6. Len(<<>>) = 0
  OBVIOUS
<1> HIDE DEF IsSum
<1>7. Length(<<>>) = g[0]
  BY <1>1, <1>6 DEF Length, IsSum
<1> QED
  BY <1>5, <1>7

\* How much of a LogStream the first k parts of a message use.
IsUsed(g, parts, k) ==
  g = [i \in 0 .. k |-> IF i = 0 THEN 0 ELSE Inserted(g[i - 1], parts[i])]

(* There is such a function.                                               *)
LEMMA UsedExists ==
  ASSUME NEW parts, NEW n \in Nat
  PROVE  \E g : IsUsed(g, parts, n)
<1> SUFFICES ASSUME ~ \E g : IsUsed(g, parts, n) PROVE FALSE
  OBVIOUS
<1>1. PICK T : T = {k \in Nat : ~ \E g : IsUsed(g, parts, k)}
  OBVIOUS
<1>2. PICK k \in T : \A m \in T : k <= m
  <2>1. n \in T BY <1>1
  <2> QED BY <1>1, <2>1, LeastOf
<1>3. k \in Nat /\ k # 0
  <2>1. IsUsed([i \in 0 .. 0 |-> 0], parts, 0) BY DEF IsUsed
  <2> QED BY <1>1, <1>2, <2>1
<1>4. PICK g : IsUsed(g, parts, k - 1)
  BY <1>1, <1>2, <1>3
<1>5. PICK h : h = [i \in 0 .. k |-> IF i = k THEN Inserted(g[k - 1], parts[k]) ELSE g[i]]
  OBVIOUS
<1>6. ASSUME NEW i \in 0 .. k PROVE h[i] = IF i = 0 THEN 0 ELSE Inserted(h[i - 1], parts[i])
  <2>1. CASE i = k
    BY <2>1, <1>3, <1>5
  <2>2. CASE i # k
    <3>1. i \in 0 .. k - 1 /\ (i # 0 => i - 1 \in 0 .. k - 1 /\ i - 1 # k)
      BY <2>2, <1>3
    <3>2. h[i] = g[i] /\ (i # 0 => h[i - 1] = g[i - 1])
      BY <3>1, <1>5, <1>3, <2>2
    <3>3. g[i] = IF i = 0 THEN 0 ELSE Inserted(g[i - 1], parts[i])
      BY <3>1, <1>4 DEF IsUsed
    <3> QED BY <3>2, <3>3
  <2> QED BY <2>1, <2>2
<1>7. IsUsed(h, parts, k)
  BY <1>5, <1>6 DEF IsUsed
<1> QED
  BY <1>1, <1>2, <1>7

(* A part never makes a LogStream fuller than it may be (LogStream.cpp).   *)
LEMMA InsertedFits ==
  ASSUME NEW u \in 0 .. SmallSize, NEW l \in Nat
  PROVE  Inserted(u, l) \in 0 .. SmallSize
BY LogAssumption DEF Inserted

(* A line fits into an empty buffer, whatever it is made of.               *)
LEMMA LineFits ==
  ASSUME NEW parts \in Seq(Nat)
  PROVE  LineLength(parts) \in Nat /\ LargeSize - Length(<<>>) > LineLength(parts)
<1>1. PICK n \in Nat : n = Len(parts)
  BY LenProperties
<1>2. PICK g : g = CHOOSE f : IsUsed(f, parts, n)
  OBVIOUS
<1>3. IsUsed(g, parts, n)
  BY <1>2, UsedExists
<1>4. \A i \in 0 .. n : g[i] \in 0 .. SmallSize
  <2> SUFFICES ASSUME NEW j \in 0 .. n, g[j] \notin 0 .. SmallSize PROVE FALSE
    OBVIOUS
  <2>1. PICK T : T = {i \in 0 .. n : g[i] \notin 0 .. SmallSize}
    OBVIOUS
  <2>2. PICK i \in T : \A m \in T : i <= m
    <3>1. j \in T /\ T \subseteq Nat
      BY <2>1
    <3> QED
      BY <3>1, LeastOf
  <2>3. i \in 0 .. n /\ g[i] = IF i = 0 THEN 0 ELSE Inserted(g[i - 1], parts[i])
    BY <2>1, <2>2, <1>3 DEF IsUsed
  <2>4. i # 0 => g[i - 1] \in 0 .. SmallSize /\ parts[i] \in Nat
    BY <1>1, <2>1, <2>2, <2>3
  <2>5. 0 \in 0 .. SmallSize
    BY LogAssumption
  <2> QED
    BY <2>1, <2>2, <2>3, <2>4, <2>5, InsertedFits
<1>5. LineLength(parts) = Inserted(g[n], 1)
  BY <1>1, <1>2 DEF LineLength, IsUsed
<1>6. LineLength(parts) \in 0 .. SmallSize
  BY <1>4, <1>5, InsertedFits
<1> QED
  BY <1>6, EmptyLength, LogAssumption

-----------------------------------------------------------------------------
(* The order of the lines.                                                 *)

\* Every number of A is less than every number of B.
Before(A, B) == \A x \in A, y \in B : x < y

\* The number at place j of buffer i, if it is one.
HasNumber(bufs, i, j, x) ==
  i \in DOMAIN bufs /\ j \in DOMAIN bufs[i] /\ x = bufs[i][j].n /\ x # 0

(* A number of the buffers is at some place.                               *)
LEMMA NumberPlaces ==
  ASSUME NEW bufs, NEW x
  PROVE  x \in Numbers(bufs) <=> \E i, j : HasNumber(bufs, i, j, x)
BY DEF Numbers, HasNumber

(* Rising, said with places.                                               *)
LEMMA RisingPlaces ==
  ASSUME NEW bufs
  PROVE  Rising(bufs) <=>
           \A i, k, j, l, x, y :
             HasNumber(bufs, i, j, x) /\ HasNumber(bufs, k, l, y)
             /\ (i < k \/ (i = k /\ j < l)) => x < y
<1>1. ASSUME Rising(bufs), NEW i, NEW k, NEW j, NEW l, NEW x, NEW y,
             HasNumber(bufs, i, j, x), HasNumber(bufs, k, l, y), i < k \/ (i = k /\ j < l)
      PROVE  x < y
  BY <1>1, Zenon DEF Rising, HasNumber
<1>2. ASSUME \A i, k, j, l, x, y : HasNumber(bufs, i, j, x) /\ HasNumber(bufs, k, l, y)
                                   /\ (i < k \/ (i = k /\ j < l)) => x < y
      PROVE  Rising(bufs)
  <2> SUFFICES ASSUME NEW i \in DOMAIN bufs, NEW k \in DOMAIN bufs,
                      NEW j \in DOMAIN bufs[i], NEW l \in DOMAIN bufs[k],
                      i < k \/ (i = k /\ j < l), bufs[i][j].n # 0, bufs[k][l].n # 0
               PROVE  bufs[i][j].n < bufs[k][l].n
    BY Zenon DEF Rising
  <2>1. HasNumber(bufs, i, j, bufs[i][j].n) /\ HasNumber(bufs, k, l, bufs[k][l].n)
    BY DEF HasNumber
  <2> QED
    BY <1>2, <2>1, Zenon
<1> QED
  BY <1>1, <1>2, Zenon

(* The places of two sequences of buffers one after the other.             *)
LEMMA ConcatPlaces ==
  ASSUME NEW a \in Buffers, NEW b \in Buffers, NEW i, NEW j, NEW x
  PROVE  /\ i \in 1 .. Len(a) => (HasNumber(a \o b, i, j, x) <=> HasNumber(a, i, j, x))
         /\ i \in 1 .. Len(b) =>
              (HasNumber(a \o b, Len(a) + i, j, x) <=> HasNumber(b, i, j, x))
         /\ HasNumber(a \o b, i, j, x) =>
              \/ i \in 1 .. Len(a)
              \/ \E k \in 1 .. Len(b) : i = Len(a) + k
         /\ HasNumber(a, i, j, x) => i \in 1 .. Len(a)
         /\ HasNumber(b, i, j, x) => i \in 1 .. Len(b)
<1>1. /\ a \o b \in Buffers /\ Len(a \o b) = Len(a) + Len(b)
      /\ Len(a) \in Nat /\ Len(b) \in Nat
      /\ DOMAIN a = 1 .. Len(a) /\ DOMAIN b = 1 .. Len(b)
      /\ DOMAIN (a \o b) = 1 .. Len(a) + Len(b)
  BY DEF Buffers
<1>2. \A m \in 1 .. Len(a) : (a \o b)[m] = a[m] /\ m \in 1 .. Len(a) + Len(b)
  BY DEF Buffers
<1>3. \A m \in 1 .. Len(b) : (a \o b)[Len(a) + m] = b[m] /\ Len(a) + m \in 1 .. Len(a) + Len(b)
  BY DEF Buffers
<1>4. \A m \in 1 .. Len(a) + Len(b) : m \notin 1 .. Len(a) =>
         m - Len(a) \in 1 .. Len(b) /\ m = Len(a) + (m - Len(a))
  BY <1>1
<1>5. PICK c : c = a \o b
  OBVIOUS
<1> QED
  BY <1>1, <1>2, <1>3, <1>4, <1>5 DEF HasNumber

(* The numbers of two sequences of buffers one after the other.            *)
LEMMA ConcatNumbers ==
  ASSUME NEW a \in Buffers, NEW b \in Buffers
  PROVE  Numbers(a \o b) = Numbers(a) \cup Numbers(b)
<1>1. ASSUME NEW x \in Numbers(a \o b) PROVE x \in Numbers(a) \cup Numbers(b)
  <2>1. PICK i, j : HasNumber(a \o b, i, j, x)
    BY <1>1, NumberPlaces
  <2>2. HasNumber(a, i, j, x) \/ \E k \in 1 .. Len(b) : HasNumber(b, k, j, x)
    BY <2>1, ConcatPlaces
  <2> QED
    BY <2>2, NumberPlaces
<1>2. ASSUME NEW x \in Numbers(a) PROVE x \in Numbers(a \o b)
  <2>1. PICK i, j : HasNumber(a, i, j, x)
    BY <1>2, NumberPlaces
  <2>2. HasNumber(a \o b, i, j, x)
    BY <2>1, ConcatPlaces
  <2> QED
    BY <2>2, NumberPlaces
<1>3. ASSUME NEW x \in Numbers(b) PROVE x \in Numbers(a \o b)
  <2>1. PICK i, j : HasNumber(b, i, j, x)
    BY <1>3, NumberPlaces
  <2>2. i \in 1 .. Len(b) /\ HasNumber(a \o b, Len(a) + i, j, x)
    BY <2>1, ConcatPlaces
  <2> QED
    BY <2>2, NumberPlaces
<1> QED
  BY <1>1, <1>2, <1>3

(* They rise if those of each rise and those of the first come before      *)
(* those of the second.                                                    *)
LEMMA ConcatRising ==
  ASSUME NEW a \in Buffers, NEW b \in Buffers
  PROVE  Rising(a \o b) <=> Rising(a) /\ Rising(b) /\ Before(Numbers(a), Numbers(b))
<1>0. Len(a) \in Nat /\ Len(b) \in Nat
  BY DEF Buffers
<1>1. ASSUME Rising(a \o b) PROVE Rising(a)
  <2>1. ASSUME NEW i, NEW k, NEW j, NEW l, NEW x, NEW y, HasNumber(a, i, j, x), HasNumber(a, k, l, y),
               i < k \/ (i = k /\ j < l)
        PROVE  x < y
    <3>1. HasNumber(a \o b, i, j, x) /\ HasNumber(a \o b, k, l, y)
      BY <2>1, ConcatPlaces
    <3> QED
      BY <1>1, <2>1, <3>1, RisingPlaces
  <2> QED
    BY <2>1, RisingPlaces
<1>2. ASSUME Rising(a \o b) PROVE Rising(b)
  <2>1. ASSUME NEW i, NEW k, NEW j, NEW l, NEW x, NEW y, HasNumber(b, i, j, x), HasNumber(b, k, l, y),
               i < k \/ (i = k /\ j < l)
        PROVE  x < y
    <3>1. /\ HasNumber(a \o b, Len(a) + i, j, x) /\ HasNumber(a \o b, Len(a) + k, l, y)
          /\ i \in 1 .. Len(b) /\ k \in 1 .. Len(b)
      BY <2>1, ConcatPlaces
    <3>2. Len(a) + i < Len(a) + k \/ (Len(a) + i = Len(a) + k /\ j < l)
      BY <1>0, <2>1, <3>1
    <3> QED
      BY <1>2, <3>2, <3>1, RisingPlaces
  <2> QED
    BY <2>1, RisingPlaces
<1>3. ASSUME Rising(a \o b) PROVE Before(Numbers(a), Numbers(b))
  <2>1. ASSUME NEW x \in Numbers(a), NEW y \in Numbers(b) PROVE x < y
    <3>1. PICK i, j : HasNumber(a, i, j, x)
      BY NumberPlaces
    <3>2. PICK k, l : HasNumber(b, k, l, y)
      BY NumberPlaces
    <3>3. /\ i \in 1 .. Len(a) /\ k \in 1 .. Len(b)
          /\ HasNumber(a \o b, i, j, x) /\ HasNumber(a \o b, Len(a) + k, l, y)
      BY <3>1, <3>2, ConcatPlaces
    <3>4. i < Len(a) + k
      BY <1>0, <3>3
    <3> QED
      BY <1>3, <3>3, <3>4, RisingPlaces
  <2> QED
    BY <2>1 DEF Before
<1>4. ASSUME Rising(a), Rising(b), Before(Numbers(a), Numbers(b)) PROVE Rising(a \o b)
  <2>1. ASSUME NEW i, NEW k, NEW j, NEW l, NEW x, NEW y,
               HasNumber(a \o b, i, j, x), HasNumber(a \o b, k, l, y),
               i < k \/ (i = k /\ j < l)
        PROVE  x < y
    <3>1. CASE i \in 1 .. Len(a) /\ k \in 1 .. Len(a)
      <4>1. HasNumber(a, i, j, x) /\ HasNumber(a, k, l, y)
        BY <2>1, <3>1, ConcatPlaces
      <4> QED
        BY <1>4, <2>1, <4>1, RisingPlaces
    <3>2. CASE i \in 1 .. Len(a) /\ \E m \in 1 .. Len(b) : k = Len(a) + m
      <4>0. PICK m \in 1 .. Len(b) : k = Len(a) + m
        BY <3>2
      <4>1. HasNumber(a, i, j, x) /\ HasNumber(b, m, l, y)
        BY <2>1, <3>2, <4>0, ConcatPlaces
      <4>2. x \in Numbers(a) /\ y \in Numbers(b)
        BY <4>1, NumberPlaces
      <4> QED
        BY <1>4, <4>2 DEF Before
    <3>3. CASE (\E m \in 1 .. Len(b) : i = Len(a) + m) /\ k \in 1 .. Len(a)
      BY <1>0, <2>1, <3>3
    <3>4. CASE (\E m \in 1 .. Len(b) : i = Len(a) + m) /\ \E m \in 1 .. Len(b) : k = Len(a) + m
      <4>1. PICK m \in 1 .. Len(b) : i = Len(a) + m
        BY <3>4
      <4>2. PICK p \in 1 .. Len(b) : k = Len(a) + p
        BY <3>4
      <4>3. HasNumber(b, m, j, x) /\ HasNumber(b, p, l, y)
        BY <2>1, <4>1, <4>2, ConcatPlaces
      <4>4. m < p \/ (m = p /\ j < l)
        BY <1>0, <2>1, <4>1, <4>2
      <4> QED
        BY <1>4, <4>3, <4>4, RisingPlaces
    <3> QED
      BY <2>1, <3>1, <3>2, <3>3, <3>4, ConcatPlaces
  <2> QED
    BY <2>1, RisingPlaces
<1> QED
  BY <1>1, <1>2, <1>3, <1>4

(* One buffer in a sequence of its own.                                    *)
LEMMA OneBuffer ==
  ASSUME NEW c \in Seq(Line)
  PROVE  /\ <<c>> \in Buffers /\ Len(<<c>>) = 1 /\ <<c>> # <<>>
         /\ \A i, j, x : HasNumber(<<c>>, i, j, x) <=>
                           i = 1 /\ j \in DOMAIN c /\ x = c[j].n /\ x # 0
<1>1. <<c>> \in Buffers /\ Len(<<c>>) = 1 /\ <<c>> # <<>>
  BY DEF Buffers
<1>2. DOMAIN <<c>> = {1} /\ <<c>>[1] = c
  OBVIOUS
<1> QED
  BY <1>1, <1>2, Zenon DEF HasNumber

(* A sequence of one buffer.                                               *)
LEMMA TheBuffer ==
  ASSUME NEW b \in Buffers, Len(b) = 1
  PROVE  b[1] \in Seq(Line) /\ b = <<b[1]>>
<1>1. b \in Seq(Seq(Line))
  BY DEF Buffers
<1>2. PICK T : T = Seq(Line)
  OBVIOUS
<1>3. b \in Seq(T) /\ DOMAIN b = {1}
  BY <1>1, <1>2
<1>4. b[1] \in T /\ b = <<b[1]>>
  BY <1>3
<1> QED
  BY <1>2, <1>4

(* Two sequences of buffers.                                               *)
LEMMA TwoBuffers ==
  ASSUME NEW a \in Buffers, NEW b \in Buffers
  PROVE  a \o b \in Buffers /\ Len(a \o b) = Len(a) + Len(b) /\ Len(a) \in Nat /\ Len(b) \in Nat
BY DEF Buffers

(* Nothing in no buffer, and nothing in an empty one.                      *)
LEMMA NoNumbers ==
  /\ <<>> \in Buffers /\ Numbers(<<>>) = {} /\ Rising(<<>>)
  /\ << <<>> >> \in Buffers /\ Numbers(<< <<>> >>) = {} /\ Rising(<< <<>> >>)
<1>1. <<>> \in Buffers /\ << <<>> >> \in Buffers
  BY DEF Buffers
<1>2. DOMAIN <<>> = {}
  OBVIOUS
<1>3. \A i, j, x : ~HasNumber(<<>>, i, j, x)
  BY <1>2 DEF HasNumber
<1>4. <<>> \in Seq(Line)
  OBVIOUS
<1>5. \A i, j, x : ~HasNumber(<< <<>> >>, i, j, x)
  BY <1>2, <1>4, OneBuffer
<1> QED
  BY <1>1, <1>3, <1>5, NumberPlaces, RisingPlaces, Zenon

(* The lines of a buffer and more lines: in one buffer or in two, the      *)
(* order is the same.                                                      *)
LEMMA SplitBuffer ==
  ASSUME NEW c \in Seq(Line), NEW d \in Seq(Line)
  PROVE  /\ c \o d \in Seq(Line)
         /\ Numbers(<<c \o d>>) = Numbers(<<c>>) \cup Numbers(<<d>>)
         /\ Rising(<<c \o d>>) <=>
              Rising(<<c>>) /\ Rising(<<d>>) /\ Before(Numbers(<<c>>), Numbers(<<d>>))
<1>1. PICK e : e = c \o d
  OBVIOUS
<1>0. PICK E, C, D : E = <<e>> /\ C = <<c>> /\ D = <<d>>
  OBVIOUS
<1>2. e \in Seq(Line) /\ Len(c) \in Nat /\ Len(d) \in Nat /\ Len(e) = Len(c) + Len(d)
      /\ DOMAIN c = 1 .. Len(c) /\ DOMAIN d = 1 .. Len(d) /\ DOMAIN e = 1 .. Len(c) + Len(d)
  BY <1>1
<1>3. /\ \A m \in 1 .. Len(c) : e[m] = c[m] /\ m \in 1 .. Len(c) + Len(d)
      /\ \A m \in 1 .. Len(d) : e[Len(c) + m] = d[m] /\ Len(c) + m \in 1 .. Len(c) + Len(d)
  BY <1>1
<1>4. \A m \in 1 .. Len(c) + Len(d) : m \notin 1 .. Len(c) =>
         m - Len(c) \in 1 .. Len(d) /\ m = Len(c) + (m - Len(c))
  BY <1>2
<1>5. /\ \A j, x : j \in 1 .. Len(c) => (HasNumber(E, 1, j, x) <=> HasNumber(C, 1, j, x))
      /\ \A j, x : j \in 1 .. Len(d) =>
                     (HasNumber(E, 1, Len(c) + j, x) <=> HasNumber(D, 1, j, x))
      /\ \A j, x : HasNumber(E, 1, j, x) =>
                     j \in 1 .. Len(c) \/ \E k \in 1 .. Len(d) : j = Len(c) + k
      /\ \A i, j, x : HasNumber(E, i, j, x) => i = 1
      /\ \A i, j, x : HasNumber(C, i, j, x) => i = 1 /\ j \in 1 .. Len(c)
      /\ \A i, j, x : HasNumber(D, i, j, x) => i = 1 /\ j \in 1 .. Len(d)
  <2>1. \A i, j, x : HasNumber(E, i, j, x) <=> i = 1 /\ j \in DOMAIN e /\ x = e[j].n /\ x # 0
    BY <1>0, <1>2, OneBuffer
  <2>2. \A i, j, x : HasNumber(C, i, j, x) <=> i = 1 /\ j \in DOMAIN c /\ x = c[j].n /\ x # 0
    BY <1>0, OneBuffer
  <2>3. \A i, j, x : HasNumber(D, i, j, x) <=> i = 1 /\ j \in DOMAIN d /\ x = d[j].n /\ x # 0
    BY <1>0, OneBuffer
  <2>4. ASSUME NEW j \in 1 .. Len(c), NEW x
        PROVE  HasNumber(E, 1, j, x) <=> HasNumber(C, 1, j, x)
    BY <1>2, <1>3, <2>1, <2>2
  <2>5. ASSUME NEW j \in 1 .. Len(d), NEW x
        PROVE  HasNumber(E, 1, Len(c) + j, x) <=> HasNumber(D, 1, j, x)
    BY <1>2, <1>3, <2>1, <2>3
  <2>6. \A j, x : HasNumber(E, 1, j, x) =>
                     j \in 1 .. Len(c) \/ \E k \in 1 .. Len(d) : j = Len(c) + k
    BY <1>2, <1>4, <2>1, Zenon
  <2> QED
    BY <1>2, <2>1, <2>2, <2>3, <2>4, <2>5, <2>6, Zenon
<1>6. Numbers(E) = Numbers(C) \cup Numbers(D)
  <2>1. ASSUME NEW x PROVE x \in Numbers(E) <=> x \in Numbers(C) \/ x \in Numbers(D)
    <3>1. x \in Numbers(E) <=> \E j : HasNumber(E, 1, j, x)
      BY <1>5, NumberPlaces, Zenon
    <3>2. x \in Numbers(C) <=> \E j \in 1 .. Len(c) : HasNumber(C, 1, j, x)
      <4>1. \A i, j : HasNumber(C, i, j, x) => i = 1 /\ j \in 1 .. Len(c)
        BY <1>5
      <4>2. x \in Numbers(C) <=> \E i, j : HasNumber(C, i, j, x)
        BY NumberPlaces
      <4> QED
        BY <4>1, <4>2
    <3>3. x \in Numbers(D) <=> \E j \in 1 .. Len(d) : HasNumber(D, 1, j, x)
      BY <1>5, NumberPlaces, Zenon
    <3> QED
      BY <1>5, <3>1, <3>2, <3>3, Zenon
  <2> QED
    BY <2>1
<1>7. ASSUME Rising(E)
      PROVE  Rising(C) /\ Rising(D) /\ Before(Numbers(C), Numbers(D))
  <2>0. \A j, l, x, y : HasNumber(E, 1, j, x) /\ HasNumber(E, 1, l, y) /\ j < l => x < y
    BY <1>7, RisingPlaces
  <2>1. ASSUME NEW i, NEW k, NEW j, NEW l, NEW x, NEW y, HasNumber(C, i, j, x),
               HasNumber(C, k, l, y), i < k \/ (i = k /\ j < l)
        PROVE  x < y
    <3>1. i = 1 /\ k = 1 /\ HasNumber(E, 1, j, x) /\ HasNumber(E, 1, l, y)
      BY <1>5, <2>1
    <3> QED
      BY <2>0, <2>1, <3>1
  <2>2. ASSUME NEW i, NEW k, NEW j, NEW l, NEW x, NEW y, HasNumber(D, i, j, x),
               HasNumber(D, k, l, y), i < k \/ (i = k /\ j < l)
        PROVE  x < y
    <3>1. /\ i = 1 /\ k = 1 /\ j \in 1 .. Len(d) /\ l \in 1 .. Len(d)
          /\ HasNumber(E, 1, Len(c) + j, x) /\ HasNumber(E, 1, Len(c) + l, y)
      BY <1>5, <2>2
    <3>2. Len(c) + j < Len(c) + l
      BY <1>2, <2>2, <3>1
    <3> QED
      BY <2>0, <3>1, <3>2
  <2>3. ASSUME NEW x \in Numbers(C), NEW y \in Numbers(D) PROVE x < y
    <3>1. PICK j : HasNumber(C, 1, j, x)
      BY <1>5, NumberPlaces
    <3>2. PICK l : HasNumber(D, 1, l, y)
      BY <1>5, NumberPlaces
    <3>3. /\ j \in 1 .. Len(c) /\ l \in 1 .. Len(d)
          /\ HasNumber(E, 1, j, x) /\ HasNumber(E, 1, Len(c) + l, y)
      BY <1>5, <3>1, <3>2
    <3>4. j < Len(c) + l
      BY <1>2, <3>3
    <3> QED
      BY <2>0, <3>3, <3>4
  <2>4. Rising(C)
    BY <2>1, RisingPlaces
  <2>5. Rising(D)
    BY <2>2, RisingPlaces
  <2> QED
    BY <2>3, <2>4, <2>5 DEF Before
<1>8. ASSUME Rising(C), Rising(D), Before(Numbers(C), Numbers(D))
      PROVE  Rising(E)
  <2>1. ASSUME NEW i, NEW k, NEW j, NEW l, NEW x, NEW y, HasNumber(E, i, j, x),
               HasNumber(E, k, l, y), i < k \/ (i = k /\ j < l)
        PROVE  x < y
    <3>0. i = 1 /\ k = 1 /\ j < l
      BY <1>5, <2>1
    <3>1. CASE j \in 1 .. Len(c) /\ l \in 1 .. Len(c)
      <4>1. HasNumber(C, 1, j, x) /\ HasNumber(C, 1, l, y)
        BY <1>5, <2>1, <3>0, <3>1
      <4> QED
        BY <1>8, <3>0, <4>1, RisingPlaces
    <3>2. CASE j \in 1 .. Len(c) /\ \E m \in 1 .. Len(d) : l = Len(c) + m
      <4>0. PICK m \in 1 .. Len(d) : l = Len(c) + m
        BY <3>2
      <4>1. HasNumber(C, 1, j, x) /\ HasNumber(D, 1, m, y)
        BY <1>5, <2>1, <3>0, <3>2, <4>0
      <4>2. x \in Numbers(C) /\ y \in Numbers(D)
        BY <4>1, NumberPlaces
      <4> QED
        BY <1>8, <4>2 DEF Before
    <3>3. CASE (\E m \in 1 .. Len(d) : j = Len(c) + m) /\ l \in 1 .. Len(c)
      BY <1>2, <3>0, <3>3
    <3>4. CASE (\E m \in 1 .. Len(d) : j = Len(c) + m) /\ \E m \in 1 .. Len(d) : l = Len(c) + m
      <4>1. PICK m \in 1 .. Len(d) : j = Len(c) + m
        BY <3>4
      <4>2. PICK p \in 1 .. Len(d) : l = Len(c) + p
        BY <3>4
      <4>3. HasNumber(D, 1, m, x) /\ HasNumber(D, 1, p, y)
        BY <1>5, <2>1, <3>0, <4>1, <4>2
      <4>4. m < p
        BY <1>2, <3>0, <4>1, <4>2
      <4> QED
        BY <1>8, <4>3, <4>4, RisingPlaces
    <3> QED
      BY <1>5, <2>1, <3>0, <3>1, <3>2, <3>3, <3>4
  <2> QED
    BY <2>1, RisingPlaces
<1> QED
  BY <1>0, <1>1, <1>2, <1>6, <1>7, <1>8

(* LogFile::append: the lines come to the end of the last file, and the    *)
(* file may be rolled.                                                     *)
LEMMA FileAppendKeeps ==
  ASSUME NEW fs \in Buffers, fs # <<>>, NEW lines \in Seq(Line), NEW r, r = FileAppend(fs, lines)
  PROVE  /\ r \in Buffers /\ r # <<>>
         /\ Numbers(r) = Numbers(fs) \cup Numbers(<<lines>>)
         /\ Rising(fs \o <<lines>>) => Rising(r)
<1>1. PICK f \in Buffers, c \in Seq(Line) :
        fs = f \o <<c>> /\ f = Front(fs) /\ c = Last(fs)
  <2>1. Len(fs) \in Nat /\ Len(fs) # 0 /\ fs \in Seq(Seq(Line))
    BY DEF Buffers
  <2>2. fs[Len(fs)] \in Seq(Line)
    BY <2>1
  <2>3. SubSeq(fs, 1, Len(fs) - 1) \in Seq(Seq(Line))
    BY <2>1
  <2>4. fs = SubSeq(fs, 1, Len(fs) - 1) \o <<fs[Len(fs)]>>
    BY <2>1
  <2> QED
    BY <2>2, <2>3, <2>4 DEF Front, Last, Buffers
<1>2. PICK all : all = f \o <<c \o lines>>
  OBVIOUS
<1>3. <<c>> \in Buffers /\ <<lines>> \in Buffers /\ <<c \o lines>> \in Buffers
      /\ c \o lines \in Seq(Line)
  BY OneBuffer, SplitBuffer
<1>4. all \in Buffers /\ all # <<>>
  <2>1. Len(all) = Len(f) + 1 /\ all \in Buffers /\ Len(f) \in Nat
    BY <1>2, <1>3 DEF Buffers
  <2>2. Len(<<>>) = 0
    OBVIOUS
  <2> QED
    BY <2>1, <2>2
<1>5. Numbers(all) = Numbers(f) \cup (Numbers(<<c>>) \cup Numbers(<<lines>>))
  <2>1. Numbers(<<c \o lines>>) = Numbers(<<c>>) \cup Numbers(<<lines>>)
    BY SplitBuffer
  <2>2. Numbers(all) = Numbers(f) \cup Numbers(<<c \o lines>>)
    BY <1>2, <1>3, ConcatNumbers
  <2> QED
    BY <2>1, <2>2
<1>6. Numbers(fs) = Numbers(f) \cup Numbers(<<c>>)
  BY <1>1, <1>3, ConcatNumbers
<1>7. Rising(fs \o <<lines>>) => Rising(all)
  <2> SUFFICES ASSUME Rising(fs \o <<lines>>) PROVE Rising(all)
    OBVIOUS
  <2>1. Rising(fs) /\ Rising(<<lines>>) /\ Before(Numbers(fs), Numbers(<<lines>>))
    BY <1>3, ConcatRising
  <2>2. Rising(f) /\ Rising(<<c>>) /\ Before(Numbers(f), Numbers(<<c>>))
    BY <1>1, <1>3, <2>1, ConcatRising
  <2>3. Rising(<<c \o lines>>)
    BY <1>6, <2>1, <2>2, SplitBuffer DEF Before
  <2>4. Before(Numbers(f), Numbers(<<c \o lines>>))
    <3>1. Numbers(<<c \o lines>>) = Numbers(<<c>>) \cup Numbers(<<lines>>)
      BY SplitBuffer
    <3> QED
      BY <1>6, <2>1, <2>2, <3>1 DEF Before
  <2> QED
    BY <1>2, <1>3, <2>2, <2>3, <2>4, ConcatRising
<1>8. PICK more : more = Append(all, <<>>)
  OBVIOUS
<1>9. more = all \o << <<>> >> /\ more \in Buffers /\ more # <<>>
  <2>1. all \in Seq(Seq(Line)) /\ <<>> \in Seq(Line)
    BY <1>4 DEF Buffers
  <2>2. more \in Seq(Seq(Line)) /\ Len(more) = Len(all) + 1 /\ Len(all) \in Nat
    BY <1>8, <2>1, AppendProperties
  <2>3. more = all \o << <<>> >>
    BY <1>8, <2>1, AppendIsConcat
  <2>4. Len(<<>>) = 0
    OBVIOUS
  <2> QED
    BY <2>2, <2>3, <2>4 DEF Buffers
<1>10. Numbers(more) = Numbers(all) /\ (Rising(all) => Rising(more))
  <2>1. PICK e : e = << <<>> >>
    OBVIOUS
  <2>2. e \in Buffers /\ Numbers(e) = {} /\ Rising(e) /\ more = all \o e
    BY <1>9, <2>1, NoNumbers
  <2>3. Before(Numbers(all), Numbers(e))
    BY <2>2 DEF Before
  <2>4. Numbers(more) = Numbers(all) \cup Numbers(e)
    BY <1>4, <2>2, ConcatNumbers
  <2>5. Rising(all) => Rising(more)
    BY <1>4, <2>2, <2>3, ConcatRising
  <2> QED
    BY <2>2, <2>4, <2>5
<1>11. r = more \/ r = all
  BY <1>1, <1>2, <1>8 DEF FileAppend
<1> QED
  BY <1>4, <1>5, <1>6, <1>7, <1>9, <1>10, <1>11

\* The files after the first k buffers of a batch.
IsAfter(g, fs, batch, k) ==
  g = [i \in 0 .. k |-> IF i = 0 THEN fs ELSE FileAppend(g[i - 1], batch[i])]

(* There is such a function.                                               *)
LEMMA AfterExists ==
  ASSUME NEW fs, NEW batch, NEW n \in Nat
  PROVE  \E g : IsAfter(g, fs, batch, n)
<1> SUFFICES ASSUME ~ \E g : IsAfter(g, fs, batch, n) PROVE FALSE
  OBVIOUS
<1>1. PICK T : T = {k \in Nat : ~ \E g : IsAfter(g, fs, batch, k)}
  OBVIOUS
<1>2. PICK k \in T : \A m \in T : k <= m
  <2>1. n \in T BY <1>1
  <2> QED BY <1>1, <2>1, LeastOf
<1>3. k \in Nat /\ k # 0
  <2>1. IsAfter([i \in 0 .. 0 |-> fs], fs, batch, 0) BY DEF IsAfter
  <2> QED BY <1>1, <1>2, <2>1
<1>4. PICK g : IsAfter(g, fs, batch, k - 1)
  BY <1>1, <1>2, <1>3
<1>5. PICK h : h = [i \in 0 .. k |-> IF i = k THEN FileAppend(g[k - 1], batch[k]) ELSE g[i]]
  OBVIOUS
<1>6. ASSUME NEW i \in 0 .. k PROVE h[i] = IF i = 0 THEN fs ELSE FileAppend(h[i - 1], batch[i])
  <2>1. CASE i = k
    BY <2>1, <1>3, <1>5
  <2>2. CASE i # k
    <3>1. i \in 0 .. k - 1 /\ (i # 0 => i - 1 \in 0 .. k - 1 /\ i - 1 # k)
      BY <2>2, <1>3
    <3>2. h[i] = g[i] /\ (i # 0 => h[i - 1] = g[i - 1])
      BY <3>1, <1>5, <1>3, <2>2
    <3>3. g[i] = IF i = 0 THEN fs ELSE FileAppend(g[i - 1], batch[i])
      BY <3>1, <1>4 DEF IsAfter
    <3> QED BY <3>2, <3>3
  <2> QED BY <2>1, <2>2
<1>7. IsAfter(h, fs, batch, k)
  BY <1>5, <1>6 DEF IsAfter
<1> QED
  BY <1>1, <1>2, <1>7

\* The files g hold what fs and the buffers b hold, in the same order.
FilesHold(g, fs, b) ==
  /\ g \in Buffers /\ g # <<>>
  /\ Numbers(g) = Numbers(fs) \cup Numbers(b)
  /\ Rising(fs \o b) => Rising(g)

(* The first buffers of a batch, and the next one.                         *)
LEMMA FirstBuffers ==
  ASSUME NEW batch \in Buffers, NEW n \in Nat, n = Len(batch), NEW i \in 1 .. n
  PROVE  /\ SubSeq(batch, 1, i) \in Buffers /\ SubSeq(batch, 1, i - 1) \in Buffers
         /\ batch[i] \in Seq(Line)
         /\ SubSeq(batch, 1, i) = SubSeq(batch, 1, i - 1) \o <<batch[i]>>
BY DEF Buffers

(* LogFile::append of one buffer of the batch after the other.             *)
LEMMA FileAppendsKeep ==
  ASSUME NEW fs \in Buffers, fs # <<>>, NEW batch \in Buffers
  PROVE  FilesHold(FileAppends(fs, batch), fs, batch)
<1>1. PICK n \in Nat : n = Len(batch)
  BY LenProperties DEF Buffers
<1>2. PICK g : g = CHOOSE f : IsAfter(f, fs, batch, n)
  OBVIOUS
<1>3. IsAfter(g, fs, batch, n)
  BY <1>2, AfterExists
<1>4. ASSUME NEW i \in 1 .. n, FilesHold(g[i - 1], fs, SubSeq(batch, 1, i - 1))
      PROVE  FilesHold(g[i], fs, SubSeq(batch, 1, i))
  <2>1. PICK p : p = SubSeq(batch, 1, i - 1)
    OBVIOUS
  <2>2. PICK b : b = batch[i]
    OBVIOUS
  <2>3. /\ p \in Buffers /\ b \in Seq(Line) /\ <<b>> \in Buffers
        /\ SubSeq(batch, 1, i) = p \o <<b>> /\ p \o <<b>> \in Buffers
    BY <1>1, <2>1, <2>2, FirstBuffers, OneBuffer
  <2>4. PICK d : d = g[i - 1]
    OBVIOUS
  <2>5. g[i] = FileAppend(d, b)
    BY <1>3, <2>2, <2>4 DEF IsAfter
  <2>6. d \in Buffers /\ d # <<>> /\ Numbers(d) = Numbers(fs) \cup Numbers(p)
        /\ (Rising(fs \o p) => Rising(d))
    BY <1>4, <2>1, <2>4 DEF FilesHold
  <2>7. /\ g[i] \in Buffers /\ g[i] # <<>> /\ Numbers(g[i]) = Numbers(d) \cup Numbers(<<b>>)
        /\ (Rising(d \o <<b>>) => Rising(g[i]))
    BY <2>3, <2>5, <2>6, FileAppendKeeps
  <2>8. Numbers(p \o <<b>>) = Numbers(p) \cup Numbers(<<b>>)
    BY <2>3, ConcatNumbers
  <2>9. ASSUME Rising(fs \o (p \o <<b>>)) PROVE Rising(g[i])
    <3>1. Rising(fs) /\ Rising(p \o <<b>>) /\ Before(Numbers(fs), Numbers(p \o <<b>>))
      BY <2>3, <2>9, ConcatRising
    <3>2. Rising(p) /\ Rising(<<b>>) /\ Before(Numbers(p), Numbers(<<b>>))
      BY <2>3, <3>1, ConcatRising
    <3>3. Before(Numbers(fs), Numbers(p))
      BY <2>8, <3>1 DEF Before
    <3>4. Rising(d)
      BY <2>3, <2>6, <3>1, <3>2, <3>3, ConcatRising
    <3>5. Before(Numbers(d), Numbers(<<b>>))
      BY <2>6, <2>8, <3>1, <3>2 DEF Before
    <3> QED
      BY <2>3, <2>6, <2>7, <3>2, <3>4, <3>5, ConcatRising
  <2> QED
    BY <2>3, <2>6, <2>7, <2>8, <2>9 DEF FilesHold
<1>5. FilesHold(g[0], fs, SubSeq(batch, 1, 0))
  <2>1. SubSeq(batch, 1, 0) = <<>>
    BY DEF Buffers
  <2>2. g[0] = fs
    BY <1>3 DEF IsAfter
  <2>3. fs \o <<>> = fs
    BY DEF Buffers
  <2>4. PICK e : e = <<>>
    OBVIOUS
  <2>5. fs \o e = fs /\ Numbers(e) = {} /\ SubSeq(batch, 1, 0) = e
    BY <2>1, <2>3, <2>4, NoNumbers
  <2> QED
    BY <2>2, <2>5 DEF FilesHold
<1>6. FilesHold(g[n], fs, SubSeq(batch, 1, n))
  <2> SUFFICES ASSUME ~FilesHold(g[n], fs, SubSeq(batch, 1, n)) PROVE FALSE
    OBVIOUS
  <2>1. PICK T : T = {i \in 0 .. n : ~FilesHold(g[i], fs, SubSeq(batch, 1, i))}
    OBVIOUS
  <2>2. PICK i \in T : \A m \in T : i <= m
    <3>1. n \in T /\ T \subseteq Nat
      BY <2>1
    <3> QED
      BY <3>1, LeastOf
  <2>3. i \in 1 .. n
    BY <1>5, <2>1, <2>2
  <2>4. i - 1 \in 0 .. n /\ i - 1 \notin T
    BY <2>2, <2>3
  <2>5. FilesHold(g[i - 1], fs, SubSeq(batch, 1, i - 1))
    BY <2>1, <2>4
  <2> QED
    BY <1>4, <2>1, <2>2, <2>3, <2>5
<1>7. SubSeq(batch, 1, n) = batch
  BY <1>1 DEF Buffers
<1>8. FileAppends(fs, batch) = g[n]
  BY <1>1, <1>2 DEF FileAppends, IsAfter
<1> QED
  BY <1>6, <1>7, <1>8

-----------------------------------------------------------------------------
(* The files, the batch and the buffers of append.                         *)

\* The numbers of three sequences of buffers rise from one to the next.
ThreeRise(f, w, r) ==
  /\ Rising(f) /\ Rising(w) /\ Rising(r)
  /\ Before(Numbers(f), Numbers(w)) /\ Before(Numbers(f), Numbers(r))
  /\ Before(Numbers(w), Numbers(r))

(* Three sequences of buffers one after the other.                         *)
LEMMA ThreeParts ==
  ASSUME NEW f \in Buffers, NEW w \in Buffers, NEW r \in Buffers
  PROVE  /\ f \o w \o r \in Buffers
         /\ Numbers(f \o w \o r) = Numbers(f) \cup Numbers(w) \cup Numbers(r)
         /\ Rising(f \o w \o r) <=> ThreeRise(f, w, r)
<1>1. PICK g : g = f \o w
  OBVIOUS
<1>2. g \in Buffers
  BY <1>1 DEF Buffers
<1>3. Numbers(g) = Numbers(f) \cup Numbers(w)
      /\ (Rising(g) <=> Rising(f) /\ Rising(w) /\ Before(Numbers(f), Numbers(w)))
  BY <1>1, ConcatNumbers, ConcatRising
<1>4. Numbers(g \o r) = Numbers(g) \cup Numbers(r)
  BY <1>2, ConcatNumbers
<1>5. Rising(g \o r) <=> Rising(g) /\ Rising(r) /\ Before(Numbers(g), Numbers(r))
  BY <1>2, ConcatRising
<1>6. Before(Numbers(g), Numbers(r)) <=>
        Before(Numbers(f), Numbers(r)) /\ Before(Numbers(w), Numbers(r))
  BY <1>3 DEF Before
<1>7. g \o r \in Buffers
  BY <1>2 DEF Buffers
<1> QED
  BY <1>1, <1>3, <1>4, <1>5, <1>6, <1>7 DEF ThreeRise

\* What is on its way to the files.
Batch == IF writer = "write" THEN buf_to_write ELSE <<>>

(* What LinesInOrder says of the lines, part by part.                      *)
LEMMA OrderOfParts ==
  ASSUME LogTypes
  PROVE  /\ files \in Buffers /\ Batch \in Buffers /\ buffers \o cur \in Buffers
         /\ InOrder <=> /\ ThreeRise(files, Batch, buffers \o cur)
                        /\ Numbers(files) \cup Numbers(Batch) \cup Numbers(buffers \o cur)
                             = (1 .. logged) \ dropped
<1>1. files \in Buffers /\ buffers \in Buffers /\ cur \in Buffers /\ buf_to_write \in Buffers
  BY DEF LogTypes
<1>2. Batch \in Buffers
  BY <1>1, NoNumbers DEF Batch
<1>3. PICK r : r = buffers \o cur
  OBVIOUS
<1>4. r \in Buffers
  BY <1>1, <1>3 DEF Buffers
<1>5. AllBuffers = files \o Batch \o r
  BY <1>3 DEF AllBuffers, Batch
<1>6. /\ Numbers(AllBuffers) = Numbers(files) \cup Numbers(Batch) \cup Numbers(r)
      /\ Rising(AllBuffers) <=> ThreeRise(files, Batch, r)
  BY <1>1, <1>2, <1>4, <1>5, ThreeParts
<1> QED
  BY <1>1, <1>2, <1>3, <1>4, <1>6 DEF InOrder

(* The same after a step.                                                  *)
LEMMA OrderOfPartsNext ==
  ASSUME LogTypes'
  PROVE  /\ files' \in Buffers /\ Batch' \in Buffers /\ buffers' \o cur' \in Buffers
         /\ InOrder' <=> /\ ThreeRise(files', Batch', buffers' \o cur')
                         /\ Numbers(files') \cup Numbers(Batch') \cup Numbers(buffers' \o cur')
                              = (1 .. logged') \ dropped'
<1>1. /\ files' \in Buffers /\ buffers' \in Buffers /\ cur' \in Buffers
      /\ buf_to_write' \in Buffers
  BY DEF LogTypes
<1>2. Batch' \in Buffers
  BY <1>1, NoNumbers DEF Batch
<1>3. PICK r : r = buffers' \o cur'
  OBVIOUS
<1>4. r \in Buffers
  BY <1>1, <1>3 DEF Buffers
<1>5. AllBuffers' = files' \o Batch' \o r
  BY <1>3 DEF AllBuffers, Batch
<1>6. /\ Numbers(AllBuffers)' = Numbers(AllBuffers') /\ (Rising(AllBuffers)' <=> Rising(AllBuffers'))
  OBVIOUS
<1>7. /\ Numbers(AllBuffers') = Numbers(files') \cup Numbers(Batch') \cup Numbers(r)
      /\ Rising(AllBuffers') <=> ThreeRise(files', Batch', r)
  BY <1>1, <1>2, <1>4, <1>5, ThreeParts
<1> QED
  BY <1>1, <1>2, <1>3, <1>4, <1>6, <1>7 DEF InOrder

\* s is r with one more line, in the last buffer or in a new one.
OneLineMore(r, s, line) ==
  \/ s = r \o << <<line>> >>
  \/ \E q \in Buffers, c \in Seq(Line) : r = q \o <<c>> /\ s = q \o <<Append(c, line)>>

(* A new line at the end of the buffers.                                   *)
LEMMA LineAdded ==
  ASSUME NEW r \in Buffers, NEW s \in Buffers, NEW line \in Line, NEW N \in Nat, line.n = N + 1,
         OneLineMore(r, s, line), Rising(r), Numbers(r) \subseteq 1 .. N
  PROVE  Rising(s) /\ Numbers(s) = Numbers(r) \cup {N + 1}
<1>1. PICK d : d = <<line>>
  OBVIOUS
<1>2. d \in Seq(Line) /\ DOMAIN d = {1} /\ d[1] = line
  BY <1>1
<1>3. PICK D : D = <<d>>
  OBVIOUS
<1>4. D \in Buffers /\ \A i, j, x : HasNumber(D, i, j, x) <=> i = 1 /\ j = 1 /\ x = N + 1
  <2>1. \A i, j, x : HasNumber(D, i, j, x) <=> i = 1 /\ j \in DOMAIN d /\ x = d[j].n /\ x # 0
    BY <1>2, <1>3, OneBuffer
  <2>2. N + 1 # 0
    OBVIOUS
  <2>3. D \in Buffers
    BY <1>2, <1>3, OneBuffer
  <2> QED
    BY <1>2, <2>1, <2>2, <2>3
<1>5. Numbers(D) = {N + 1}
  <2>1. ASSUME NEW x PROVE x \in Numbers(D) <=> x = N + 1
    <3>1. x \in Numbers(D) <=> \E i, j : HasNumber(D, i, j, x)
      BY NumberPlaces
    <3>2. CASE x = N + 1
      <4>1. HasNumber(D, 1, 1, x)
        BY <1>4, <3>2
      <4> QED
        BY <3>1, <3>2, <4>1
    <3>3. CASE x # N + 1
      <4>1. \A i, j : ~HasNumber(D, i, j, x)
        BY <1>4, <3>3
      <4> QED
        BY <3>1, <3>3, <4>1
    <3> QED
      BY <3>2, <3>3
  <2> QED
    BY <2>1
<1>6. Rising(D)
  <2>1. ASSUME NEW i, NEW k, NEW j, NEW l, NEW x, NEW y, HasNumber(D, i, j, x),
               HasNumber(D, k, l, y), i < k \/ (i = k /\ j < l)
        PROVE  x < y
    <3>1. i = 1 /\ k = 1 /\ j = 1 /\ l = 1
      BY <1>4, <2>1
    <3> QED
      BY <2>1, <3>1
  <2> QED
    BY <2>1, RisingPlaces
<1>7. Before(Numbers(r), Numbers(D))
  BY <1>5 DEF Before
<1>8. CASE s = r \o D
  <2>1. Rising(s)
    BY <1>4, <1>6, <1>7, <1>8, ConcatRising
  <2>2. Numbers(s) = Numbers(r) \cup Numbers(D)
    BY <1>4, <1>8, ConcatNumbers
  <2> QED
    BY <1>5, <2>1, <2>2
<1>9. CASE \E q \in Buffers, c \in Seq(Line) : r = q \o <<c>> /\ s = q \o <<Append(c, line)>>
  <2>1. PICK q \in Buffers, c \in Seq(Line) : r = q \o <<c>> /\ s = q \o <<Append(c, line)>>
    BY <1>9
  <2>2. Append(c, line) = c \o d
    BY <1>1, AppendIsConcat
  <2>3. PICK C, E : C = <<c>> /\ E = <<c \o d>>
    OBVIOUS
  <2>4. C \in Buffers /\ E \in Buffers /\ c \o d \in Seq(Line)
    BY <1>2, <2>3, OneBuffer, SplitBuffer
  <2>5. Numbers(E) = Numbers(C) \cup Numbers(D)
        /\ (Rising(E) <=> Rising(C) /\ Rising(D) /\ Before(Numbers(C), Numbers(D)))
    BY <1>2, <1>3, <2>3, SplitBuffer
  <2>6. Numbers(r) = Numbers(q) \cup Numbers(C)
    BY <2>1, <2>3, <2>4, ConcatNumbers
  <2>7. Rising(q) /\ Rising(C) /\ Before(Numbers(q), Numbers(C))
    BY <2>1, <2>3, <2>4, ConcatRising
  <2>8. s = q \o E
    BY <2>1, <2>2, <2>3
  <2>9. Numbers(s) = Numbers(q) \cup Numbers(E)
    BY <2>4, <2>8, ConcatNumbers
  <2>10. Rising(E)
    BY <1>6, <1>7, <2>5, <2>6, <2>7 DEF Before
  <2>11. Before(Numbers(q), Numbers(E))
    BY <1>7, <2>5, <2>6, <2>7 DEF Before
  <2>12. Rising(s)
    BY <2>4, <2>7, <2>8, <2>10, <2>11, ConcatRising
  <2> QED
    BY <1>5, <2>5, <2>6, <2>9, <2>12
<1> QED
  BY <1>1, <1>3, <1>8, <1>9 DEF OneLineMore

-----------------------------------------------------------------------------
(* The steps of the log.                                                   *)

(* Initially.                                                              *)
LEMMA LogStarts ==
  ASSUME LogInit
  PROVE  LogInv
<1>1. PICK e : e = << <<>> >>
  OBVIOUS
<1>2. e \in Buffers /\ Len(e) = 1 /\ e # <<>> /\ Numbers(e) = {} /\ Rising(e)
  BY <1>1, NoNumbers, OneBuffer
<1>3. <<>> \in Buffers /\ Numbers(<<>>) = {} /\ Rising(<<>>)
  BY NoNumbers
<1>4. LogTypes
  BY <1>1, <1>2, <1>3 DEF LogInit, LogTypes, Empties
<1>5. Spares
  BY <1>1, <1>2 DEF LogInit, Spares, Null
<1>6. InOrder
  <2>1. files = e /\ Batch = <<>> /\ buffers \o cur = e /\ (1 .. logged) \ dropped = {}
    <3>1. <<>> \o e = e
      BY <1>2 DEF Buffers
    <3> QED
      BY <1>1, <3>1 DEF LogInit, Batch
  <2>2. ThreeRise(files, Batch, buffers \o cur)
    BY <1>2, <1>3, <2>1 DEF ThreeRise, Before
  <2> QED
    BY <1>2, <1>3, <1>4, <2>1, <2>2, OrderOfParts
<1> QED
  BY <1>4, <1>5, <1>6 DEF LogInv

(* AsyncLog::append: the line comes to the end of _cur, or a full _cur     *)
(* joins _buffers and the line is the first one of its successor.          *)
LEMMA AppendAdds ==
  ASSUME LogTypes, NEW parts \in Messages, append(parts)
  PROVE  \E line \in Line :
           /\ line.n = logged + 1 /\ cur' \in Buffers /\ Len(cur') = 1
           /\ \/ /\ UNCHANGED <<next, buffers>>
                 /\ cur' = <<Append(cur[1], line)>>
              \/ /\ buffers' = buffers \o cur /\ next' = Null /\ cur' = << <<line>> >>
<1>1. parts \in Seq(Nat)
  BY LogAssumption
<1>2. PICK line : line = [n |-> logged + 1, len |-> LineLength(parts)]
  OBVIOUS
<1>3. line \in Line /\ line.n = logged + 1 /\ line.len = LineLength(parts)
  BY <1>1, <1>2, LineFits DEF LogTypes, Line
<1>4. cur[1] \in Seq(Line)
  BY TheBuffer DEF LogTypes
<1>5. CASE /\ LargeSize - Length(cur[1]) > line.len
           /\ cur' = <<BufferAppend(cur[1], line)>> /\ UNCHANGED <<next, buffers>>
  <2>1. cur' = <<Append(cur[1], line)>>
    BY <1>5 DEF BufferAppend
  <2>2. Append(cur[1], line) \in Seq(Line)
    BY <1>3, <1>4
  <2> QED
    BY <1>3, <1>5, <2>1, <2>2, OneBuffer
<1>6. CASE /\ buffers' = buffers \o cur /\ next' = Null
           /\ cur' = <<BufferAppend(IF next # Null THEN next[1] ELSE <<>>, line)>>
  <2>1. (IF next # Null THEN next[1] ELSE <<>>) = <<>>
    BY DEF LogTypes, Empties, Null
  <2>2. LargeSize - Length(<<>>) > line.len
    BY <1>1, <1>3, LineFits
  <2>3. cur' = <<Append(<<>>, line)>>
    BY <1>6, <2>1, <2>2 DEF BufferAppend
  <2>4. Append(<<>>, line) = <<line>> /\ <<line>> \in Seq(Line)
    BY <1>3
  <2> QED
    BY <1>3, <1>6, <2>3, <2>4, OneBuffer
<1> QED
  BY <1>2, <1>5, <1>6 DEF append

(* AsyncLog::append.                                                       *)
LEMMA AppendLogs ==
  ASSUME LogInv, NEW parts \in Messages, append(parts)
  PROVE  LogInv'
<1>0. LogTypes /\ Spares /\ InOrder /\ logged \in Nat /\ dropped \subseteq 1 .. logged
  BY DEF LogInv, LogTypes
<1>1. UNCHANGED <<buf1, buf2, buf_to_write, writer, files, dropped>> /\ logged' = logged + 1
  BY DEF append
<1>2. PICK line \in Line :
           /\ line.n = logged + 1 /\ cur' \in Buffers /\ Len(cur') = 1
           /\ \/ /\ UNCHANGED <<next, buffers>>
                 /\ cur' = <<Append(cur[1], line)>>
              \/ /\ buffers' = buffers \o cur /\ next' = Null /\ cur' = << <<line>> >>
  BY <1>0, AppendAdds
<1>3. buffers \in Buffers /\ cur \in Buffers /\ Len(cur) = 1 /\ cur[1] \in Seq(Line)
      /\ cur = <<cur[1]>> /\ Len(buffers) \in Nat
  BY <1>0, TheBuffer, TwoBuffers DEF LogTypes
<1>4. PICK r : r = buffers \o cur
  OBVIOUS
<1>5. r \in Buffers /\ Len(r) = Len(buffers) + 1
  BY <1>3, <1>4, TwoBuffers
<1>6. LogTypes'
  <2>1. buffers' \in Buffers
    BY <1>2, <1>3, <1>4, <1>5
  <2>2. next' \in Empties
    BY <1>0, <1>2 DEF LogTypes, Empties, Null
  <2>3. logged' \in Nat /\ dropped' \subseteq 1 .. logged'
    BY <1>0, <1>1
  <2> QED
    BY <1>0, <1>1, <1>2, <2>1, <2>2, <2>3 DEF LogTypes
<1>7. Spares'
  <2>1. next' = Null => Len(buffers') >= 1
    BY <1>0, <1>2, <1>3, <1>4, <1>5 DEF Spares
  <2> QED
    BY <1>0, <1>1, <2>1 DEF Spares
<1>8. ThreeRise(files, Batch, r)
      /\ Numbers(files) \cup Numbers(Batch) \cup Numbers(r) = (1 .. logged) \ dropped
  BY <1>0, <1>4, OrderOfParts
<1>9. PICK s : s = buffers' \o cur'
  OBVIOUS
<1>10. s \in Buffers
  BY <1>6, <1>9, OrderOfPartsNext
<1>11. Rising(s) /\ Numbers(s) = Numbers(r) \cup {logged + 1}
  <2>0. /\ Rising(r) /\ Numbers(r) \subseteq 1 .. logged
        /\ logged \in Nat /\ line.n = logged + 1
    BY <1>0, <1>2, <1>8 DEF ThreeRise
  <2>1. CASE UNCHANGED <<next, buffers>> /\ cur' = <<Append(cur[1], line)>>
    <3>1. r = buffers \o <<cur[1]>> /\ s = buffers \o <<Append(cur[1], line)>>
      BY <1>3, <1>4, <1>9, <2>1
    <3>2. OneLineMore(r, s, line)
      BY <1>3, <3>1 DEF OneLineMore
    <3> QED
      BY <1>5, <1>10, <2>0, <3>2, LineAdded
  <2>2. CASE buffers' = buffers \o cur /\ cur' = << <<line>> >>
    <3>1. OneLineMore(r, s, line)
      BY <1>4, <1>9, <2>2 DEF OneLineMore
    <3> QED
      BY <1>5, <1>10, <2>0, <3>1, LineAdded
  <2> QED
    BY <1>2, <2>1, <2>2
<1>12. Batch' = Batch /\ files' = files
  BY <1>1 DEF Batch
<1>13. \A x \in Numbers(files) \cup Numbers(Batch) : x \in 1 .. logged
  BY <1>8
<1>14. ThreeRise(files', Batch', s)
  BY <1>0, <1>8, <1>11, <1>12, <1>13 DEF ThreeRise, Before
<1>15. Numbers(files') \cup Numbers(Batch') \cup Numbers(s) = (1 .. logged') \ dropped'
  <2>1. 1 .. logged' = (1 .. logged) \cup {logged + 1}
    BY <1>0, <1>1
  <2>2. logged + 1 \notin dropped
    BY <1>0
  <2> QED
    BY <1>1, <1>8, <1>11, <1>12, <2>1, <2>2
<1>16. InOrder'
  BY <1>6, <1>9, <1>14, <1>15, OrderOfPartsNext
<1> QED
  BY <1>6, <1>7, <1>16 DEF LogInv

(* The section of writeThread under _mutex.                                *)
LEMMA SwapKeeps ==
  ASSUME LogInv, WriterSwap
  PROVE  LogInv'
<1>0. LogTypes /\ Spares /\ InOrder
  BY DEF LogInv
<1>1. buf1 = << <<>> >> /\ buf2 = << <<>> >> /\ (next = Null => Len(buffers) >= 1)
  BY <1>0 DEF LogTypes, Empties, Null, Spares, WriterSwap
<1>2. /\ buf_to_write' = buffers \o cur /\ buffers' = <<>> /\ cur' = buf1 /\ buf1' = Null
      /\ writer = "swap" /\ writer' = "write" /\ UNCHANGED <<files, logged, dropped>>
  BY DEF WriterSwap
<1>3. \/ next = Null /\ next' = buf2 /\ buf2' = Null
      \/ next # Null /\ next' = next /\ buf2' = buf2
  BY DEF WriterSwap
<1>4. PICK e : e = << <<>> >>
  OBVIOUS
<1>5. e \in Buffers /\ Len(e) = 1 /\ e # <<>> /\ Numbers(e) = {} /\ Rising(e)
  BY <1>4, NoNumbers, OneBuffer
<1>6. <<>> \in Buffers /\ Numbers(<<>>) = {} /\ Rising(<<>>)
  BY NoNumbers
<1>7. buf_to_write' \in Buffers /\ Len(buf_to_write') = Len(buffers) + 1 /\ Len(buffers) \in Nat
  <2>1. buffers \in Buffers /\ cur \in Buffers /\ Len(cur) = 1
    BY <1>0 DEF LogTypes
  <2> QED
    BY <1>2, <2>1, TwoBuffers
<1>8. LogTypes'
  BY <1>0, <1>1, <1>2, <1>3, <1>4, <1>5, <1>6, <1>7 DEF LogTypes, Empties, Null
<1>9. Spares'
  <2>1. next' # Null
    BY <1>1, <1>3, <1>4, <1>5 DEF Null
  <2>2. buf2' = Null => Len(buf_to_write') >= 2
    BY <1>1, <1>3, <1>4, <1>5, <1>7 DEF Null
  <2>3. Len(buf_to_write') >= 1
    BY <1>7
  <2> QED
    BY <1>2, <2>1, <2>2, <2>3 DEF Spares
<1>10. /\ Batch = <<>> /\ Batch' = buffers \o cur /\ buffers' \o cur' = e
  <2>1. <<>> \o e = e
    BY <1>5 DEF Buffers
  <2> QED
    BY <1>1, <1>2, <1>4, <2>1 DEF Batch
<1>11. ThreeRise(files, <<>>, Batch') /\
       Numbers(files) \cup Numbers(<<>>) \cup Numbers(Batch') = (1 .. logged) \ dropped
  BY <1>0, <1>10, OrderOfParts
<1>12. ThreeRise(files', Batch', e)
  BY <1>2, <1>5, <1>11 DEF ThreeRise, Before
<1>13. Numbers(files') \cup Numbers(Batch') \cup Numbers(e) = (1 .. logged') \ dropped'
  BY <1>2, <1>5, <1>6, <1>11
<1>14. InOrder'
  BY <1>8, <1>10, <1>12, <1>13, OrderOfPartsNext
<1> QED
  BY <1>8, <1>9, <1>14 DEF LogInv

(* The note of dropped buffers has no number.                              *)
LEMMA NoteIsNoLine ==
  LET note == << <<[n |-> 0, len |-> 1]>> >>
  IN  note \in Buffers /\ Numbers(note) = {} /\ Rising(note)
<1> DEFINE d == <<[n |-> 0, len |-> 1]>>
<1>1. [n |-> 0, len |-> 1] \in Line /\ [n |-> 0, len |-> 1].n = 0
  BY DEF Line
<1>2. d \in Seq(Line) /\ DOMAIN d = {1} /\ d[1].n = 0
  BY <1>1
<1> HIDE DEF d
<1>3. \A i, j, x : ~HasNumber(<<d>>, i, j, x)
  BY <1>2, OneBuffer
<1>4. Numbers(<<d>>) = {} /\ Rising(<<d>>)
  BY <1>3, NumberPlaces, RisingPlaces, Zenon
<1> QED
  BY <1>2, <1>4, OneBuffer DEF d

(* writeThread appends the batch to the files; of too many buffers all but *)
(* two are dropped.                                                        *)
LEMMA WriteParts ==
  ASSUME LogInv, WriterWrite
  PROVE  \E kept, lost, note \in Buffers :
           /\ buf_to_write = kept \o lost /\ Numbers(note) = {} /\ Rising(note)
           /\ files' = FileAppends(files, note \o kept)
           /\ dropped' = dropped \cup Numbers(lost)
           /\ buf_to_write' = kept /\ (lost = <<>> \/ Len(kept) = 2)
<1>1. buf_to_write \in Buffers
  BY DEF LogInv, LogTypes
<1>2. CASE Len(buf_to_write) > DropLimit
  <2>1. PICK kept, lost, note : /\ kept = SubSeq(buf_to_write, 1, 2)
                                /\ lost = SubSeq(buf_to_write, Len(kept) + 1, Len(buf_to_write))
                                /\ note = << <<[n |-> 0, len |-> 1]>> >>
    OBVIOUS
  <2>2. Len(buf_to_write) \in Nat /\ DropLimit \in Nat /\ DropLimit >= 2 /\ 2 <= Len(buf_to_write)
    BY <1>1, <1>2, LogAssumption DEF Buffers
  <2>3. kept \in Buffers /\ Len(kept) = 2
    BY <1>1, <2>1, <2>2 DEF Buffers
  <2>4. lost = SubSeq(buf_to_write, 3, Len(buf_to_write))
    BY <2>1, <2>3
  <2>5. lost \in Buffers /\ buf_to_write = kept \o lost
    BY <1>1, <2>1, <2>2, <2>4 DEF Buffers
  <2>6. /\ files' = FileAppends(files, note \o kept)
        /\ dropped' = dropped \cup Numbers(lost)
        /\ buf_to_write' = kept
    BY <1>2, <2>1 DEF WriterWrite
  <2>7. note \in Buffers /\ Numbers(note) = {} /\ Rising(note)
    BY <2>1, NoteIsNoLine
  <2> QED
    BY <2>3, <2>5, <2>6, <2>7
<1>3. CASE ~(Len(buf_to_write) > DropLimit)
  <2>1. PICK lost : lost = SubSeq(buf_to_write, Len(buf_to_write) + 1, Len(buf_to_write))
    OBVIOUS
  <2>2. lost = <<>> /\ buf_to_write = buf_to_write \o <<>>
    BY <1>1, <2>1 DEF Buffers
  <2>3. /\ files' = FileAppends(files, <<>> \o buf_to_write)
        /\ dropped' = dropped \cup Numbers(lost)
        /\ buf_to_write' = buf_to_write
    BY <1>3, <2>1 DEF WriterWrite
  <2> QED
    BY <1>1, <2>2, <2>3, NoNumbers
<1> QED
  BY <1>2, <1>3

(* writeThread writes the batch.                                           *)
LEMMA WriteKeeps ==
  ASSUME LogInv, WriterWrite
  PROVE  LogInv'
<1>0. LogTypes /\ Spares /\ InOrder
  BY DEF LogInv
<1>1. PICK kept \in Buffers, lost \in Buffers, note \in Buffers :
           /\ buf_to_write = kept \o lost /\ Numbers(note) = {} /\ Rising(note)
           /\ files' = FileAppends(files, note \o kept)
           /\ dropped' = dropped \cup Numbers(lost)
           /\ buf_to_write' = kept /\ (lost = <<>> \/ Len(kept) = 2)
  BY WriteParts
<1>2. writer = "write" /\ writer' = "reuse" /\ UNCHANGED <<cur, next, buffers, buf1, buf2, logged>>
  BY DEF WriterWrite
<1>3. PICK r : r = buffers \o cur
  OBVIOUS
<1>4. Batch = kept \o lost /\ Batch' = <<>>
  BY <1>1, <1>2 DEF Batch
<1>5. /\ files \in Buffers /\ files # <<>> /\ r \in Buffers /\ ThreeRise(files, kept \o lost, r)
      /\ Numbers(files) \cup Numbers(kept \o lost) \cup Numbers(r) = (1 .. logged) \ dropped
  BY <1>0, <1>3, <1>4, OrderOfParts DEF LogTypes
<1>6. Numbers(kept \o lost) = Numbers(kept) \cup Numbers(lost)
  BY ConcatNumbers
<1>7. Rising(kept) /\ Rising(lost) /\ Before(Numbers(kept), Numbers(lost))
  BY <1>5, ConcatRising DEF ThreeRise
<1>8. PICK b : b = note \o kept
  OBVIOUS
<1>9. /\ b \in Buffers /\ Numbers(b) = Numbers(kept) /\ Rising(b)
  <2>1. b \in Buffers
    BY <1>8, TwoBuffers
  <2>2. Numbers(b) = Numbers(note) \cup Numbers(kept)
    BY <1>8, ConcatNumbers
  <2>3. Before(Numbers(note), Numbers(kept))
    BY <1>1 DEF Before
  <2> QED
    BY <1>1, <1>7, <1>8, <2>1, <2>2, <2>3, ConcatRising
<1>10. Rising(files \o b)
  <2>1. Before(Numbers(files), Numbers(b)) /\ Rising(files)
    BY <1>5, <1>6, <1>9 DEF ThreeRise, Before
  <2> QED
    BY <1>5, <1>9, <2>1, ConcatRising
<1>11. /\ files' \in Buffers /\ files' # <<>> /\ Rising(files')
       /\ Numbers(files') = Numbers(files) \cup Numbers(kept)
  BY <1>1, <1>5, <1>8, <1>9, <1>10, FileAppendsKeep DEF FilesHold
<1>12. LogTypes'
  <2>1. dropped' \subseteq 1 .. logged'
    BY <1>0, <1>1, <1>2, <1>5, <1>6 DEF LogTypes
  <2> QED
    BY <1>0, <1>1, <1>2, <1>11, <2>1 DEF LogTypes
<1>13. Spares'
  <2>1. Len(buf_to_write') = Len(buf_to_write) \/ Len(buf_to_write') = 2
    <3>1. CASE lost = <<>>
      <4>1. kept \o <<>> = kept
        BY DEF Buffers
      <4> QED
        BY <1>1, <3>1, <4>1
    <3> QED
      BY <1>1, <3>1
  <2>2. /\ buf1 = Null /\ Len(buf_to_write) >= 1 /\ (buf2 = Null => Len(buf_to_write) >= 2)
        /\ (next = Null => Len(buffers) >= 1)
    BY <1>0, <1>2 DEF Spares
  <2>3. Len(buf_to_write') >= 1 /\ (buf2 = Null => Len(buf_to_write') >= 2)
    <3>1. CASE Len(buf_to_write') = Len(buf_to_write)
      BY <2>2, <3>1
    <3>2. CASE Len(buf_to_write') = 2
      BY <3>2
    <3> QED
      BY <2>1, <3>1, <3>2
  <2> QED
    BY <1>2, <2>2, <2>3 DEF Spares
<1>14. <<>> \in Buffers /\ Numbers(<<>>) = {} /\ Rising(<<>>)
  BY NoNumbers
<1>15. ThreeRise(files', Batch', r)
  BY <1>4, <1>5, <1>6, <1>11, <1>14 DEF ThreeRise, Before
<1>16. Numbers(files') \cup Numbers(Batch') \cup Numbers(r) = (1 .. logged') \ dropped'
  <2>1. \A x \in Numbers(lost) : x \notin Numbers(files) \cup Numbers(kept) \cup Numbers(r)
    <3>1. Before(Numbers(files), Numbers(lost)) /\ Before(Numbers(lost), Numbers(r))
      BY <1>5, <1>6 DEF ThreeRise, Before
    <3>2. \A x \in Numbers(lost) : x \in Nat
      BY <1>5, <1>6
    <3>3. \A x \in Nat : ~(x < x)
      OBVIOUS
    <3> QED
      BY <1>7, <3>1, <3>2, <3>3 DEF Before
  <2> QED
    BY <1>1, <1>2, <1>4, <1>5, <1>6, <1>11, <1>14, <2>1
<1>17. InOrder'
  BY <1>2, <1>3, <1>12, <1>15, <1>16, OrderOfPartsNext
<1> QED
  BY <1>12, <1>13, <1>17 DEF LogInv

(* The first of the buffers.                                               *)
LEMMA FirstOnes ==
  ASSUME NEW S, NEW s \in Seq(S), NEW m \in Nat, 1 <= m, m <= Len(s)
  PROVE  SubSeq(s, 1, m) \in Seq(S) /\ Len(SubSeq(s, 1, m)) = m /\ SubSeq(s, 1, m) # <<>>
<1>1. SubSeq(s, 1, m) \in Seq(S) /\ Len(SubSeq(s, 1, m)) = m
  OBVIOUS
<1>2. Len(<<>>) = 0
  OBVIOUS
<1> QED
  BY <1>1, <1>2

(* The lesser of two and n.                                                *)
LEMMA MinTwo ==
  ASSUME NEW n \in Nat, n >= 1
  PROVE  Min({2, n}) = IF n < 2 THEN 1 ELSE 2
<1>1. \A x \in {2, n} : x \in Nat
  OBVIOUS
<1>2. CASE n < 2
  <2>1. n = 1
    BY <1>2
  <2> QED
    BY <2>1 DEF Min
<1>3. CASE ~(n < 2)
  <2>1. 2 <= n /\ 2 <= 2
    BY <1>3
  <2>2. \A x \in {2, n} : (\A y \in {2, n} : x <= y) => x = 2
    BY <2>1
  <2> QED
    BY <1>3, <2>1, <2>2 DEF Min
<1> QED
  BY <1>2, <1>3

(* writeThread takes its spare buffers back.                               *)
LEMMA ReuseKeeps ==
  ASSUME LogInv, WriterReuse
  PROVE  LogInv'
<1>0. LogTypes /\ Spares /\ InOrder
  BY DEF LogInv
<1>1. PICK S : S = Seq(Line)
  OBVIOUS
<1>2. buf_to_write \in Seq(S)
  BY <1>0, <1>1 DEF LogTypes, Buffers
<1> DEFINE n == Len(buf_to_write)
           some == SubSeq(buf_to_write, 1, Min({2, n}))
           rest == IF buf1 = Null /\ some # <<>> THEN Front(some) ELSE some
<1>3. /\ buf1 = Null /\ n >= 1 /\ (buf2 = Null => n >= 2) /\ n \in Nat
  BY <1>0, <1>2 DEF Spares, WriterReuse
<1>4. /\ buf1' = IF buf1 = Null /\ some # <<>> THEN << <<>> >> ELSE buf1
      /\ buf2' = IF buf2 = Null /\ rest # <<>> THEN << <<>> >> ELSE buf2
      /\ buf_to_write' = <<>> /\ writer = "reuse" /\ writer' = "while"
      /\ UNCHANGED <<cur, next, buffers, files, logged, dropped>>
  BY DEF WriterReuse
<1>5. some \in Seq(S) /\ Len(some) = (IF n < 2 THEN 1 ELSE 2) /\ some # <<>>
  <2> DEFINE m == Min({2, n})
  <2>1. m \in Nat /\ 1 <= m /\ m <= n /\ m = IF n < 2 THEN 1 ELSE 2
    BY <1>3, MinTwo
  <2> HIDE DEF m
  <2>2. /\ SubSeq(buf_to_write, 1, m) \in Seq(S) /\ Len(SubSeq(buf_to_write, 1, m)) = m
        /\ SubSeq(buf_to_write, 1, m) # <<>>
    BY <1>2, <2>1, FirstOnes
  <2> QED
    BY <2>1, <2>2 DEF m
<1>6. buf1' = << <<>> >> /\ rest = Front(some)
  BY <1>3, <1>4, <1>5
<1>7. buf2' = << <<>> >>
  <2>1. CASE buf2 = Null
    <3>1. Len(some) = 2
      BY <1>3, <1>5, <2>1
    <3> HIDE DEF some
    <3>2. Front(some) # <<>>
      BY <1>5, <3>1 DEF Front
    <3> QED
      BY <1>4, <1>6, <2>1, <3>2
  <2>2. CASE buf2 # Null
    BY <1>0, <1>4, <2>2 DEF LogTypes, Empties, Null
  <2> QED
    BY <2>1, <2>2
<1> HIDE DEF n, some, rest
<1>8. LogTypes'
  <2>1. << <<>> >> \in Empties /\ <<>> \in Buffers
    BY NoNumbers DEF Empties
  <2> QED
    BY <1>0, <1>4, <1>6, <1>7, <2>1 DEF LogTypes
<1>9. Spares'
  <2>1. << <<>> >> # Null
    BY DEF Null
  <2> QED
    BY <1>0, <1>4, <1>6, <1>7, <2>1 DEF Spares
<1>10. InOrder'
  <2>1. Batch = <<>> /\ Batch' = <<>>
    BY <1>4 DEF Batch
  <2>2. ThreeRise(files', Batch', buffers' \o cur') /\
        Numbers(files') \cup Numbers(Batch') \cup Numbers(buffers' \o cur')
          = (1 .. logged') \ dropped'
    BY <1>0, <1>4, <2>1, OrderOfParts
  <2> QED
    BY <1>8, <2>2, OrderOfPartsNext
<1> QED
  BY <1>8, <1>9, <1>10 DEF LogInv

(* What the writer needs is there.                                         *)
LEMMA LogInvSuffices ==
  ASSUME LogInv
  PROVE  BuffersSuffice
<1>1. cur # Null
  <2>1. Len(cur) = 1
    BY DEF LogInv, LogTypes
  <2>2. Len(Null) = 0
    BY DEF Null
  <2> QED
    BY <2>1, <2>2
<1>2. writer = "swap" => buf1 # Null /\ (next = Null => buf2 # Null)
  BY DEF LogInv, Spares
<1>3. writer = "reuse" => Len(buf_to_write) >=
        (IF buf1 = Null THEN 1 ELSE 0) + (IF buf2 = Null THEN 1 ELSE 0)
  BY DEF LogInv, Spares
<1> QED
  BY <1>1, <1>2, <1>3 DEF BuffersSuffice

(* Every line that was logged is in the files or on its way there, once    *)
(* and in the order of the calls of append, but for those that were        *)
(* dropped with their buffers; and the writer never moves from a null      *)
(* buffer, and its two assertions on the batch hold (AsyncLog::append,     *)
(* AsyncLog::writeThread).                                                 *)
THEOREM LinesStayInOrder == LogSpec => []LinesInOrder
<1>1. LogInit => LogInv
  BY LogStarts
<1>2. LogInv /\ [LogNext]_logVars => LogInv'
  <2> SUFFICES ASSUME LogInv, [LogNext]_logVars
               PROVE  LogInv'
    OBVIOUS
  <2>1. CASE \E parts \in Messages : append(parts)
    BY <2>1, AppendLogs
  <2>2. CASE UNCHANGED <<cur, next, buffers, buf1, buf2, buf_to_write, writer, files,
                         logged, dropped>>
    <3>1. LogTypes'
      BY <2>2 DEF LogInv, LogTypes
    <3>2. Spares'
      BY <2>2 DEF LogInv, Spares
    <3>3. InOrder'
      BY <2>2 DEF LogInv, InOrder, AllBuffers
    <3> QED
      BY <3>1, <3>2, <3>3 DEF LogInv
  <2>3. CASE WriterLoop
    <3>1. UNCHANGED <<cur, next, buffers, buf1, buf2, buf_to_write, files, logged, dropped>>
          /\ writer = "while" /\ writer' \in {"swap", "end"}
      BY <2>3 DEF WriterLoop
    <3>2. LogTypes'
      BY <3>1 DEF LogInv, LogTypes
    <3>3. Spares'
      BY <3>1 DEF LogInv, Spares
    <3>4. InOrder'
      <4>1. AllBuffers' = AllBuffers
        BY <3>1 DEF AllBuffers
      <4> QED
        BY <3>1, <4>1 DEF LogInv, InOrder
    <3> QED
      BY <3>2, <3>3, <3>4 DEF LogInv
  <2>4. UNCHANGED logVars \/ stop =>
          UNCHANGED <<cur, next, buffers, buf1, buf2, buf_to_write, writer, files, logged, dropped>>
    BY DEF logVars, stop
  <2> QED
    BY <2>1, <2>2, <2>3, <2>4, SwapKeeps, WriteKeeps, ReuseKeeps DEF LogNext, LogWriter
<1>3. LogInv => LinesInOrder
  BY LogInvSuffices DEF LogInv, InOrder, LinesInOrder
<1> QED
  BY <1>1, <1>2, <1>3, PTL DEF LogSpec

-----------------------------------------------------------------------------
(* Channel and Poller.                                                     *)

\* A channel the kernel knows exactly when it is marked kAdded.
Known(ch) == ch \in ChannelType /\ (ch.registered <=> ch.index = kAdded)

\* ... and with exactly the interest the channel asked for.
Agrees(ch) == Known(ch) /\ (ch.registered => ch.mask = ch.events)

-----------------------------------------------------------------------------
(* EpollPoller::updateChannel (EpollPoller.cpp:87-116) brings the kernel   *)
(* up to date and leaves the channel known to the poller.                  *)
LEMMA UpdateChannelAgrees ==
  ASSUME NEW ch, Known(ch)
  PROVE  Agrees(UpdateChannel(ch)) /\ UpdateChannel(ch).index # kNew
  BY DEF Known, Agrees, ChannelType, UpdateChannel, isNonEvent, EpollAdd,
         EpollMod, EpollDel, kNew, kAdded, kDeleted

(* So does each of the enable and disable calls (Channel.h:52-61).         *)
LEMMA SwitchAgrees ==
  ASSUME NEW ch, Agrees(ch),
         NEW x \in {enableReading(ch), disableReading(ch), enableWriting(ch),
                    disableWriting(ch), disableAll(ch)}
  PROVE  Agrees(x) /\ x.index # kNew
<1>1. \A E \in SUBSET Interest :
        LET c2 == [ch EXCEPT !.events = E] IN Known(c2)
  BY DEF Agrees, Known, ChannelType
<1>2. ch.events \in SUBSET Interest
  BY DEF Agrees, Known, ChannelType
<1>3. PICK E \in SUBSET Interest : x = UpdateChannel([ch EXCEPT !.events = E])
  BY <1>2 DEF enableReading, disableReading, enableWriting, disableWriting,
              disableAll, Interest
<1> QED
  BY <1>1, <1>3, UpdateChannelAgrees

(* A channel that is taken down has no interest left and is out of the     *)
(* epoll set (EpollPoller.cpp:66-85).                                      *)
LEMMA RemoveAgrees ==
  ASSUME NEW ch, Agrees(ch)
  PROVE  /\ Agrees(removeChannel(disableAll(ch)))
         /\ removeChannel(disableAll(ch)).index = kNew
<1>1. PICK x : x = disableAll(ch)
  OBVIOUS
<1>2. Agrees(x)
  BY <1>1, SwitchAgrees
<1>3. isNonEvent(x)
  BY <1>1 DEF Agrees, Known, ChannelType, disableAll, UpdateChannel, isNonEvent,
              EpollAdd, EpollMod, EpollDel, Interest, kNew, kAdded, kDeleted
<1>4. Agrees(removeChannel(x)) /\ removeChannel(x).index = kNew
  BY <1>2, <1>3 DEF Agrees, Known, ChannelType, removeChannel, isNonEvent, EpollDel,
                    kNew, kAdded, kDeleted
<1> QED
  BY <1>1, <1>4

-----------------------------------------------------------------------------
(* The inductive invariant.                                                *)

AllAgree == \A c \in Objects : Agrees(channel[c])

\* An object that does not exist is not known to the poller.
DeadAreNew == \A c \in Objects : c \notin alive => channel[c].index = kNew

\* A channel that waits for resetChannel exists and is removed.
ResetAreNew == \A c \in toReset : c \in alive /\ channel[c].index = kNew

\* No two objects that exist have the same descriptor, apart from those.
OwnFds == \A c, d \in alive \ toReset : Fd[c] = Fd[d] => c = d

\* A channel that is being handled does not wait to be.
OnceInBatch == current \notin activeChannels

PollerInv ==
    /\ TypeOK /\ AllAgree /\ DeadAreNew /\ ResetAreNew /\ OwnFds /\ MapAgrees
    /\ OnceInBatch /\ HandledAreAlive

(* Nothing exists and nothing is registered at the start.                  *)
LEMMA PollerInit == Init => PollerInv
<1> SUFFICES ASSUME Init PROVE PollerInv
  OBVIOUS
<1>1. NewChannel \in ChannelType /\ Agrees(NewChannel)
  BY DEF NewChannel, ChannelType, Agrees, Known, Interest, kNew, kAdded, kDeleted
<1> QED
  BY <1>1
  DEF Init, PollerInv, TypeOK, AllAgree, DeadAreNew, ResetAreNew, OwnFds, MapAgrees,
      OnceInBatch, HandledAreAlive, NewChannel

(* An enable or disable call keeps the invariant.                          *)
LEMMA UpdateStep ==
  ASSUME PollerInv, NEW c \in Objects,
         \/ Update(c, enableReading(channel[c]))
         \/ Update(c, disableReading(channel[c]))
         \/ Update(c, enableWriting(channel[c]))
         \/ Update(c, disableWriting(channel[c]))
         \/ Update(c, disableAll(channel[c]))
  PROVE  PollerInv'
<1> USE FdAssumption DEF PollerInv
<1>1. PICK x \in {enableReading(channel[c]), disableReading(channel[c]),
                  enableWriting(channel[c]), disableWriting(channel[c]),
                  disableAll(channel[c])} :
           channel' = [channel EXCEPT ![c] = x]
  BY DEF Update
<1>2. /\ c \in alive /\ c \notin toReset
      /\ _channels' = Entry(c, _channels)
      /\ UNCHANGED <<alive, activeChannels, current, toRemove, toReset>>
  BY DEF Update
<1>3. Agrees(x) /\ x.index # kNew /\ x \in ChannelType
  BY SwitchAgrees DEF AllAgree, Agrees, Known
<1>4. /\ channel'[c] = x /\ channel' \in [Objects -> ChannelType]
      /\ \A d \in Objects : d # c => channel'[d] = channel[d]
  BY <1>1, <1>3 DEF TypeOK
<1>5. TypeOK'
  BY <1>2, <1>4 DEF TypeOK, Entry
<1>6. AllAgree' /\ DeadAreNew' /\ OwnFds' /\ OnceInBatch'
  BY <1>2, <1>3, <1>4 DEF AllAgree, DeadAreNew, OwnFds, OnceInBatch
<1>7. ResetAreNew'
  BY <1>2, <1>4 DEF ResetAreNew, TypeOK
<1>8. MapAgrees'
  <2>1. CASE channel[c].index = kNew
    <3>1. \A d \in alive : d # c /\ channel[d].index # kNew => Fd[d] # Fd[c]
      BY <1>2 DEF OwnFds, ResetAreNew
    <3> QED
      BY <1>2, <1>3, <1>4, <2>1, <3>1 DEF MapAgrees, Entry, TypeOK
  <2>2. CASE channel[c].index # kNew
    BY <1>2, <1>3, <1>4, <2>2 DEF MapAgrees, Entry, TypeOK
  <2> QED
    BY <2>1, <2>2
<1>9. HandledAreAlive'
  BY <1>2, <1>3, <1>4 DEF HandledAreAlive, TypeOK
<1> QED
  BY <1>5, <1>6, <1>7, <1>8, <1>9

(* Taking down a channel keeps what does not depend on the moment: the     *)
(* entry that is erased is its own.                                        *)
LEMMA TakenOut ==
  ASSUME PollerInv, NEW c \in Objects, Removable(c), TakeOut(c),
         UNCHANGED <<alive, activeChannels, current>>,
         toReset' \in {toReset, toReset \cup {c}}, toRemove' \subseteq toRemove
  PROVE  /\ TypeOK' /\ AllAgree' /\ DeadAreNew' /\ ResetAreNew' /\ OwnFds' /\ MapAgrees'
         /\ \A d \in Objects : d # c => channel'[d] = channel[d]
<1> USE FdAssumption DEF PollerInv
<1>1. PICK x : x = removeChannel(disableAll(channel[c]))
  OBVIOUS
<1>2. Agrees(x) /\ x.index = kNew /\ x \in ChannelType
  BY <1>1, RemoveAgrees DEF AllAgree, Agrees, Known
<1>3. channel' = [channel EXCEPT ![c] = x] /\ _channels' = {e \in _channels : e[1] # Fd[c]}
  BY <1>1 DEF TakeOut
<1>4. /\ channel'[c] = x /\ channel' \in [Objects -> ChannelType]
      /\ \A d \in Objects : d # c => channel'[d] = channel[d]
  BY <1>2, <1>3 DEF TypeOK
<1>5. c \in alive /\ channel[c].index # kNew
  BY DEF Removable
<1>6. c \notin toReset
  BY <1>5 DEF ResetAreNew
<1>7. TypeOK'
  BY <1>3, <1>4 DEF TypeOK
<1>8. AllAgree' /\ DeadAreNew'
  BY <1>2, <1>4 DEF AllAgree, DeadAreNew
<1>9. ResetAreNew' /\ OwnFds'
  BY <1>2, <1>4, <1>5 DEF ResetAreNew, OwnFds, TypeOK
<1>10. MapAgrees'
  <2>1. \A d \in alive : d # c /\ channel[d].index # kNew => Fd[d] # Fd[c]
    BY <1>5, <1>6 DEF OwnFds, ResetAreNew
  <2> QED
    BY <1>2, <1>3, <1>4, <2>1 DEF MapAgrees, TypeOK
<1> QED
  BY <1>4, <1>7, <1>8, <1>9, <1>10

(* Queued tasks, a Connector's own handler and ~TcpServer take down a      *)
(* channel that does not wait in the batch, or one of InPlace.             *)
LEMMA RemoveStep ==
  ASSUME PollerInv, NEW c \in Objects,
         \/ queueInLoop(c) \/ RunRemove(c) \/ removeAndResetChannel(c) \/ RemoveInPlace(c)
  PROVE  PollerInv'
<1> USE DEF PollerInv
<1>1. CASE queueInLoop(c)
  BY <1>1 DEF queueInLoop, TypeOK, AllAgree, DeadAreNew, ResetAreNew, OwnFds, MapAgrees,
              OnceInBatch, HandledAreAlive
<1>2. CASE RunRemove(c)
  <2>1. BatchOver /\ UNCHANGED <<alive, activeChannels, current>> /\ toRemove' = toRemove \ {c}
    BY <1>2 DEF RunRemove
  <2>2. OnceInBatch' /\ HandledAreAlive'
    BY <2>1 DEF BatchOver, OnceInBatch, HandledAreAlive
  <2>3. CASE Removable(c) /\ TakeOut(c) /\ ResetOrNot(c)
    BY <2>1, <2>2, <2>3, TakenOut DEF ResetOrNot
  <2>4. CASE UNCHANGED <<channel, _channels, toReset>>
    BY <2>1, <2>2, <2>4 DEF TypeOK, AllAgree, DeadAreNew, ResetAreNew, OwnFds, MapAgrees
  <2> QED
    BY <1>2, <2>3, <2>4 DEF RunRemove
<1>3. CASE removeAndResetChannel(c)
  <2>1. /\ Removable(c) /\ current = c /\ TakeOut(c) /\ toReset' = toReset \cup {c}
        /\ UNCHANGED <<alive, activeChannels, current, toRemove>>
    BY <1>3 DEF removeAndResetChannel
  <2>2. \A d \in Objects : d # c => channel'[d] = channel[d]
    BY <2>1, TakenOut
  <2>3. OnceInBatch' /\ HandledAreAlive'
    BY <2>1, <2>2 DEF OnceInBatch, HandledAreAlive, TypeOK
  <2> QED
    BY <2>1, <2>3, TakenOut
<1>4. CASE RemoveInPlace(c)
  <2>1. /\ Removable(c) /\ c \in InPlace /\ TakeOut(c)
        /\ UNCHANGED <<alive, activeChannels, current, toRemove, toReset>>
    BY <1>4 DEF RemoveInPlace
  <2>2. \A d \in Objects : d # c => channel'[d] = channel[d]
    BY <2>1, TakenOut
  <2>3. OnceInBatch' /\ HandledAreAlive'
    BY <2>1, <2>2 DEF OnceInBatch, HandledAreAlive, TypeOK
  <2> QED
    BY <2>1, <2>3, TakenOut
<1> QED
  BY <1>1, <1>2, <1>3, <1>4

(* An object that goes while it is removed keeps what the poller knows.    *)
LEMMA GoneKeeps ==
  ASSUME PollerInv, NEW c \in alive, channel[c].index = kNew, Gone(c),
         UNCHANGED <<_channels, activeChannels, current, toRemove>>,
         toReset' = toReset \ {c}
  PROVE  /\ TypeOK' /\ AllAgree' /\ DeadAreNew' /\ ResetAreNew' /\ OwnFds' /\ MapAgrees'
         /\ \A d \in Objects : channel'[d].index = channel[d].index
<1> USE FdAssumption DEF PollerInv
<1>0. c \in Objects /\ alive' = alive \ {c}
  BY DEF TypeOK, Gone
<1>1. PICK x : x = [channel[c] EXCEPT !.registered = FALSE, !.mask = {}]
  OBVIOUS
<1>2. x \in ChannelType /\ Agrees(x) /\ x.index = kNew
  BY <1>0, <1>1 DEF AllAgree, Agrees, Known, ChannelType, kNew, kAdded
<1>3. channel' = [channel EXCEPT ![c] = x]
  BY <1>1 DEF Gone, TypeOK
<1>4. /\ channel'[c] = x /\ channel' \in [Objects -> ChannelType]
      /\ \A d \in Objects : d # c => channel'[d] = channel[d]
  BY <1>0, <1>2, <1>3 DEF TypeOK
<1>5. TypeOK'
  BY <1>0, <1>4 DEF TypeOK
<1>6. AllAgree' /\ DeadAreNew' /\ OwnFds'
  BY <1>0, <1>2, <1>4 DEF AllAgree, DeadAreNew, OwnFds, TypeOK
<1>7. ResetAreNew'
  BY <1>0, <1>4 DEF ResetAreNew, TypeOK
<1>8. MapAgrees'
  BY <1>0, <1>2, <1>4 DEF MapAgrees, TypeOK
<1>9. \A d \in Objects : channel'[d].index = channel[d].index
  BY <1>2, <1>4
<1> QED
  BY <1>5, <1>6, <1>7, <1>8, <1>9

(* Making and destroying a channel object keeps the invariant.             *)
LEMMA LifeStep ==
  ASSUME PollerInv, NEW c \in Objects, Construct(c) \/ RunReset(c) \/ Destroy(c)
  PROVE  PollerInv'
<1> USE FdAssumption DEF PollerInv
<1>1. CASE Construct(c)
  <2>1. NewChannel \in ChannelType /\ Agrees(NewChannel) /\ NewChannel.index = kNew
    BY DEF NewChannel, ChannelType, Agrees, Known, Interest, kNew, kAdded, kDeleted
  <2>2. /\ channel'[c] = NewChannel /\ channel' \in [Objects -> ChannelType]
        /\ \A d \in Objects : d # c => channel'[d] = channel[d]
    BY <1>1, <2>1 DEF TypeOK, Construct
  <2>3. /\ c \notin alive /\ alive' = alive \cup {c}
        /\ \A d \in alive : Fd[d] = Fd[c] => d \in toReset
        /\ UNCHANGED <<_channels, activeChannels, current, toRemove, toReset>>
    BY <1>1 DEF Construct
  <2>4. TypeOK' /\ OnceInBatch'
    BY <2>2, <2>3 DEF TypeOK, OnceInBatch
  <2>5. AllAgree' /\ DeadAreNew' /\ OwnFds' /\ ResetAreNew'
    BY <2>1, <2>2, <2>3 DEF AllAgree, DeadAreNew, OwnFds, ResetAreNew, TypeOK
  <2>6. MapAgrees'
    BY <2>1, <2>2, <2>3 DEF MapAgrees, DeadAreNew, TypeOK
  <2>7. HandledAreAlive'
    BY <2>2, <2>3 DEF HandledAreAlive, TypeOK
  <2> QED
    BY <2>4, <2>5, <2>6, <2>7
<1>2. CASE RunReset(c)
  <2>1. /\ BatchOver /\ c \in toReset /\ toReset' = toReset \ {c} /\ Gone(c)
        /\ UNCHANGED <<_channels, activeChannels, current, toRemove>>
    BY <1>2 DEF RunReset
  <2>2. c \in alive /\ channel[c].index = kNew
    BY <2>1 DEF ResetAreNew
  <2>3. OnceInBatch' /\ HandledAreAlive'
    BY <2>1 DEF BatchOver, OnceInBatch, HandledAreAlive
  <2> QED
    BY <2>1, <2>2, <2>3, GoneKeeps
<1>3. CASE Destroy(c)
  <2>1. /\ c \in alive /\ channel[c].index = kNew /\ c \notin toReset
        /\ c \in InPlace \/ c # current
        /\ Gone(c) /\ UNCHANGED <<_channels, activeChannels, current, toRemove, toReset>>
    BY <1>3 DEF Destroy
  <2>2. toReset' = toReset \ {c} /\ alive' = alive \ {c}
    BY <2>1 DEF Gone
  <2>3. \A d \in Objects : channel'[d].index = channel[d].index
    BY <2>1, <2>2, GoneKeeps
  <2>4. c \in activeChannels => c \in InPlace
    BY <2>1 DEF HandledAreAlive
  <2>5. OnceInBatch' /\ HandledAreAlive'
    BY <2>1, <2>2, <2>3, <2>4 DEF OnceInBatch, HandledAreAlive, TypeOK
  <2> QED
    BY <2>1, <2>2, <2>5, GoneKeeps
<1> QED
  BY <1>1, <1>2, <1>3

(* Polling and handling keep the invariant: only registered channels are   *)
(* reported, and those exist.                                              *)
LEMMA PollStep ==
  ASSUME PollerInv,
         \/ \E S \in SUBSET Objects : Poll(S)
         \/ \E c \in Objects : HandleEvents(c)
         \/ HandleEventsDone
  PROVE  PollerInv'
<1> USE FdAssumption DEF PollerInv
<1>1. UNCHANGED <<alive, channel, _channels, toRemove, toReset>>
  BY DEF Poll, HandleEvents, HandleEventsDone
<1>2. TypeOK'
  BY <1>1 DEF TypeOK, Poll, HandleEvents, HandleEventsDone
<1>3. AllAgree' /\ DeadAreNew' /\ ResetAreNew' /\ OwnFds' /\ MapAgrees'
  BY <1>1 DEF AllAgree, DeadAreNew, ResetAreNew, OwnFds, MapAgrees
<1>4. \A c \in Objects : channel[c].registered => c \in alive /\ channel[c].index # kNew
  BY DEF AllAgree, Agrees, Known, DeadAreNew, kNew, kAdded
<1>5. HandledAreAlive'
  BY <1>1, <1>4 DEF HandledAreAlive, Poll, BatchOver, HandleEvents, HandleEventsDone, TypeOK
<1>6. OnceInBatch'
  BY DEF OnceInBatch, Poll, BatchOver, HandleEvents, HandleEventsDone, TypeOK
<1> QED
  BY <1>2, <1>3, <1>5, <1>6

(* The invariant is inductive.                                             *)
LEMMA PollerStep ==
  ASSUME PollerInv, [Next]_vars
  PROVE  PollerInv'
<1>1. CASE UNCHANGED vars
  BY <1>1
  DEF vars, PollerInv, TypeOK, AllAgree, DeadAreNew, ResetAreNew, OwnFds, MapAgrees,
      OnceInBatch, HandledAreAlive
<1>2. CASE Next
  BY <1>2, UpdateStep, RemoveStep, LifeStep, PollStep DEF Next
<1> QED
  BY <1>1, <1>2

(* The invariant holds in every reachable state.                           *)
LEMMA PollerInvariance == Spec => []PollerInv
  BY PollerInit, PollerStep, PTL DEF Spec

(* The kernel's epoll set and the channels agree after any sequence of     *)
(* updates (EpollPoller.cpp:66-116).                                       *)
THEOREM KernelAlwaysAgrees == Spec => []KernelAgrees
<1>1. PollerInv => KernelAgrees
  BY DEF PollerInv, AllAgree, Agrees, Known, DeadAreNew, KernelAgrees, kNew, kAdded
<1> QED
  BY <1>1, PollerInvariance, PTL

(* The poller's map holds exactly the known channels under their own       *)
(* descriptors, however descriptors are used again.                        *)
THEOREM MapAlwaysAgrees == Spec => []MapAgrees
<1>1. PollerInv => MapAgrees
  BY DEF PollerInv
<1> QED
  BY <1>1, PollerInvariance, PTL

(* A channel that is taken down by a task of the loop, or in its own       *)
(* handler with resetChannel queued, is known while it waits in a batch    *)
(* and exists until its handler has come back (EventLoop.cpp:104-127,      *)
(* Connector.cpp:140-153), whatever ~TcpServer takes down in between.      *)
THEOREM HandledAlwaysAlive == Spec => []HandledAreAlive
<1>1. PollerInv => HandledAreAlive
  BY DEF PollerInv
<1> QED
  BY <1>1, PollerInvariance, PTL

=============================================================================
