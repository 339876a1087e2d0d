----------------------------- MODULE ThreadPool -----------------------------
(***************************************************************************)
(* The two thread pools: web/base/ThreadPool.cpp ("base") and              *)
(* web/threadpool/ThreadPool.h ("header").                                 *)
(*                                                                         *)
(* A section under the mutex is one step.  A waiting worker needs a        *)
(* notification; notify_one picks any of those that wait.                  *)
(***************************************************************************)
EXTENDS Integers, Sequences, FiniteSets

CONSTANTS
    PoolWorkers,    \* the threads of the pool
    MaxTasks        \* bound: tasks added

ASSUME ThreadPoolAssumption == MaxTasks \in Nat /\ PoolWorkers # {}

VARIABLES
    kind,           \* which of the two pools
    tasks,          \* _que_funcs or tasks_queue
    worker,         \* "check", "wait", "run", "returned", or "lost": ended
                    \* by an exception
    task,           \* the task it took
    stopping,       \* "no", "yes" (the flag is set), "told" (notify_all made)
    unheard,        \* header: tasks queued whose notify_one is still to come
    added, done     \* number of tasks added, how often each has run

threadPoolVars == <<kind, tasks, worker, task, stopping, unheard, added, done>>

ThreadPoolInit ==
    /\ kind \in {"base", "header"}
    /\ tasks = <<>> /\ unheard = 0 /\ added = 0
    /\ worker = [w \in PoolWorkers |-> "check"] /\ task = [w \in PoolWorkers |-> 0]
    /\ stopping = "no"
    /\ done = [n \in 1 .. MaxTasks |-> 0]

Waiters == {w \in PoolWorkers : worker[w] = "wait"}
NotifyOne ==
    \/ Waiters = {} /\ UNCHANGED worker
    \/ \E w \in Waiters : worker' = [worker EXCEPT ![w] = "check"]
NotifyAll == worker' = [w \in PoolWorkers |-> IF worker[w] = "wait" THEN "check" ELSE worker[w]]

\* add: base notifies under the lock, header after it.  header throws once
\* the pool was stopped; nobody calls add of base while it is destroyed.
AddTask ==
    /\ added < MaxTasks /\ stopping = "no"
    /\ added' = added + 1
    /\ tasks' = Append(tasks, added + 1)
    /\ \/ kind = "base" /\ NotifyOne /\ UNCHANGED unheard
       \/ kind = "header" /\ unheard' = unheard + 1 /\ UNCHANGED worker
    /\ UNCHANGED <<kind, task, stopping, done>>

AddNotifies ==
    /\ unheard > 0 /\ unheard' = unheard - 1
    /\ NotifyOne
    /\ UNCHANGED <<kind, tasks, task, stopping, added, done>>

\* The destructor sets the flag, base tells the workers under the same lock.
StopPool ==
    /\ stopping = "no" /\ unheard = 0
    /\ \/ kind = "base" /\ stopping' = "told" /\ NotifyAll
       \/ kind = "header" /\ stopping' = "yes" /\ UNCHANGED worker
    /\ UNCHANGED <<kind, tasks, task, unheard, added, done>>

\* Mutant of StopNotifies: wakes one worker only.
StopNotifiesOne ==
    /\ stopping = "yes" /\ stopping' = "told"
    /\ NotifyOne
    /\ UNCHANGED <<kind, tasks, task, unheard, added, done>>

StopNotifies ==
    /\ stopping = "yes" /\ stopping' = "told"
    /\ NotifyAll
    /\ UNCHANGED <<kind, tasks, task, unheard, added, done>>

Take(w) ==
    /\ tasks # <<>> /\ tasks' = Tail(tasks)
    /\ worker' = [worker EXCEPT ![w] = "run"]
    /\ task' = [task EXCEPT ![w] = Head(tasks)]

\* Mutant of CheckQueue: leaves as soon as the pool is stopped.
CheckQueueLeaves(w) ==
    /\ worker[w] = "check"
    /\ \/ stopping = "no" /\ Take(w)
       \/ /\ stopping # "no" \/ tasks = <<>>
          /\ worker' = [worker EXCEPT ![w] = IF stopping = "no" THEN "wait" ELSE "returned"]
          /\ UNCHANGED <<tasks, task>>
    /\ UNCHANGED <<kind, stopping, unheard, added, done>>

\* A worker looks at the queue: a task, the end, or wait.
CheckQueue(w) ==
    /\ worker[w] = "check"
    /\ \/ Take(w)
       \/ /\ tasks = <<>>
          /\ worker' = [worker EXCEPT ![w] = IF stopping = "no" THEN "wait" ELSE "returned"]
          /\ UNCHANGED <<tasks, task>>
    /\ UNCHANGED <<kind, stopping, unheard, added, done>>

\* The task runs; one that throws ends a thread of base, whose handler is
\* around the loop, be it the last one.  header keeps the exception for the
\* future of the task.
RunTask(w) ==
    /\ worker[w] = "run"
    /\ done' = [done EXCEPT ![task[w]] = @ + 1]
    /\ \/ worker' = [worker EXCEPT ![w] = "check"]
       \/ kind = "base" /\ worker' = [worker EXCEPT ![w] = "lost"]
    /\ UNCHANGED <<kind, tasks, task, stopping, unheard, added>>

PoolWorker(w) == CheckQueue(w) \/ RunTask(w)
ThreadPoolNext ==
    \/ AddTask \/ AddNotifies \/ StopPool \/ StopNotifies
    \/ \E w \in PoolWorkers : PoolWorker(w)

ThreadPoolSpec == ThreadPoolInit /\ [][ThreadPoolNext]_threadPoolVars

Joined == \A w \in PoolWorkers : worker[w] \in {"returned", "lost"}

\* Tasks that threw have ended every thread of a base pool.
AllLost == kind = "base" /\ \A w \in PoolWorkers : worker[w] = "lost"

\* No task runs twice, and when the destructor has joined its threads every
\* task that was added has run, stopped in whatever moment and with whichever
\* threads lost to tasks that threw (base/ThreadPool.cpp:56-83); except that a
\* base pool which lost all of them leaves in its queue what it has not run.
TasksRunOnce ==
    /\ \A n \in 1 .. MaxTasks : done[n] <= 1
    /\ Joined => \A n \in 1 .. added :
          done[n] = 1 \/ (AllLost /\ \E i \in DOMAIN tasks : tasks[i] = n)

=============================================================================
