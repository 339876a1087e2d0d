------------------------------ MODULE EventLoop ------------------------------
(***************************************************************************)
(* Tiny_muduo::net::EventLoop (web/net/tcp/EventLoop.cpp): one thread that *)
(* waits in the poller, handles the active channels, runs the tasks other  *)
(* threads handed to it, and is pulled out of the poller through an        *)
(* eventfd.                                                                *)
(*                                                                         *)
(* LockFree selects the container of _pendingTasks as the build does:      *)
(* TRUE is USE_LOCKFREEQUEUE, the option the repository's CMakeLists sets, *)
(* with the single-producer block of ReaderWriterQueue; FALSE is the       *)
(* vector under a mutex.                                                   *)
(*                                                                         *)
(* A task is a pair <<caller, n>>, the n-th one that caller queued.  A     *)
(* task or an I/O handler running on the loop's thread may itself queue    *)
(* tasks and call quit; runInLoop on the loop's own thread is a plain call *)
(* inside that task or handler.                                            *)
(***************************************************************************)
EXTENDS ReaderWriterQueue

CONSTANTS
    LoopThread,     \* the thread the loop belongs to, one of Producers
    Posters,        \* the threads that hand tasks to this loop
    LockFree,       \* USE_LOCKFREEQUEUE
    MaxTasks,       \* bound: tasks each thread queues
    MaxQuits        \* bound: calls of quit

ASSUME LoopAssumption ==
    /\ LoopThread \in Producers
    /\ Posters \subseteq Producers
    /\ LockFree \in BOOLEAN
    /\ MaxTasks \in Nat
    /\ MaxQuits \in Nat
    /\ Elements = Producers \X (1 .. MaxTasks)

VARIABLES
    phase,              \* where the loop thread is in loop()
    _quit,
    _callPendingTasks,
    wakeupFd,           \* the counter of the eventfd
    active,             \* _activeChannels: "wakeup" and "io" (any other channel)
    _pendingTasks,      \* the vector of the mutex build
    functors,           \* the local vector doPendingTask swapped it into
    call,               \* call[p]: where thread p is inside queueInLoop
    posted,             \* posted[p]: how many tasks p has queued so far
    executed,           \* the tasks that were run, in order (history)
    quits,              \* how often quit was called (history)
    refused             \* the tasks try_enqueue had no room for (history)

loopVars == <<phase, _quit, _callPendingTasks, wakeupFd, active,
              _pendingTasks, functors, call, posted, executed, quits, refused>>
vars == <<queueVars, loopVars>>

Threads == Producers \ {LoopThread}

Phases == {"created", "while", "poll", "events", "io", "pending", "task",
           "returned"}

TypeOK ==
    /\ QueueTypeOK
    /\ phase \in Phases
    /\ _quit \in BOOLEAN
    /\ _callPendingTasks \in BOOLEAN
    /\ wakeupFd \in Nat
    /\ active \in SUBSET {"wakeup", "io"}
    /\ _pendingTasks \in Seq(Elements)
    /\ functors \in Seq(Elements)
    /\ call \in [Producers -> {"none", "enqueue", "queued"}]
    /\ posted \in [Producers -> 0 .. MaxTasks]
    /\ executed \in Seq(Elements)
    /\ quits \in 0 .. MaxQuits
    /\ refused \subseteq Elements

\* The state EventLoop::EventLoop leaves: loop() not yet called.
Init ==
    /\ QueueInit
    /\ phase = "created"
    /\ _quit = FALSE
    /\ _callPendingTasks = FALSE
    /\ wakeupFd = 0
    /\ active = {}
    /\ _pendingTasks = <<>>
    /\ functors = <<>>
    /\ call = [p \in Producers |-> "none"]
    /\ posted = [p \in Producers |-> 0]
    /\ executed = <<>>
    /\ quits = 0
    /\ refused = {}

-----------------------------------------------------------------------------
(* Calls from any thread: queueInLoop, and runInLoop on another thread.    *)

\* User code runs on thread p: always on the others, on the loop's own
\* thread inside an I/O handler or a task.
UserCode(p) ==
    /\ call[p] = "none"
    /\ p = LoopThread => phase \in {"io", "task"}

NewTask(p) == <<p, posted[p] + 1>>

\* The mutex build: one push_back under _mutex.
QueuePushBack(p) ==
    /\ ~LockFree
    /\ p \in Posters /\ UserCode(p) /\ posted[p] < MaxTasks
    /\ _pendingTasks' = Append(_pendingTasks, NewTask(p))
    /\ posted' = [posted EXCEPT ![p] = @ + 1]
    /\ call' = [call EXCEPT ![p] = "queued"]
    /\ UNCHANGED <<queueVars, phase, _quit, _callPendingTasks, wakeupFd,
                   active, functors, executed, quits, refused>>

\* The lock-free build: try_enqueue, whose result is ignored.
QueueTryEnqueue(p) ==
    /\ LockFree
    /\ p \in Posters /\ UserCode(p) /\ posted[p] < MaxTasks
    /\ posted' = [posted EXCEPT ![p] = @ + 1]
    /\ \/ /\ EnqueueRoom(p, NewTask(p))
          /\ call' = [call EXCEPT ![p] = "enqueue"]
          /\ UNCHANGED refused
       \/ /\ EnqueueFull(p)
          /\ call' = [call EXCEPT ![p] = "queued"]
          /\ refused' = refused \cup {NewTask(p)}
    /\ UNCHANGED <<phase, _quit, _callPendingTasks, wakeupFd, active,
                   _pendingTasks, functors, executed, quits>>

QueueConstruct(p) ==
    /\ EnqueueConstruct(p)
    /\ UNCHANGED loopVars

QueuePublish(p) ==
    /\ EnqueuePublish(p)
    /\ call' = [call EXCEPT ![p] = "queued"]
    /\ UNCHANGED <<phase, _quit, _callPendingTasks, wakeupFd, active,
                   _pendingTasks, functors, posted, executed, quits, refused>>

\* Mutants of NeedsWakeup: half of its test each.
WakeupWhileCalling(p) == _callPendingTasks
WakeupFromThreads(p) == p # LoopThread

\* The test that ends queueInLoop: !isInLoopThread() || _callPendingTasks
NeedsWakeup(p) == p # LoopThread \/ _callPendingTasks

QueueWakeup(p) ==
    /\ call[p] = "queued"
    /\ wakeupFd' = IF NeedsWakeup(p) THEN wakeupFd + 1 ELSE wakeupFd
    /\ call' = [call EXCEPT ![p] = "none"]
    /\ UNCHANGED <<queueVars, phase, _quit, _callPendingTasks, active,
                   _pendingTasks, functors, posted, executed, quits, refused>>

\* EventLoop::quit(): the flag, and the wakeup only on the loop's own thread.
Quit(p) ==
    /\ UserCode(p) /\ quits < MaxQuits
    /\ quits' = quits + 1
    /\ _quit' = TRUE
    /\ wakeupFd' = IF p = LoopThread THEN wakeupFd + 1 ELSE wakeupFd
    /\ UNCHANGED <<queueVars, phase, _callPendingTasks, active,
                   _pendingTasks, functors, call, posted, executed, refused>>

-----------------------------------------------------------------------------
(* loop(), on the loop's thread.                                           *)

\* loop() is entered: _looping = true, _quit = false.
EnterLoop ==
    /\ phase = "created"
    /\ phase' = "while"
    /\ _quit' = FALSE
    /\ UNCHANGED <<queueVars, _callPendingTasks, wakeupFd, active,
                   _pendingTasks, functors, call, posted, executed, quits, refused>>

\* Mutant of WhileTest: _quit is not looked at.
WhileTrue ==
    /\ phase = "while"
    /\ phase' = "poll"
    /\ UNCHANGED <<queueVars, _quit, _callPendingTasks, wakeupFd, active,
                   _pendingTasks, functors, call, posted, executed, quits, refused>>

\* while (!_quit)
WhileTest ==
    /\ phase = "while"
    /\ phase' = IF _quit THEN "returned" ELSE "poll"
    /\ UNCHANGED <<queueVars, _quit, _callPendingTasks, wakeupFd, active,
                   _pendingTasks, functors, call, posted, executed, quits, refused>>

\* The poller reports the channels in S.
PollReturns(S) ==
    /\ phase = "poll"
    /\ phase' = "events"
    /\ active' = S
    /\ UNCHANGED <<queueVars, _quit, _callPendingTasks, wakeupFd,
                   _pendingTasks, functors, call, posted, executed, quits, refused>>

\* The eventfd is readable: epoll is level triggered, so it stays reported
\* as long as the counter is not zero.
PollWakeup == wakeupFd > 0 /\ PollReturns({"wakeup"})

\* Some other channel (a connection, the acceptor, the timerfd) is active.
PollIO == PollReturns({"io"} \cup (IF wakeupFd > 0 THEN {"wakeup"} ELSE {}))

\* kPollTimeMs have passed and nothing is active.
PollTimeout == wakeupFd = 0 /\ PollReturns({})

\* handleWakeUp(): read(_wakeupFd) takes the whole counter.
HandleWakeUp ==
    /\ phase = "events" /\ "wakeup" \in active
    /\ wakeupFd' = 0
    /\ active' = active \ {"wakeup"}
    /\ UNCHANGED <<queueVars, phase, _quit, _callPendingTasks,
                   _pendingTasks, functors, call, posted, executed, quits, refused>>

\* The handler of another channel starts, and returns.
HandleIO ==
    /\ phase = "events" /\ "io" \in active
    /\ phase' = "io"
    /\ active' = active \ {"io"}
    /\ UNCHANGED <<queueVars, _quit, _callPendingTasks, wakeupFd,
                   _pendingTasks, functors, call, posted, executed, quits, refused>>

HandleIODone ==
    /\ phase = "io" /\ call[LoopThread] = "none"
    /\ phase' = "events"
    /\ UNCHANGED <<queueVars, _quit, _callPendingTasks, wakeupFd, active,
                   _pendingTasks, functors, call, posted, executed, quits, refused>>

-----------------------------------------------------------------------------
(* doPendingTask().                                                        *)

\* Mutex build: _callPendingTasks = true, then the swap under _mutex.
PendingSwap ==
    /\ ~LockFree
    /\ phase = "events" /\ active = {}
    /\ phase' = "pending"
    /\ _callPendingTasks' = TRUE
    /\ functors' = _pendingTasks
    /\ _pendingTasks' = <<>>
    /\ UNCHANGED <<queueVars, _quit, wakeupFd, active, call, posted,
                   executed, quits, refused>>

\* Lock-free build: _callPendingTasks = true, then one try_dequeue a turn.
PendingBegin ==
    /\ LockFree
    /\ phase = "events" /\ active = {}
    /\ phase' = "pending"
    /\ _callPendingTasks' = TRUE
    /\ UNCHANGED <<queueVars, _quit, wakeupFd, active, _pendingTasks,
                   functors, call, posted, executed, quits, refused>>

\* Mutant of RunSwapped: the functors are taken from the back.
RunSwappedBackwards ==
    /\ ~LockFree
    /\ phase = "pending" /\ functors # <<>>
    /\ phase' = "task"
    /\ executed' = Append(executed, functors[Len(functors)])
    /\ functors' = SubSeq(functors, 1, Len(functors) - 1)
    /\ UNCHANGED <<queueVars, _quit, _callPendingTasks, wakeupFd, active,
                   _pendingTasks, call, posted, quits, refused>>

\* functor(): the next functor of the local vector starts.
RunSwapped ==
    /\ ~LockFree
    /\ phase = "pending" /\ functors # <<>>
    /\ phase' = "task"
    /\ executed' = Append(executed, Head(functors))
    /\ functors' = Tail(functors)
    /\ UNCHANGED <<queueVars, _quit, _callPendingTasks, wakeupFd, active,
                   _pendingTasks, call, posted, quits, refused>>

DequeueFunctor ==
    /\ LockFree
    /\ phase = "pending"
    /\ DequeueTake
    /\ UNCHANGED loopVars

\* if (functor != nullptr) functor(): an empty one is skipped.
RunDequeued ==
    /\ phase = "pending"
    /\ DequeueAdvance
    /\ IF deq.elem \in Elements
       THEN phase' = "task" /\ executed' = Append(executed, deq.elem)
       ELSE UNCHANGED <<phase, executed>>
    /\ UNCHANGED <<_quit, _callPendingTasks, wakeupFd, active, _pendingTasks,
                   functors, call, posted, quits, refused>>

\* The task returns.
TaskDone ==
    /\ phase = "task" /\ call[LoopThread] = "none"
    /\ phase' = "pending"
    /\ UNCHANGED <<queueVars, _quit, _callPendingTasks, wakeupFd, active,
                   _pendingTasks, functors, call, posted, executed, quits, refused>>

\* Nothing is left: _callPendingTasks = false, back to the test of the loop.
PendingDone ==
    /\ phase = "pending"
    /\ IF LockFree THEN DequeueEmpty
                   ELSE functors = <<>> /\ UNCHANGED queueVars
    /\ phase' = "while"
    /\ _callPendingTasks' = FALSE
    /\ UNCHANGED <<_quit, wakeupFd, active, _pendingTasks, functors, call,
                   posted, executed, quits, refused>>

-----------------------------------------------------------------------------
\* The steps with which thread p finishes a call it has begun.
CallStep(p) == QueueConstruct(p) \/ QueuePublish(p) \/ QueueWakeup(p)

Call(p) == QueuePushBack(p) \/ QueueTryEnqueue(p) \/ Quit(p)

\* The loop's own steps; the poll timeout is apart (see Fairness).
LoopStep ==
    \/ EnterLoop \/ WhileTest \/ PollWakeup
    \/ HandleWakeUp \/ HandleIO \/ HandleIODone
    \/ PendingSwap \/ PendingBegin \/ RunSwapped \/ DequeueFunctor
    \/ RunDequeued \/ TaskDone \/ PendingDone

Next ==
    \/ \E p \in Producers : Call(p) \/ CallStep(p)
    \/ LoopStep
    \/ PollIO
    \/ PollTimeout

Spec == Init /\ [][Next]_vars

(* The loop's thread and a thread inside a call keep running.  Nothing is  *)
(* assumed of other channels, nor of the ten second timeout: whatever is   *)
(* shown to happen happens without waiting for it.                         *)
Fairness ==
    /\ WF_vars(LoopStep)
    /\ \A p \in Producers : WF_vars(CallStep(p))

FairSpec == Spec /\ Fairness

-----------------------------------------------------------------------------
(* Properties.                                                             *)

HasPending == IF LockFree THEN front # tail ELSE _pendingTasks # <<>>

(* The loop never sleeps on a task: while it waits in the poller with a    *)
(* task in _pendingTasks, the eventfd is readable or the thread that       *)
(* queued the task has yet to write it (EventLoop.cpp:188-190).  This is   *)
(* what the "|| _callPendingTasks" of that test is for.                    *)
NoLostWakeup ==
    (phase = "poll" /\ HasPending) =>
        wakeupFd > 0 \/ \E p \in Threads : call[p] = "queued"

Tasks == {e \in Elements : e[2] <= posted[e[1]]}

Ran == {executed[i] : i \in DOMAIN executed}

\* Where a task can be between queueInLoop and its execution.
InFlight ==
    IF LockFree
    THEN {slots[i] : i \in {j \in Index : Filled(j)}} \cup {deq.elem}
         \cup {enq[p].elem : p \in Producers}
    ELSE {_pendingTasks[i] : i \in DOMAIN _pendingTasks}
         \cup {functors[i] : i \in DOMAIN functors}

(* A task that _pendingTasks took is waiting or was run: neither the swap  *)
(* of the mutex build (EventLoop.cpp:287-306) nor the dequeue loop of the  *)
(* other (EventLoop.cpp:269-284) drops one.                                *)
NoTaskLost == Tasks \ refused \subseteq InFlight \cup Ran

(* The tasks of one thread run in the order it queued them, none twice,    *)
(* whatever the loop's own thread queues in between; and none is lost.     *)
RunInOrder ==
    /\ \A i, j \in DOMAIN executed :
          i < j /\ executed[i][1] = executed[j][1] => executed[i][2] < executed[j][2]
    /\ NoTaskLost

(* Every task that was taken is run without waiting for the poll timeout,  *)
(* unless the loop was asked to stop.                                      *)
TasksRun == \A e \in Elements : (e \in Tasks) ~> (e \in Ran \cup refused \/ _quit)

(* "If quit is called on a thread the EventLoop does not belong to, the    *)
(* epoll_wait of its thread has to be woken up" (EventLoop.cpp:134): a     *)
(* loop that was told to quit does not stay asleep.                        *)
QuitWakes == (phase = "poll" /\ _quit) => wakeupFd > 0

=============================================================================
