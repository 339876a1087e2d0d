--------------------------- MODULE EventLoopThread ---------------------------
(***************************************************************************)
(* EventLoopThread (web/net/tcp/EventLoopThread.cpp): an owner starts a    *)
(* thread whose stack holds an EventLoop, gets the loop's address once it  *)
(* is constructed, and stops and joins the thread in its destructor.       *)
(* Between the two, the other threads use the loop through the address     *)
(* startLoop returned.  base/Thread: start returns once the thread runs.   *)
(***************************************************************************)
EXTENDS EventLoop

VARIABLES
    thread,         \* where threadFunc is: "none", "started", "constructed",
                    \* "published", "cleared" or "exited"
    _loop,          \* the published address: "null" or "loop"
    owner           \* where the owner of the EventLoopThread is: "created",
                    \* "starting", "running", then in the destructor
                    \* "quitting", "joining", "detached", "destroyed",
                    \* or "crashed": it used a loop that was gone

threadVars == <<thread, _loop, owner>>
allVars == <<vars, threadVars>>

\* The EventLoop object exists: it is a local of threadFunc.
LoopAlive == thread \in {"constructed", "published", "cleared"}

ThreadInit ==
    /\ Init
    /\ thread = "none"
    /\ _loop = "null"
    /\ owner = "created"

-----------------------------------------------------------------------------
(* threadFunc, on the new thread.                                          *)

ConstructLoop ==
    /\ thread = "started"
    /\ thread' = "constructed"
    /\ UNCHANGED <<vars, _loop, owner>>

\* _loop = &loop under _mutex, then notify_one.
PublishLoop ==
    /\ thread = "constructed"
    /\ thread' = "published"
    /\ _loop' = "loop"
    /\ UNCHANGED <<vars, owner>>

\* loop.loop()
RunLoop ==
    /\ thread = "published"
    /\ LoopStep \/ PollIO \/ PollTimeout \/ CallStep(LoopThread)
       \/ QueuePushBack(LoopThread) \/ QueueTryEnqueue(LoopThread)
       \/ Quit(LoopThread)
    /\ UNCHANGED threadVars

\* Mutant of ClearLoop: _loop is cleared before loop() is called.
ClearLoopEarly ==
    /\ thread = "published" /\ phase = "created"
    /\ thread' = "cleared"
    /\ _loop' = "null"
    /\ UNCHANGED <<vars, owner>>

\* loop() has returned: _loop = nullptr under _mutex.
ClearLoop ==
    /\ thread = "published" /\ phase = "returned"
    /\ thread' = "cleared"
    /\ _loop' = "null"
    /\ UNCHANGED <<vars, owner>>

\* The lock is released, ~EventLoop runs, the thread ends.
ExitThread ==
    /\ thread = "cleared"
    /\ thread' = "exited"
    /\ UNCHANGED <<vars, _loop, owner>>

-----------------------------------------------------------------------------
(* The owner, and the threads it hands the address to.                     *)

\* startLoop: _thread.start()
StartLoop ==
    /\ owner = "created"
    /\ owner' = "starting"
    /\ thread' = "started"
    /\ UNCHANGED <<vars, _loop>>

\* startLoop: while (_loop == nullptr) _cond.wait(lock)
StartLoopReturns ==
    /\ owner = "starting" /\ _loop # "null"
    /\ owner' = "running"
    /\ UNCHANGED <<vars, thread, _loop>>

\* A user of the loop, while the owner lives.
UseLoop(p) ==
    /\ p \in Threads
    /\ \/ owner = "running" /\ LoopAlive /\ Call(p)
       \/ LoopAlive /\ CallStep(p)
    /\ UNCHANGED threadVars

\* ~EventLoopThread: if (_loop != nullptr), read without the lock.  Without
\* a loop there is nothing to join and ~Thread detaches a started thread.
DestructorTest ==
    /\ owner \in {"created", "running"}
    /\ \A p \in Threads : call[p] = "none"
    /\ owner' = IF _loop # "null" THEN "quitting"
                ELSE IF thread = "none" THEN "destroyed" ELSE "detached"
    /\ UNCHANGED <<vars, thread, _loop>>

\* _loop->quit(), on a thread that is not the loop's: only the flag.  When
\* the loop is gone by now the call is made through a null pointer or on a
\* destroyed object.
DestructorQuit ==
    /\ owner = "quitting"
    /\ IF _loop # "null" /\ LoopAlive
       THEN owner' = "joining" /\ _quit' = TRUE
       ELSE owner' = "crashed" /\ UNCHANGED _quit
    /\ UNCHANGED <<queueVars, phase, _callPendingTasks, wakeupFd, active,
                   _pendingTasks, functors, call, posted, executed, quits, refused,
                   thread, _loop>>

\* _thread.join()
DestructorJoin ==
    /\ owner = "joining" /\ thread = "exited"
    /\ owner' = "destroyed"
    /\ UNCHANGED <<vars, thread, _loop>>

OwnerStep == StartLoopReturns \/ DestructorQuit \/ DestructorJoin

ThreadStep == ConstructLoop \/ PublishLoop \/ ClearLoop \/ ExitThread

ThreadNext ==
    \/ ThreadStep \/ RunLoop
    \/ StartLoop \/ OwnerStep \/ DestructorTest
    \/ \E p \in Threads : UseLoop(p)

ThreadSpec == ThreadInit /\ [][ThreadNext]_allVars

(* Every thread keeps running.  The poll timeout is assumed only for a     *)
(* loop that was told to quit, since quit does not wake it: a thread       *)
(* asleep in the poller goes round the loop again after kPollTimeMs at the *)
(* latest.  Tasks do not have to wait for it.                              *)
ThreadFairness ==
    /\ WF_allVars(ThreadStep)
    /\ WF_allVars(thread = "published" /\ LoopStep /\ UNCHANGED threadVars)
    /\ WF_allVars(thread = "published" /\ _quit /\ PollTimeout /\ UNCHANGED threadVars)
    /\ WF_allVars(OwnerStep)
    /\ \A p \in Producers :
          WF_allVars(LoopAlive /\ CallStep(p) /\ UNCHANGED threadVars)

ThreadFairSpec == ThreadSpec /\ ThreadFairness

-----------------------------------------------------------------------------
(* Properties.                                                             *)

(* The destructor only calls quit on a loop that still exists              *)
(* (EventLoopThread.cpp:21-22 test and use _loop without the lock, while   *)
(* threadFunc clears it), as long as nobody but the destructor has told    *)
(* the loop to stop.                                                       *)
QuitsLiveLoop == quits = 0 => owner # "crashed"

(* "dtor calls quit()" (test_eventloopthread.cpp:33): a destructor that    *)
(* has called quit comes back from join.                                   *)
DestructorReturns == (owner = "joining") ~> (owner = "destroyed")

(* As above, for a destructor that runs once loop() is entered             *)
(* (EventLoop.cpp:95 clears _quit on entry): the flag is then seen at the  *)
(* next turn of the loop, after the poll timeout at the latest.            *)
DestructorReturnsOnceLooping ==
    (owner = "joining" /\ phase # "created" /\ _quit) ~> (owner = "destroyed")

=============================================================================
