----------------------------- MODULE TimerQueue -----------------------------
(***************************************************************************)
(* TimerQueue (web/net/timer/TimerQueue.cpp) with its timerfd.             *)
(*                                                                         *)
(* A Timer is an object at an address; an address is used again once its   *)
(* object is deleted, which is why a TimerId pairs it with the sequence    *)
(* number the Timer took at construction.  Addresses are numbers, since    *)
(* std::set<Entry> orders equal times by pointer.  Time is counted in      *)
(* steps of howMuchTimeFromNow's minimum.                                  *)
(*                                                                         *)
(* Timers are added and cancelled on the loop's thread, between and inside *)
(* timer callbacks, and by other threads, whose calls are queued in the    *)
(* loop, first in first out.                                               *)
(***************************************************************************)
EXTENDS Integers, Sequences, FiniteSets

CONSTANTS
    Addresses,      \* where Timer objects can live
    Intervals,      \* intervals a user asks for; 0 is a one-shot timer
    Delays,         \* how far ahead a user sets a timer
    Threads,        \* threads other than the loop's that add and cancel
    MaxTime,        \* bound: the clock
    MaxTimers       \* bound: timers ever created

ASSUME TimerAssumption ==
    /\ Addresses \subseteq Nat
    /\ Intervals \subseteq Nat
    /\ Delays \subseteq Nat
    /\ MaxTime \in Nat /\ MaxTimers \in Nat

\* Expirations: a delay or an interval after the last instant of the clock.
Time == Nat

\* The timerfd is disarmed; the clock never shows this.
Disarmed == -1

VARIABLES
    now,            \* TimeStamp::now()
    timer,          \* timer[a]: the Timer at address a
    allocated,      \* the addresses that hold a live Timer
    numCreated,     \* Timer::_numCreated
    _timers,        \* set of <<expiration, address>>
    _activeTimers,  \* set of <<address, sequence>>
    _cancelingTimers,
    _callingExpiredTimers,
    expired,        \* the local vector of handleRead
    next,           \* how many of them have been run
    timerfd,        \* when the timerfd becomes readable, or Disarmed
    pending,        \* tasks queued in the loop by other threads
    returning,      \* returning[t]: the Timer whose sequence t is about to read
    issued,         \* the TimerIds handed out to users (history)
    cancelled,      \* the TimerIds that were cancelled (history)
    missed          \* those whose cancel came before their insertion (history)

queueVars == <<timer, allocated, _timers, _activeTimers, timerfd>>
callVars == <<_callingExpiredTimers, expired, next>>
userVars == <<pending, returning, issued, cancelled, missed>>
vars == <<now, queueVars, numCreated, _cancelingTimers, callVars, userVars>>

Ids == Addresses \X (0 .. MaxTimers)
Entries == Time \X Addresses
TimerType == [expiration : Time, interval : Intervals \cup {0}, sequence : 0 .. MaxTimers]
NoTimer == [expiration |-> 0, interval |-> 0, sequence |-> 0]
NoAddress == -1

TypeOK ==
    /\ now \in 0 .. MaxTime
    /\ timer \in [Addresses -> TimerType]
    /\ allocated \subseteq Addresses
    /\ numCreated \in 0 .. MaxTimers
    /\ _timers \subseteq Entries
    /\ _activeTimers \subseteq Ids
    /\ _cancelingTimers \subseteq Ids
    /\ _callingExpiredTimers \in BOOLEAN
    /\ expired \in Seq(Entries)
    /\ next \in 0 .. Len(expired)
    /\ timerfd \in Time \cup {Disarmed}
    /\ pending \in Seq([op : {"add", "cancel"}, id : Ids])
    /\ returning \in [Threads -> Addresses \cup {NoAddress}]
    /\ issued \subseteq Ids /\ cancelled \subseteq Ids /\ missed \subseteq Ids

Init ==
    /\ now = 0
    /\ timer = [a \in Addresses |-> NoTimer]
    /\ allocated = {}
    /\ numCreated = 0
    /\ _timers = {}
    /\ _activeTimers = {}
    /\ _cancelingTimers = {}
    /\ _callingExpiredTimers = FALSE
    /\ expired = <<>>
    /\ next = 0
    /\ timerfd = Disarmed
    /\ pending = <<>>
    /\ returning = [t \in Threads |-> NoAddress]
    /\ issued = {} /\ cancelled = {} /\ missed = {}

-----------------------------------------------------------------------------
\* std::pair's order on entries.
Before(e, f) == e[1] < f[1] \/ (e[1] = f[1] /\ e[2] < f[2])

\* howMuchTimeFromNow: never less than one step ahead.
ArmedFor(when) == IF when <= now THEN now + 1 ELSE when

\* Mutant of EarliestChanged: only the first timer sets the timerfd.
EarliestIsFirst(when) == _timers = {}

\* insert(timer): when it becomes the earliest one, the timerfd is set.
EarliestChanged(when) == \A e \in _timers : when < e[1]

\* The loop's thread runs user code: inside a timer callback, or in another
\* handler or task between two calls of handleRead.
UserCode == _callingExpiredTimers => next > 0

\* new Timer(cb, when, interval) at a free address.
NewTimer(a, delay, interval) ==
    /\ a \in Addresses \ allocated
    /\ numCreated < MaxTimers
    /\ allocated' = allocated \cup {a}
    /\ numCreated' = numCreated + 1
    /\ timer' = [timer EXCEPT ![a] = [expiration |-> now + delay,
                                      interval |-> interval,
                                      sequence |-> numCreated + 1]]

\* Mutant of addTimerInLoop: one of the sets left out.
addTimerNotActive(a, when, s) ==
    /\ _timers' = _timers \cup {<<when, a>>}
    /\ timerfd' = IF EarliestChanged(when) THEN ArmedFor(when) ELSE timerfd
    /\ UNCHANGED _activeTimers

\* addTimerInLoop(timer), for the Timer at a with expiration when and
\* sequence number s.
addTimerInLoop(a, when, s) ==
    /\ _timers' = _timers \cup {<<when, a>>}
    /\ _activeTimers' = _activeTimers \cup {<<a, s>>}
    /\ timerfd' = IF EarliestChanged(when) THEN ArmedFor(when) ELSE timerfd

\* addTimerInLoop for this timer is still queued.
AddQueued(id) == \E i \in DOMAIN pending : pending[i] = [op |-> "add", id |-> id]

\* Mutant of find: by address alone.
findByAddress(id) == {active \in _activeTimers : active[1] = id[1]}

\* _activeTimers.find: by address and sequence number.
find(id) == {id} \cap _activeTimers

\* cancelInLoop(timerId): erase and delete an active timer; remember one
\* that is not active while the expired ones are being run.
cancelInLoop(id) ==
    /\ _timers' = _timers \ {<<timer[active[1]].expiration, active[1]>> : active \in find(id)}
    /\ _activeTimers' = _activeTimers \ find(id)
    /\ allocated' = allocated \ {active[1] : active \in find(id)}
    /\ _cancelingTimers' = IF find(id) = {} /\ _callingExpiredTimers
                           THEN _cancelingTimers \cup {id}
                           ELSE _cancelingTimers
    /\ IF AddQueued(id)
       THEN missed' = missed \cup {id} /\ UNCHANGED cancelled
       ELSE cancelled' = cancelled \cup {id} /\ UNCHANGED missed

-----------------------------------------------------------------------------
(* The users of the queue.                                                 *)

\* addTimer on the loop's thread: addTimerInLoop at once.
AddTimer(a, delay, interval) ==
    /\ UserCode
    /\ NewTimer(a, delay, interval)
    /\ addTimerInLoop(a, now + delay, numCreated + 1)
    /\ issued' = issued \cup {<<a, numCreated + 1>>}
    /\ UNCHANGED <<now, _cancelingTimers, callVars, pending, returning, cancelled,
                   missed>>

\* cancel on the loop's thread, of any TimerId, stale ones included.
Cancel(id) ==
    /\ UserCode /\ id \in issued
    /\ cancelInLoop(id)
    /\ UNCHANGED <<now, timer, numCreated, callVars, timerfd, pending, returning,
                   issued>>

\* addTimer on thread t: the Timer is made, addTimerInLoop queued ...
AddTimerFrom(t, a, delay, interval) ==
    /\ returning[t] = NoAddress
    /\ NewTimer(a, delay, interval)
    /\ pending' = Append(pending, [op |-> "add", id |-> <<a, numCreated + 1>>])
    /\ returning' = [returning EXCEPT ![t] = a]
    /\ UNCHANGED <<now, _timers, _activeTimers, timerfd, _cancelingTimers,
                   callVars, issued, cancelled, missed>>

\* ... and then the sequence number is read for the TimerId to return.
AddTimerReturns(t) ==
    /\ returning[t] # NoAddress
    /\ issued' = issued \cup {<<returning[t], timer[returning[t]].sequence>>}
    /\ returning' = [returning EXCEPT ![t] = NoAddress]
    /\ UNCHANGED <<now, queueVars, numCreated, _cancelingTimers, callVars,
                   pending, cancelled, missed>>

CancelFrom(t, id) ==
    /\ returning[t] = NoAddress /\ id \in issued \ cancelled
    /\ \A i \in DOMAIN pending : pending[i] # [op |-> "cancel", id |-> id]
    /\ pending' = Append(pending, [op |-> "cancel", id |-> id])
    /\ UNCHANGED <<now, queueVars, numCreated, _cancelingTimers, callVars,
                   returning, issued, cancelled, missed>>

\* doPendingTask of the loop; not inside handleRead.
RunQueued ==
    /\ ~_callingExpiredTimers /\ pending # <<>>
    /\ pending' = Tail(pending)
    /\ LET id == Head(pending).id
       IN  \/ /\ Head(pending).op = "add"
              /\ addTimerInLoop(id[1], timer[id[1]].expiration, id[2])
              /\ UNCHANGED <<allocated, _cancelingTimers, cancelled, missed>>
           \/ /\ Head(pending).op = "cancel"
              /\ cancelInLoop(id)
              /\ UNCHANGED timerfd
    /\ UNCHANGED <<now, timer, numCreated, callVars, returning, issued>>

-----------------------------------------------------------------------------
(* handleRead().                                                           *)

Due == {e \in _timers : e[1] <= now}

\* A set of entries in the order of std::set.
Sorted(S) ==
    CHOOSE s \in [1 .. Cardinality(S) -> S] :
        \A i, j \in 1 .. Cardinality(S) : i < j => Before(s[i], s[j])

\* The timerfd is readable: read it, getExpired(now), then set the flag and
\* clear the cancellations.
HandleRead ==
    /\ ~_callingExpiredTimers
    /\ timerfd # Disarmed /\ timerfd <= now
    /\ timerfd' = Disarmed
    /\ expired' = Sorted(Due)
    /\ next' = 0
    /\ _timers' = _timers \ Due
    /\ _activeTimers' =
          {id \in _activeTimers : \A e \in Due : id # <<e[2], timer[e[2]].sequence>>}
    /\ _callingExpiredTimers' = TRUE
    /\ _cancelingTimers' = {}
    /\ UNCHANGED <<now, timer, allocated, numCreated, userVars>>

\* entry.second->run()
RunTimer ==
    /\ _callingExpiredTimers /\ next < Len(expired)
    /\ next' = next + 1
    /\ UNCHANGED <<now, queueVars, numCreated, _cancelingTimers,
                   _callingExpiredTimers, expired, userVars>>

\* Mutant of Restarted: _cancelingTimers is not looked at.
RestartedAll ==
    {a \in {expired[i][2] : i \in DOMAIN expired} : timer[a].interval > 0}

\* reset(expired, now): restart the repeating timers that were not
\* cancelled, delete the others, set the timerfd for the earliest.
Restarted ==
    {expired[i][2] : i \in
        {j \in DOMAIN expired :
            LET a == expired[j][2]
            IN  timer[a].interval > 0 /\ <<a, timer[a].sequence>> \notin _cancelingTimers}}

Reset ==
    /\ _callingExpiredTimers /\ next = Len(expired)
    /\ _callingExpiredTimers' = FALSE
    /\ expired' = <<>> /\ next' = 0
    /\ timer' = [a \in Addresses |->
                    IF a \in Restarted
                    THEN [timer[a] EXCEPT !.expiration = now + timer[a].interval]
                    ELSE timer[a]]
    /\ _timers' = _timers \cup {<<timer'[a].expiration, a>> : a \in Restarted}
    /\ _activeTimers' = _activeTimers \cup {<<a, timer[a].sequence>> : a \in Restarted}
    /\ allocated' = allocated \ ({expired[i][2] : i \in DOMAIN expired} \ Restarted)
    /\ timerfd' = IF _timers' = {} THEN timerfd
                  ELSE ArmedFor((CHOOSE e \in _timers' :
                                    \A f \in _timers' : e = f \/ Before(e, f))[1])
    /\ UNCHANGED <<now, numCreated, _cancelingTimers, userVars>>

\* Time passes.
Tick ==
    /\ now < MaxTime
    /\ now' = now + 1
    /\ UNCHANGED <<queueVars, numCreated, _cancelingTimers, callVars, userVars>>

-----------------------------------------------------------------------------
LoopStep == RunQueued \/ HandleRead \/ RunTimer \/ Reset

Next ==
    \/ \E a \in Addresses, d \in Delays, i \in Intervals :
          \/ AddTimer(a, d, i)
          \/ \E t \in Threads : AddTimerFrom(t, a, d, i)
    \/ \E id \in issued : Cancel(id) \/ \E t \in Threads : CancelFrom(t, id)
    \/ \E t \in Threads : AddTimerReturns(t)
    \/ LoopStep
    \/ Tick

Spec == Init /\ [][Next]_vars

-----------------------------------------------------------------------------
(* Properties.                                                             *)

(* No timer is deleted while handleRead still has to run or restart it, or *)
(* while its insertion is queued (TimerQueue.cpp:105-107, 192-201): a      *)
(* callback may cancel any timer of the same batch, itself included.       *)
ExpiredAreLive ==
    /\ \A i \in DOMAIN expired : expired[i][2] \in allocated
    /\ \A i \in DOMAIN pending : pending[i].op = "add" => pending[i].id[1] \in allocated

(* _timers and _activeTimers are two views of the same live timers, each   *)
(* under its current expiration and its own sequence number: the           *)
(* assertions "_timers.size() == _activeTimers.size()" and "n == 1" of     *)
(* TimerQueue.cpp:132-146, 172-185.  What is still to be run is live too.  *)
SetsAgree ==
    LET held == {e[2] : e \in _timers}
    IN  /\ held \subseteq allocated
        /\ _timers = {<<timer[a].expiration, a>> : a \in held}
        /\ _activeTimers = {<<a, timer[a].sequence>> : a \in held}
        /\ ExpiredAreLive

(* The timerfd always covers the earliest timer: outside handleRead it is  *)
(* armed, and not later than that timer is due (or than the one step that  *)
(* howMuchTimeFromNow adds to what is overdue), whatever was added and     *)
(* cancelled since it was set (TimerQueue.cpp:124-127, 204-209).           *)
TimerfdCovers ==
    ~_callingExpiredTimers =>
        \A e \in _timers : timerfd # Disarmed /\ (timerfd <= e[1] \/ timerfd <= now + 1)

(* A timer leaves the queue only because it is due or because its own      *)
(* TimerId was cancelled: a stale TimerId never hits the timer that now    *)
(* lives at the same address (TimerQueue.cpp:134-137).                     *)
OnlyOwnCancel ==
    [][\A id \in _activeTimers \ _activeTimers' :
          id \in cancelled' \/ \E i \in DOMAIN expired' : expired'[i][2] = id[1]]_vars

(* A cancelled timer is not in the queue again, even a repeating one whose *)
(* callback cancels it while it is being run and that reset then has to    *)
(* leave out (TimerQueue.cpp:143-145, 194).  A cancel that overtakes the   *)
(* queued insertion of its timer has no effect and is not counted.         *)
CancelledStaysOut == _activeTimers \cap cancelled = {}

(* "Timer events may be used across threads" (EventLoop.h:62-66): addTimer *)
(* reads the sequence number of a Timer that still exists.                 *)
IdReadWhileLive == \A t \in Threads : returning[t] # NoAddress => returning[t] \in allocated

=============================================================================
