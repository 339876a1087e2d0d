------------------------------- MODULE Poller -------------------------------
(***************************************************************************)
(* EpollPoller with the channels of one loop, as their owners drive it:    *)
(* interest is switched on and off at will, a channel is removed, its      *)
(* object is destroyed once removed, and its descriptor is closed and may  *)
(* be handed out again by the kernel, to a new channel object.  Channels   *)
(* are objects (addresses); Fd gives the descriptor an object is           *)
(* constructed with.                                                       *)
(*                                                                         *)
(* Owners take a channel down in three ways.  A TcpConnection that is      *)
(* closed, and a Connector that is stopped, by a task of the loop          *)
(* (connectDestroyed, stopInLoop); a Connector in the handler of its own   *)
(* channel, with a task that destroys it (resetChannel); and what belongs  *)
(* to a server that is destroyed on its loop, in place, in whatever        *)
(* handler that happens: InPlace.  The assertion of EventLoop.cpp:235,     *)
(* that no other channel of the batch is removed, is not kept by these and *)
(* is no guard here.  Of the tasks of a loop only those that take down a   *)
(* channel are here, and in any order.                                     *)
(*                                                                         *)
(* The owners keep what the classes ask of them: no interest is left when  *)
(* a channel is removed (Channel.cpp:116), and a removed one is not        *)
(* removed again.                                                          *)
(***************************************************************************)
EXTENDS Channel, Naturals, FiniteSets

CONSTANTS
    Objects,        \* channel objects that may come to exist
    Fds,            \* descriptors
    Fd,             \* the descriptor each object is constructed with
    InPlace,        \* those that ~TcpServer takes down where it is called
    None            \* no object: a null pointer

ASSUME FdAssumption == Fd \in [Objects -> Fds] /\ None \notin Objects

VARIABLES
    alive,          \* the objects that exist
    channel,        \* channel[c]: the record of Channel
    _channels,      \* the poller's map: the pairs <<fd, object>> in it
    activeChannels, \* what the last poll returned and is still to be handled
    current,        \* _currentActiveChannel, or None
    toRemove,       \* queued tasks connectDestroyed and stopInLoop, by channel
    toReset         \* queued tasks resetChannel, by channel

vars == <<alive, channel, _channels, activeChannels, current, toRemove, toReset>>

TypeOK ==
    /\ alive \subseteq Objects
    /\ channel \in [Objects -> ChannelType]
    /\ _channels \subseteq Fds \X Objects
    /\ activeChannels \subseteq Objects
    /\ current \in Objects \cup {None}
    /\ toRemove \subseteq Objects /\ toReset \subseteq Objects

Init ==
    /\ alive = {}
    /\ channel = [c \in Objects |-> NewChannel]
    /\ _channels = {}
    /\ activeChannels = {}
    /\ current = None
    /\ toRemove = {} /\ toReset = {}

\* doPendingTask comes after the last handler of a batch.
BatchOver == activeChannels = {} /\ current = None

-----------------------------------------------------------------------------
\* A channel is made for a descriptor, which may be one that a Connector has
\* handed over or closed while its own channel object waits for resetChannel.
Construct(c) ==
    /\ c \notin alive
    /\ \A d \in alive : Fd[d] = Fd[c] => d \in toReset
    /\ alive' = alive \cup {c}
    /\ channel' = [channel EXCEPT ![c] = NewChannel]
    /\ UNCHANGED <<_channels, activeChannels, current, toRemove, toReset>>

\* The map entry made by updateChannel for a new channel: _channels[fd] =
\* channel, which replaces an entry for the descriptor.
Entry(c, map) ==
    IF channel[c].index = kNew
    THEN {e \in map : e[1] # Fd[c]} \cup {<<Fd[c], c>>}
    ELSE map

\* One of the enable/disable calls; ch is the record it leaves.  A Connector
\* does not touch a channel that waits for resetChannel.
Update(c, ch) ==
    /\ c \in alive /\ c \notin toReset
    /\ channel' = [channel EXCEPT ![c] = ch]
    /\ _channels' = Entry(c, _channels)
    /\ UNCHANGED <<alive, activeChannels, current, toRemove, toReset>>

\* Mutant of TakeOut: the map keeps its entry.
TakeOutWithoutErase(c) ==
    /\ channel' = [channel EXCEPT ![c] = removeChannel(disableAll(@))]
    /\ UNCHANGED _channels

\* disableAll and Channel::removeChannel: _channels.erase(fd) takes out
\* whatever is there.
TakeOut(c) ==
    /\ channel' = [channel EXCEPT ![c] = removeChannel(disableAll(@))]
    /\ _channels' = {e \in _channels : e[1] # Fd[c]}

Removable(c) == c \in alive /\ channel[c].index # kNew

\* TcpServer::removeConnectionInLoop, detail::removeConnection and
\* Connector::stop: the channel is taken down by a task.
queueInLoop(c) ==
    /\ Removable(c) /\ c \notin InPlace \cup toRemove
    /\ toRemove' = toRemove \cup {c}
    /\ UNCHANGED <<alive, channel, _channels, activeChannels, current, toReset>>

\* A Connector's channel is to be reset, a TcpConnection's goes with it.
ResetOrNot(c) == toReset' = toReset \cup {c} \/ UNCHANGED toReset

\* Mutant of RunRemove: in the handler that wants it, as runInLoop would do.
RunRemoveAtOnce(c) ==
    /\ c \in toRemove
    /\ toRemove' = toRemove \ {c}
    /\ \/ Removable(c) /\ TakeOut(c) /\ ResetOrNot(c)
       \/ ~Removable(c) /\ UNCHANGED <<channel, _channels, toReset>>
    /\ UNCHANGED <<alive, activeChannels, current>>

\* connectDestroyed or stopInLoop; the latter finds nothing to do when the
\* Connector's own handler came first.
RunRemove(c) ==
    /\ BatchOver /\ c \in toRemove
    /\ toRemove' = toRemove \ {c}
    /\ \/ Removable(c) /\ TakeOut(c) /\ ResetOrNot(c)
       \/ ~Removable(c) /\ UNCHANGED <<channel, _channels, toReset>>
    /\ UNCHANGED <<alive, activeChannels, current>>

\* Connector::handleWrite and handleError, called by the channel itself.
removeAndResetChannel(c) ==
    /\ Removable(c) /\ c \notin InPlace
    /\ current = c
    /\ TakeOut(c)
    /\ toReset' = toReset \cup {c}
    /\ UNCHANGED <<alive, activeChannels, current, toRemove>>

\* ~Acceptor, and connectDestroyed called by ~TcpServer for a connection on
\* the server's own loop.
RemoveInPlace(c) ==
    /\ Removable(c) /\ c \in InPlace
    /\ TakeOut(c)
    /\ UNCHANGED <<alive, activeChannels, current, toRemove, toReset>>

\* The object is gone and its descriptor closed, unless handed over: the
\* kernel forgets a descriptor that is closed.
Gone(c) ==
    /\ alive' = alive \ {c}
    /\ channel' = [channel EXCEPT ![c].registered = FALSE, ![c].mask = {}]

\* resetChannel
RunReset(c) ==
    /\ BatchOver /\ c \in toReset
    /\ toReset' = toReset \ {c}
    /\ Gone(c)
    /\ UNCHANGED <<_channels, activeChannels, current, toRemove>>

\* A removed channel goes with its owner, whenever the last one lets go of
\* it: not while a queued task holds the connection, nor in its own handler,
\* where tie does.
Destroy(c) ==
    /\ c \in alive /\ channel[c].index = kNew
    /\ c \notin toRemove \cup toReset
    /\ c \in InPlace \/ c # current
    /\ Gone(c)
    /\ UNCHANGED <<_channels, activeChannels, current, toRemove, toReset>>

\* EpollPoller::poll and fillActiveChannels: any set of registered
\* descriptors may have something to report; a hangup or an error needs no
\* interest.
Poll(S) ==
    /\ BatchOver
    /\ S # {} /\ \A c \in S : channel[c].registered
    /\ activeChannels' = S
    /\ UNCHANGED <<alive, channel, _channels, current, toRemove, toReset>>

\* channel->handleEvents() begins; what its callbacks do are the other
\* actions.  On an object that is gone it is undefined: the loop goes no
\* further here.
HandleEvents(c) ==
    /\ current = None /\ c \in activeChannels /\ c \in alive
    /\ current' = c
    /\ activeChannels' = activeChannels \ {c}
    /\ UNCHANGED <<alive, channel, _channels, toRemove, toReset>>

HandleEventsDone ==
    /\ current # None
    /\ current' = None
    /\ UNCHANGED <<alive, channel, _channels, activeChannels, toRemove, toReset>>

Next ==
    \/ \E c \in Objects :
          \/ Construct(c)
          \/ Update(c, enableReading(channel[c]))
          \/ Update(c, disableReading(channel[c]))
          \/ Update(c, enableWriting(channel[c]))
          \/ Update(c, disableWriting(channel[c]))
          \/ Update(c, disableAll(channel[c]))
          \/ queueInLoop(c) \/ RunRemove(c) \/ removeAndResetChannel(c)
          \/ RunReset(c) \/ RemoveInPlace(c) \/ Destroy(c) \/ HandleEvents(c)
    \/ \E S \in SUBSET Objects : Poll(S)
    \/ HandleEventsDone

Spec == Init /\ [][Next]_vars

-----------------------------------------------------------------------------
(* Properties.                                                             *)

(* The kernel's view and the channel's agree after any sequence of         *)
(* updates: a channel marked kAdded is in the epoll set with exactly the   *)
(* interest it asked for, any other is not in it (EpollPoller.cpp:87-116). *)
KernelAgrees ==
    \A c \in Objects :
        IF c \in alive /\ channel[c].index = kAdded
        THEN channel[c].registered /\ channel[c].mask = channel[c].events
        ELSE ~channel[c].registered

(* The poller's map holds exactly the channels it has been told about, and *)
(* under their own descriptor, even when a descriptor is used again by     *)
(* another object, also beside one that waits for resetChannel             *)
(* (EpollPoller.cpp:76, 94).                                               *)
MapAgrees ==
    _channels = {<<Fd[c], c>> : c \in {d \in alive : channel[d].index # kNew}}

(* A channel that its owner takes down through the loop's tasks, or in its *)
(* own handler with resetChannel queued ("Can't reset _channel here,       *)
(* because we are inside Channel::handleEvent", Connector.cpp:145), is     *)
(* known to the poller as long as it waits in a batch and exists until its *)
(* handler has come back (EventLoop.cpp:104-107), whatever the handlers of *)
(* the batch do to this and to other channels.  What ~TcpServer takes down *)
(* in a handler has no such protection.                                    *)
HandledAreAlive ==
    /\ \A c \in activeChannels \ InPlace : c \in alive /\ channel[c].index # kNew
    /\ current \notin InPlace \cup {None} => current \in alive

=============================================================================
