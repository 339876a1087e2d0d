------------------------------- MODULE Channel -------------------------------
(***************************************************************************)
(* A Channel (web/net/tcp/Channel.{h,cpp}), what EpollPoller does to it    *)
(* (web/net/poller/EpollPoller.cpp) and the kernel's side of epoll_ctl, as *)
(* operators on one record:                                                *)
(*    events      the interest set the channel asked for (_events)         *)
(*    index       kNew, kAdded or kDeleted (_index)                        *)
(*    registered  the kernel's epoll set has the descriptor                *)
(*    mask        the interest the kernel has for it                       *)
(* EPOLLIN|EPOLLPRI is "read", EPOLLOUT is "write".                        *)
(***************************************************************************)
EXTENDS Sequences

Interest == {"read", "write"}

kNew == "kNew"
kAdded == "kAdded"
kDeleted == "kDeleted"

ChannelType == [events : SUBSET Interest, index : {kNew, kAdded, kDeleted},
                registered : BOOLEAN, mask : SUBSET Interest]

\* Channel::Channel
NewChannel == [events |-> {}, index |-> kNew, registered |-> FALSE, mask |-> {}]

isWriting(ch) == "write" \in ch.events
isReading(ch) == "read" \in ch.events
isNonEvent(ch) == ch.events = {}

-----------------------------------------------------------------------------
(* epoll_ctl.  EPOLL_CTL_ADD of a known descriptor and EPOLL_CTL_MOD or    *)
(* EPOLL_CTL_DEL of an unknown one fail, and EpollPoller::update only logs *)
(* the failure.                                                            *)
EpollAdd(ch) ==
    IF ch.registered THEN ch ELSE [ch EXCEPT !.registered = TRUE, !.mask = ch.events]
EpollMod(ch) ==
    IF ch.registered THEN [ch EXCEPT !.mask = ch.events] ELSE ch
EpollDel(ch) ==
    [ch EXCEPT !.registered = FALSE, !.mask = {}]

\* Mutant of UpdateChannel: a channel that was taken out is not added again.
UpdateChannelNoReAdd(ch) ==
    IF ch.index = kNew
    THEN EpollAdd([ch EXCEPT !.index = kAdded])
    ELSE IF isNonEvent(ch)
         THEN EpollDel([ch EXCEPT !.index = kDeleted])
         ELSE EpollMod([ch EXCEPT !.index = kAdded])

\* EpollPoller::updateChannel: a channel that is not in the epoll set is
\* added to it, with whatever interest it has; one that is in it is taken
\* out when it has none.
UpdateChannel(ch) ==
    IF ch.index \in {kNew, kDeleted}
    THEN EpollAdd([ch EXCEPT !.index = kAdded])
    ELSE IF isNonEvent(ch)
         THEN EpollDel([ch EXCEPT !.index = kDeleted])
         ELSE EpollMod(ch)

\* Channel::enableReading and its siblings: change _events, then update.
enableReading(ch) == UpdateChannel([ch EXCEPT !.events = @ \cup {"read"}])
disableReading(ch) == UpdateChannel([ch EXCEPT !.events = @ \ {"read"}])
enableWriting(ch) == UpdateChannel([ch EXCEPT !.events = @ \cup {"write"}])
disableWriting(ch) == UpdateChannel([ch EXCEPT !.events = @ \ {"write"}])
disableAll(ch) == UpdateChannel([ch EXCEPT !.events = {}])

\* EpollPoller::removeChannel, reached through Channel::removeChannel.
removeChannel(ch) ==
    [(IF ch.index = kAdded /\ isNonEvent(ch) THEN EpollDel(ch) ELSE ch)
        EXCEPT !.index = kNew]

-----------------------------------------------------------------------------
\* What epoll_wait may report of the conditions that hold on the descriptor:
\* hangup and error whatever the interest, reading and writing when asked.
Reported(ch, conditions) ==
    IF ch.registered
    THEN {c \in conditions :
            \/ c \in {"hup", "err"}
            \/ c = "in" /\ "read" \in ch.mask
            \/ c = "out" /\ "write" \in ch.mask}
    ELSE {}

EveryCallback == {"close", "error", "read", "write"}

\* Channel::handleEventWithGuard: the callbacks that revents leads to, of
\* those that are set, in the order they are made.
Callbacks(revents, set) ==
    LET when(c, cb) == IF c /\ cb \in set THEN <<cb>> ELSE <<>>
    IN  when("hup" \in revents /\ "in" \notin revents, "close")
        \o when("err" \in revents, "error")
        \o when("in" \in revents, "read")
        \o when("out" \in revents, "write")

=============================================================================
