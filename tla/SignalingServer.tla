-------------------------- MODULE SignalingServer --------------------------
(***************************************************************************)
(* The signaling server: WsController keeps the sessions, their ping       *)
(* timers and the rooms; HttpController changes the rooms on behalf of a   *)
(* session number found in a request body.  All handlers run on one        *)
(* io_context thread, so each one is a single step; what interleaves are   *)
(* the handlers, and between the expiry of a timer and the run of its      *)
(* handler, or the closing of a connection and the posted erasure of its   *)
(* timer, other handlers may run.                                          *)
(*                                                                         *)
(* OnOpen runs once per connection and IdGenerator never repeats a number, *)
(* so a connection is named by the session number it was given.            *)
(***************************************************************************)
EXTENDS Integers

CONSTANTS
    RoomIds,        \* the room names clients use
    RoomTypes,      \* the room types clients open
    MaxSessions,    \* bound: connections accepted in one behaviour
    LateRequests    \* TRUE: a request may name a session that is already closed

ASSUME SignalingAssumption ==
    /\ RoomTypes \subseteq {"VideoBroadcasting", "VideoConference"}
    /\ MaxSessions \in Nat
    /\ LateRequests \in BOOLEAN

Sessions == 0 .. MaxSessions - 1

NoSession == -1     \* SessionId(-1), the broadcaster of a conference

\* sessionids is a vector searched with std::find and std::count: it is kept
\* as the number of times each session occurs.  opened_by is a history field:
\* the session whose request opened the room.
Room == [room_type : RoomTypes,
         sessionids : [Sessions -> Nat],
         broadcaster_sessionid : Sessions \cup {NoSession},
         opened_by : Sessions]

VARIABLES
    next,       \* sessionid_generator_: the number of the next session
    live,       \* the keys of sessionid_conn_map_
    socket,     \* external: the state of each connection's socket
    timer,      \* conn_pingtimer_map_: "none" no entry, "armed", or "idle"
    due,        \* connections whose expired timer has its handler queued
    erasing,    \* connections with a posted erasure of their timer entry
    rooms,      \* rooms_
    asked,      \* history: connected sessions that were answered a QueryRooms
    told,       \* history: the rooms each of them was told of, in send order
    inroom      \* history: the room the last word to each session puts it in

timers == <<socket, timer, due, erasing>>
vars == <<next, live, socket, timer, due, erasing, rooms, asked, told, inroom>>

Init ==
    /\ next = 0
    /\ live = {}
    /\ socket = [s \in Sessions |-> "unused"]
    /\ timer = [s \in Sessions |-> "none"]
    /\ due = {}
    /\ erasing = {}
    /\ rooms = [r \in {} |-> 0]
    /\ asked = {}
    /\ told = [s \in Sessions |-> {}]
    /\ inroom = [s \in Sessions |-> {}]

----------------------------------------------------------------------------
(* Rooms. *)

\* The rooms IsSessionidExisted can find for session s.
IsSessionidExisted(s) == {r \in DOMAIN rooms : rooms[r].sessionids[s] > 0}

\* LeaveRoom erases the room its broadcaster leaves, and the room whose last
\* member leaves; m_sessionids.size() - cnt == 0 says no other session is in it.
ClosesWith(r, s) ==
    \/ /\ rooms[r].room_type = "VideoBroadcasting"
       /\ rooms[r].broadcaster_sessionid = s
    \/ \A x \in Sessions \ {s} : rooms[r].sessionids[x] = 0

ClosedBy(s) == {r \in IsSessionidExisted(s) : ClosesWith(r, s)}

RoomsWithout(gone, s) ==
    [r \in DOMAIN rooms \ gone |-> [rooms[r] EXCEPT !.sessionids[s] = 0]]

\* Mutant: a deleted room is not announced.
NotifyNobody(history, gone) == [x \in Sessions |-> history[x]]

\* take_roominfo "delete" for the rooms in gone, sent to every connected
\* session (the histories of the others are empty).
NotifyDelete(history, gone) == [x \in Sessions |-> history[x] \ gone]

\* The while loop of LeaveRoom: every room holding s is closed or loses s.
LeaveRoom(s) ==
    /\ rooms' = RoomsWithout(ClosedBy(s), s)
    /\ inroom' = [NotifyDelete(inroom, ClosedBy(s)) EXCEPT ![s] = {}]

----------------------------------------------------------------------------
(* Connections and ping timers. *)

\* Mutant: the timer is cancelled but its map entry is never erased.
CloseKeepingTimer(c) ==
    /\ IF c \in live
       THEN /\ LeaveRoom(c)
            /\ live' = live \ {c}
            /\ asked' = asked \ {c}
            /\ told' = [NotifyDelete(told, ClosedBy(c)) EXCEPT ![c] = {}]
       ELSE UNCHANGED <<rooms, live, asked, told, inroom>>
    /\ timer' = [timer EXCEPT ![c] = IF @ = "none" THEN @ ELSE "idle"]
    /\ UNCHANGED <<next, erasing>>

\* LeaveRoom runs before the session is erased; the timer is cancelled at once
\* and its map entry is erased by a posted task.
CloseConnectionAndTimer(c) ==
    /\ IF c \in live
       THEN /\ LeaveRoom(c)
            /\ live' = live \ {c}
            /\ asked' = asked \ {c}
            /\ told' = [NotifyDelete(told, ClosedBy(c)) EXCEPT ![c] = {}]
       ELSE UNCHANGED <<rooms, live, asked, told, inroom>>
    /\ IF timer[c] # "none"
       THEN timer' = [timer EXCEPT ![c] = "idle"] /\ erasing' = erasing \cup {c}
       ELSE UNCHANGED <<timer, erasing>>
    /\ UNCHANGED next

OnOpen ==
    /\ next < MaxSessions
    /\ next' = next + 1
    /\ live' = live \cup {next}
    /\ socket' = [socket EXCEPT ![next] = "open"]
    /\ timer' = [timer EXCEPT ![next] = "armed"]
    /\ UNCHANGED <<due, erasing, rooms, asked, told, inroom>>

\* take_heartbeat: expires_after aborts the pending wait, if its handler is not
\* queued yet, and a new wait begins; a connection without a timer is ignored.
Heartbeat(c) ==
    /\ socket[c] = "open"
    /\ timer[c] # "none"
    /\ timer' = [timer EXCEPT ![c] = "armed"]
    /\ UNCHANGED <<next, live, socket, due, erasing, rooms, asked, told, inroom>>

\* client_ping_timeout_ has passed: the handler is queued with success, and
\* neither expires_after nor cancel can take it back.
Expire(c) ==
    /\ timer[c] = "armed"
    /\ timer' = [timer EXCEPT ![c] = "idle"]
    /\ due' = due \cup {c}
    /\ UNCHANGED <<next, live, socket, erasing, rooms, asked, told, inroom>>

\* Mutant: the timeout is logged and nothing is closed.
PingTimeoutIgnored(c) ==
    /\ c \in due
    /\ due' = due \ {c}
    /\ UNCHANGED <<next, live, socket, timer, erasing, rooms, asked, told, inroom>>

\* The queued handler: the session is closed, the socket is left open.
SetClientPingTimeout(c) ==
    /\ c \in due
    /\ due' = due \ {c}
    /\ CloseConnectionAndTimer(c)
    /\ UNCHANGED socket

EraseTimer(c) ==
    /\ c \in erasing
    /\ erasing' = erasing \ {c}
    /\ timer' = [timer EXCEPT ![c] = "none"]
    /\ UNCHANGED <<next, live, socket, due, rooms, asked, told, inroom>>

\* OnClose and OnError do the same.
OnCloseOrError(c) ==
    /\ socket[c] \in {"open", "silent"}
    /\ socket' = [socket EXCEPT ![c] = "closed"]
    /\ CloseConnectionAndTimer(c)
    /\ UNCHANGED due

\* External: the client's host stops without closing the connection (the
\* silence of a connection that has lost its session changes nothing).
FallSilent(c) ==
    /\ c \in live
    /\ socket[c] = "open"
    /\ socket' = [socket EXCEPT ![c] = "silent"]
    /\ UNCHANGED <<next, live, timer, due, erasing, rooms, asked, told, inroom>>

----------------------------------------------------------------------------
(* HTTP requests.  The handlers never look a session number up in            *)
(* sessionid_conn_map_: any number handed out so far can arrive.             *)

Requesters == IF LateRequests THEN 0 .. next - 1 ELSE live

\* The answer to session s that puts it in room r, if s is still connected.
Answered(history, s, r) == IF s \in live THEN [history EXCEPT ![s] = {r}] ELSE history

\* A request refused without a change to rooms_ still tells a session that is
\* in a room which one (SessionidAlreadyInRoom carries existed_roomid).
RefuseInRoom(s) ==
    /\ s \in Requesters
    /\ \E r \in IsSessionidExisted(s) : inroom' = Answered(inroom, s, r)
    /\ UNCHANGED <<next, live, timers, rooms, asked, told>>

\* An existing room is replaced only by force, and then without a "delete":
\* "new" is sent to every connected session before the answer.
OpenRoom(s, r, type, force) ==
    /\ s \in Requesters
    /\ IsSessionidExisted(s) = {}
    /\ r \in DOMAIN rooms => force
    /\ rooms' = [x \in DOMAIN rooms \cup {r} |->
                   IF x # r THEN rooms[x]
                   ELSE [room_type |-> type,
                         sessionids |-> [y \in Sessions |-> IF y = s THEN 1 ELSE 0],
                         broadcaster_sessionid |->
                            IF type = "VideoBroadcasting" THEN s ELSE NoSession,
                         opened_by |-> s]]
    /\ told' = [x \in Sessions |-> IF x \in asked THEN told[x] \cup {r} ELSE told[x]]
    /\ inroom' = Answered([x \in Sessions |-> inroom[x] \ {r}], s, r)
    /\ UNCHANGED <<next, live, timers, asked>>

CloseRoom(r) ==
    /\ r \in DOMAIN rooms
    /\ rooms' = [x \in DOMAIN rooms \ {r} |-> rooms[x]]
    /\ told' = NotifyDelete(told, {r})
    /\ inroom' = NotifyDelete(inroom, {r})
    /\ UNCHANGED <<next, live, timers, asked>>

\* Mutant: a session may join a second room.
JoinRoomUnchecked(s, r) ==
    /\ s \in Requesters
    /\ r \in DOMAIN rooms
    /\ rooms' = [rooms EXCEPT ![r].sessionids[s] = @ + 1]
    /\ inroom' = Answered(inroom, s, r)
    /\ UNCHANGED <<next, live, timers, asked, told>>

JoinRoom(s, r) ==
    /\ s \in Requesters
    /\ r \in DOMAIN rooms
    /\ IsSessionidExisted(s) = {}
    /\ rooms' = [rooms EXCEPT ![r].sessionids[s] = @ + 1]
    /\ inroom' = Answered(inroom, s, r)
    /\ UNCHANGED <<next, live, timers, asked, told>>

HttpLeaveRoom(s) ==
    /\ s \in Requesters
    /\ LeaveRoom(s)
    /\ told' = NotifyDelete(told, ClosedBy(s))
    /\ UNCHANGED <<next, live, timers, asked>>

\* The answer lists the rooms as they are; notifications go on from there.
QueryRooms(s) ==
    /\ s \in live
    /\ asked' = asked \cup {s}
    /\ told' = [told EXCEPT ![s] = DOMAIN rooms]
    /\ UNCHANGED <<next, live, timers, rooms, inroom>>

----------------------------------------------------------------------------

Connection(c) ==
    \/ Heartbeat(c)
    \/ Expire(c)
    \/ SetClientPingTimeout(c)
    \/ EraseTimer(c)
    \/ OnCloseOrError(c)
    \/ FallSilent(c)

Request(s) ==
    \/ RefuseInRoom(s)
    \/ \E r \in RoomIds, type \in RoomTypes, force \in BOOLEAN :
          OpenRoom(s, r, type, force)
    \/ \E r \in RoomIds : JoinRoom(s, r)
    \/ HttpLeaveRoom(s)
    \/ QueryRooms(s)

Next ==
    \/ OnOpen
    \/ \E c \in Sessions : Connection(c)
    \/ \E s \in Sessions : Request(s)
    \/ \E r \in RoomIds : CloseRoom(r)

Spec == Init /\ [][Next]_vars

\* The io_context runs: a timer that is left alone expires, and a queued
\* handler is run.  Nothing is assumed of clients or of the network.
FairSpec ==
    /\ Spec
    /\ \A c \in Sessions : WF_vars(Expire(c)) /\ WF_vars(SetClientPingTimeout(c))

----------------------------------------------------------------------------

\* Every variable holds a value of its C++ type.
TypeOK ==
    /\ next \in 0 .. MaxSessions
    /\ live \subseteq Sessions
    /\ socket \in [Sessions -> {"unused", "open", "silent", "closed"}]
    /\ timer \in [Sessions -> {"none", "armed", "idle"}]
    /\ due \subseteq Sessions
    /\ erasing \subseteq Sessions
    /\ DOMAIN rooms \subseteq RoomIds
    /\ \A r \in DOMAIN rooms : rooms[r] \in Room
    /\ asked \subseteq Sessions
    /\ told \in [Sessions -> SUBSET RoomIds]
    /\ inroom \in [Sessions -> SUBSET RoomIds]

\* A session is in at most one room, and in it once: the cases LeaveRoom logs
\* with "it cannot be" do not occur, whatever order requests, notifications and
\* disconnections take.
OneRoom ==
    \A s \in Sessions : \A r, q \in IsSessionidExisted(s) :
        r = q /\ rooms[r].sessionids[s] = 1

\* No room is left empty, and a broadcasting room never outlives the presence
\* of its broadcaster in it, through any mix of leaving, joining, forced
\* reopening and disconnecting.
RoomsInhabited ==
    \A r \in DOMAIN rooms :
        /\ \E s \in Sessions : rooms[r].sessionids[s] > 0
        /\ rooms[r].room_type = "VideoBroadcasting" =>
              /\ rooms[r].broadcaster_sessionid \in Sessions
              /\ rooms[r].sessionids[rooms[r].broadcaster_sessionid] > 0

\* A session that asked for the rooms once knows them ever after from the "new"
\* and "delete" notifications alone: every way a room appears or vanishes sends
\* one to every connected session (OpenRoom, CloseRoom, LeaveRoom and the
\* disconnection of a broadcaster or of the last member).
RoomsKnown == \A s \in asked : told[s] = DOMAIN rooms

\* A connected session is in exactly the room that the last answer and the
\* notifications since then put it in: nobody is dropped from a room silently.
MembersInformed == \A s \in live : inroom[s] = IsSessionidExisted(s)

\* A connected session always has a deadline: its ping timer is waiting, or the
\* handler that closes it is queued.  A heartbeat that crosses an expiry or an
\* erasure never leaves a session nothing will ever close.
SessionHasDeadline == \A s \in live : timer[s] = "armed" \/ s \in due

\* A connection that has lost its session is not answered: its timer entry, on
\* which the pong depends, is gone or about to be erased.
GhostsUnanswered ==
    \A c \in Sessions : timer[c] # "none" => c \in live \/ c \in erasing

\* The rooms are sound: one room per session, somebody in every room, clients
\* that know which rooms there are, and a deadline for every session that could
\* hold one.
RoomsSound == OneRoom /\ RoomsInhabited /\ RoomsKnown /\ SessionHasDeadline

\* When requests come only from connected sessions, every member of every room
\* is connected.
MembersConnected ==
    \A r \in DOMAIN rooms, s \in Sessions : rooms[r].sessionids[s] > 0 => s \in live

\* docs/signaling_protocol.md:120: when the creator of a room leaves it, the
\* room is deleted; so a room always holds the session that opened it.
CreatorPresent ==
    \A r \in DOMAIN rooms : rooms[r].sessionids[rooms[r].opened_by] > 0

\* A client that stops without closing its connection is out of every room in
\* the end, and stays out: the ping timeout frees the rooms it held.
SilentFreeRooms ==
    \A c \in Sessions :
        [](socket[c] = "silent" => <>[](IsSessionidExisted(c) = {}))

============================================================================
