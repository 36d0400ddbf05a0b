--------------------------- MODULE SessionClient ---------------------------
(***************************************************************************)
(* The client's way into a room: the WebSocket half of RtcConnectionManager *)
(* (vtsrtc/src/rtc_connection_manager.cpp), its blocking room requests and  *)
(* the RtcSession of the edge program (client/modules/runtime).             *)
(*                                                                          *)
(* Three threads take part.  The websocket thread runs the completions of   *)
(* one io_context in order (io); it writes ws and posts tasks to the logic  *)
(* thread (queue), which runs the application's callbacks; the main thread  *)
(* runs RtcSession::Tick and blocks while the logic thread performs its     *)
(* room request (call).  The connection being dialled or used is "cur",     *)
(* every earlier one is "old": a reconnect turns cur into old everywhere.   *)
(*                                                                          *)
(* External: the asio client and timers, the network (link, wire) and the   *)
(* signaling server (srv), whose own module is SignalingServer.  A fault    *)
(* (a lost connection, a mute one, an answer later than a timeout, a timer  *)
(* or a dial that completes while other completions wait, a failed HTTP     *)
(* request) uses up one of MaxFaults; after the last one the network answers *)
(* within the timeouts and the io_context keeps up with it.                 *)
(***************************************************************************)
EXTENDS Naturals, Sequences

CONSTANTS
    RoomActions,   \* the room actions to consider: "Join", "Open", "ForceOpen"
    MaxFaults,     \* bound: faults of the network and of HTTP requests
    MaxRoomOps,    \* bound: times the other party opens or closes the room
    MaxIo          \* bound: completions waiting at once

ASSUME SessionClientConstants ==
    /\ RoomActions \subseteq {"Join", "Open", "ForceOpen"}
    /\ {MaxFaults, MaxRoomOps, MaxIo} \subseteq Nat

VARIABLES
    action,    \* features_.room_action, and features_.open_room_force
    ws,        \* the members the websocket thread owns or guards
    link,      \* external: the socket of cur
    wire,      \* external: the server's messages on their way to cur
    io,        \* external: completions ready in ws_io_context_
    srv,       \* external: the room and its members in the server
    queue,     \* tasks posted to logic_thread_
    sess,      \* RtcSession: server_state_, room_joined_, room_retry_requested_
    call,      \* the room request the main thread waits for
    due,       \* join_retry_ms have passed since last_join_attempt_
    faults, roomOps,
    outages,   \* history: Disconnected reports since the last Connected one
    reset,     \* history: RtcSession was reset since the running Tick began
    late,      \* history: a Tick stored room_joined_ over such a reset
    down       \* Shutdown has run

vars == <<action, ws, link, wire, io, srv, queue, sess, call, due, faults,
          roomOps, outages, reset, late, down>>
network == <<link, wire, srv>>
history == <<outages, reset, late>>
session == <<sess, call, due, history>>
bounds == <<faults, roomOps>>

Conns == {"cur", "old"}
Timers == {"ping", "pong", "recon"}

\* A completion: an opened, failed or read socket, or an expired timer.
Ready(k, of) == [kind |-> k, of |-> of]

Init ==
    /\ action \in RoomActions
    /\ ws = [notified |-> FALSE, lock |-> FALSE, armed |-> {},
             sid |-> "none", conn |-> "none"]
    /\ link = "dialing"
    /\ wire = <<>>
    /\ io = <<>>
    /\ srv = [host |-> "none", members |-> {}]
    /\ queue = <<>>
    /\ sess = [state |-> "Connecting", joined |-> FALSE, retry |-> FALSE]
    /\ call = [at |-> "idle", sid |-> "none", code |-> "none"]
    /\ due = TRUE
    /\ faults = MaxFaults
    /\ roomOps = MaxRoomOps
    /\ outages = 0
    /\ reset = FALSE
    /\ late = FALSE
    /\ down = FALSE

----------------------------------------------------------------------------
(* The network and the server (external). *)

\* What cur was is old; a request waits for its answer with the session it had.
OldOf(c) == IF c = "cur" THEN "old" ELSE c
AgeIo(s) == [i \in DOMAIN s |-> [s[i] EXCEPT !.of = OldOf(@)]]
AgeCall(r) == [r EXCEPT !.sid = OldOf(@)]
AgeServer(v) == [host |-> OldOf(v.host), members |-> {OldOf(c) : c \in v.members}]

\* The server's broadcasts reach cur while its link carries messages.
Sent(m) == IF link = "open" THEN Append(wire, m) ELSE wire

\* A dial that completes while completions wait is one of the faults: dialling
\* takes longer than running what is ready.
NetOpen ==
    /\ ~down /\ link = "dialing" /\ Len(io) < MaxIo
    /\ io # <<>> => faults > 0
    /\ faults' = IF io = <<>> THEN faults ELSE faults - 1
    /\ link' = "open"
    /\ wire' = <<"login">>
    /\ io' = Append(io, Ready("open", "cur"))
    /\ UNCHANGED <<action, ws, srv, queue, session, roomOps, down>>

NetDeliver ==
    /\ ~down /\ wire # <<>> /\ Len(io) < MaxIo
    /\ io' = Append(io, Ready(Head(wire), "cur"))
    /\ wire' = Tail(wire)
    /\ UNCHANGED <<action, ws, link, srv, queue, session, bounds, down>>

\* The dial or the connection fails; the pending operation completes with an
\* error and what was on the wire is lost.
NetFail ==
    /\ ~down /\ faults > 0 /\ link \in {"dialing", "open", "mute"} /\ Len(io) < MaxIo
    /\ faults' = faults - 1
    /\ link' = "dead"
    /\ wire' = <<>>
    /\ io' = Append(io, Ready("error", "cur"))
    /\ UNCHANGED <<action, ws, srv, queue, session, roomOps, down>>

\* The peer is gone and nothing says so: only the pong timeout can tell.
NetMute ==
    /\ ~down /\ faults > 0 /\ link = "open"
    /\ faults' = faults - 1
    /\ link' = "mute"
    /\ wire' = <<>>
    /\ UNCHANGED <<action, ws, io, srv, queue, session, roomOps, down>>

\* The room is closed with its host (a broadcasting room) and the closing is
\* broadcast; any other session just leaves.
ServerLeaves(c) ==
    IF srv.host = c
    THEN srv' = [host |-> "none", members |-> {}] /\ wire' = Sent("delete")
    ELSE srv' = [srv EXCEPT !.members = @ \ {c}] /\ UNCHANGED wire

\* The server notices the end of an earlier connection.
ServerDrop ==
    /\ "old" \in srv.members
    /\ ServerLeaves("old")
    /\ UNCHANGED <<action, ws, link, io, queue, session, bounds, down>>

\* The other party opens the room, or closes it.
OtherOpens ==
    /\ roomOps > 0 /\ action = "Join" /\ srv.host = "none"
    /\ roomOps' = roomOps - 1
    /\ srv' = [srv EXCEPT !.host = "other"]
    /\ wire' = Sent("new")
    /\ UNCHANGED <<action, ws, link, io, queue, session, faults, down>>

OtherCloses ==
    /\ roomOps > 0 /\ srv.host # "none"
    /\ roomOps' = roomOps - 1
    /\ srv' = [host |-> "none", members |-> {}]
    /\ wire' = Sent("delete")
    /\ UNCHANGED <<action, ws, link, io, queue, session, faults, down>>

----------------------------------------------------------------------------
(* Timers: an expired timer is a completion that cancel cannot take back. *)

\* A timeout that fires although the answer or the connection is coming, or
\* while completions are waiting that will cancel it or arm it again.
Early(t) ==
    \/ io # <<>>
    \/ t = "pong" /\ \E i \in DOMAIN wire : wire[i] = "heartbeat"
    \/ t = "recon" /\ link # "dead"

TimerExpires(t) ==
    /\ ~down /\ t \in ws.armed /\ Len(io) < MaxIo
    /\ Early(t) => faults > 0
    /\ faults' = IF Early(t) THEN faults - 1 ELSE faults
    /\ ws' = [ws EXCEPT !.armed = @ \ {t}]
    /\ io' = Append(io, Ready(t, "timer"))
    /\ UNCHANGED <<action, network, queue, session, roomOps, down>>

----------------------------------------------------------------------------
(* The websocket thread. *)

Completes(k) == ~down /\ io # <<>> /\ Head(io).kind = k

\* Mutant: the outage is reported on every attempt.
ReconnectNotifying(w) ==
    /\ queue' = Append(queue, "outage")
    /\ IF w.lock
       THEN /\ ws' = [w EXCEPT !.sid = "none", !.conn = "none", !.armed = @ \ {"ping", "pong"}]
            /\ io' = Tail(io)
            /\ UNCHANGED <<network, call>>
       ELSE /\ ws' = [w EXCEPT !.lock = TRUE, !.armed = {"recon"},
                               !.sid = "none", !.conn = "none"]
            /\ io' = AgeIo(Tail(io)) \o
                       IF link = "dead" THEN <<>> ELSE <<Ready("error", "old")>>
            /\ link' = "dialing"
            /\ wire' = <<>>
            /\ srv' = AgeServer(srv)
            /\ call' = AgeCall(call)

\* Mutant: the reconnect timer is not armed again.
ReconnectOnce(w) ==
    LET n == IF w.notified THEN w
             ELSE [w EXCEPT !.notified = TRUE, !.sid = "none", !.conn = "none"]
    IN  /\ queue' = IF w.notified THEN queue ELSE Append(queue, "outage")
        /\ IF w.lock
           THEN /\ ws' = [n EXCEPT !.armed = @ \ {"ping", "pong"}]
                /\ io' = Tail(io)
                /\ UNCHANGED <<network, call>>
           ELSE /\ ws' = [n EXCEPT !.lock = TRUE, !.armed = {}]
                /\ io' = AgeIo(Tail(io)) \o
                           IF link = "dead" THEN <<>> ELSE <<Ready("error", "old")>>
                /\ link' = "dialing"
                /\ wire' = <<>>
                /\ srv' = AgeServer(srv)
                /\ call' = AgeCall(call)

\* Run by the completion at the head of io, with w the members as it left
\* them.  The first call of an outage forgets session and connection and posts
\* the report; a call that finds lock_reconnect_ unset arms the reconnect timer
\* and dials again, which aborts the operation pending on the last socket.
ReconnectWebsocket(w) ==
    LET n == IF w.notified THEN w
             ELSE [w EXCEPT !.notified = TRUE, !.sid = "none", !.conn = "none"]
    IN  /\ queue' = IF w.notified THEN queue ELSE Append(queue, "outage")
        /\ IF w.lock
           THEN /\ ws' = [n EXCEPT !.armed = @ \ {"ping", "pong"}]
                /\ io' = Tail(io)
                /\ UNCHANGED <<network, call>>
           ELSE /\ ws' = [n EXCEPT !.lock = TRUE, !.armed = {"recon"}]
                /\ io' = AgeIo(Tail(io)) \o
                           IF link = "dead" THEN <<>> ELSE <<Ready("error", "old")>>
                /\ link' = "dialing"
                /\ wire' = <<>>
                /\ srv' = AgeServer(srv)
                /\ call' = AgeCall(call)

OnOpen ==
    /\ Completes("open")
    /\ ws' = [ws EXCEPT !.notified = FALSE, !.lock = FALSE, !.conn = Head(io).of,
                        !.armed = (@ \ {"recon"}) \cup {"ping"}]
    /\ queue' = Append(queue, "connected")
    /\ io' = Tail(io)
    /\ UNCHANGED <<action, network, session, bounds, down>>

\* on_error and on_close, of whichever connection.
OnError ==
    /\ Completes("error")
    /\ ReconnectWebsocket(ws)
    /\ UNCHANGED <<action, sess, due, history, bounds, down>>

\* take_heartbeat, of whichever connection.
OnHeartbeat ==
    /\ Completes("heartbeat")
    /\ ws' = [ws EXCEPT !.armed = (@ \ {"pong"}) \cup {"ping"}]
    /\ io' = Tail(io)
    /\ UNCHANGED <<action, network, queue, session, bounds, down>>

\* take_info login_succeed, of whichever connection.
OnLogin ==
    /\ Completes("login")
    /\ ws' = [ws EXCEPT !.sid = Head(io).of]
    /\ queue' = Append(queue, "logined")
    /\ io' = Tail(io)
    /\ UNCHANGED <<action, network, session, bounds, down>>

\* take_roominfo.
OnRoomInfo(op) ==
    /\ Completes(op)
    /\ queue' = Append(queue, op)
    /\ io' = Tail(io)
    /\ UNCHANGED <<action, ws, network, session, bounds, down>>

\* The ping goes out only on a connection; the pong timer is armed anyway.
SetPingTimeout ==
    /\ Completes("ping")
    /\ wire' = IF ws.conn = "cur" THEN Sent("heartbeat") ELSE wire
    /\ ws' = [ws EXCEPT !.armed = @ \cup {"pong"}]
    /\ io' = Tail(io)
    /\ UNCHANGED <<action, link, srv, queue, session, bounds, down>>

PongTimeout ==
    /\ Completes("pong")
    /\ ReconnectWebsocket(ws)
    /\ UNCHANGED <<action, sess, due, history, bounds, down>>

ReconnectTimer ==
    /\ Completes("recon")
    /\ ReconnectWebsocket([ws EXCEPT !.lock = FALSE])
    /\ UNCHANGED <<action, sess, due, history, bounds, down>>

----------------------------------------------------------------------------
(* The logic thread: it runs one task at a time, and none during a request. *)

LogicFree == ~down /\ call.at # "http"
Runs(t) == LogicFree /\ queue # <<>> /\ Head(queue) = t

\* OnServerConnectionState with a state other than Logined, and the Delete of
\* the room: what Tick goes by is cleared.
Cleared(state) == [state |-> state, joined |-> FALSE, retry |-> FALSE]

RunConnected ==
    /\ Runs("connected")
    /\ sess' = Cleared("Connected")
    /\ outages' = 0
    /\ reset' = TRUE
    /\ queue' = Tail(queue)
    /\ UNCHANGED <<action, ws, network, io, call, due, bounds, late, down>>

RunLogined ==
    /\ Runs("logined")
    /\ sess' = [sess EXCEPT !.state = "Logined"]
    /\ queue' = Tail(queue)
    /\ UNCHANGED <<action, ws, network, io, call, due, bounds, history, down>>

\* Disconnected, then Reconnecting.
RunOutage ==
    /\ Runs("outage")
    /\ sess' = Cleared("Reconnecting")
    /\ outages' = IF outages > 1 THEN outages ELSE outages + 1
    /\ reset' = TRUE
    /\ queue' = Tail(queue)
    /\ UNCHANGED <<action, ws, network, io, call, due, bounds, late, down>>

RunRoomNew ==
    /\ Runs("new")
    /\ sess' = [sess EXCEPT !.retry = @ \/ (action = "Join" /\ ~sess.joined)]
    /\ queue' = Tail(queue)
    /\ UNCHANGED <<action, ws, network, io, call, due, bounds, history, down>>

\* Mutant: the closing of the room does not reset room_joined_.
RunRoomDeleteKept ==
    /\ Runs("delete")
    /\ queue' = Tail(queue)
    /\ UNCHANGED <<action, ws, network, io, sess, call, due, bounds, history, down>>

RunRoomDelete ==
    /\ Runs("delete")
    /\ sess' = Cleared(sess.state)
    /\ reset' = TRUE
    /\ queue' = Tail(queue)
    /\ UNCHANGED <<action, ws, network, io, call, due, bounds, outages, late, down>>

\* OpenRoom and JoinRoom up to the request: no session, no request.
RequestBegins ==
    /\ LogicFree /\ call.at = "posted"
    /\ call' = IF ws.sid = "none"
               THEN [at |-> "done", sid |-> "none", code |-> "AgentNotLogined"]
               ELSE [at |-> "http", sid |-> ws.sid, code |-> "none"]
    /\ UNCHANGED <<action, ws, network, io, queue, sess, due, bounds, history, down>>

Answers(code) == call' = [call EXCEPT !.at = "done", !.code = code]

\* The server takes the request with the session number the client copied,
\* whether or not that session still has a connection.
Served == ~down /\ call.at = "http"

InRoomAlready ==
    /\ Served /\ call.sid \in srv.members
    /\ Answers("AgentAlreadyInRoom")
    /\ UNCHANGED <<srv, wire>>

JoinRoom ==
    /\ Served /\ call.sid \notin srv.members /\ action = "Join"
    /\ IF srv.host = "none"
       THEN Answers("RoomNotExisted") /\ UNCHANGED srv
       ELSE Answers("OK") /\ srv' = [srv EXCEPT !.members = @ \cup {call.sid}]
    /\ UNCHANGED wire

OpenRoom ==
    /\ Served /\ call.sid \notin srv.members /\ action # "Join"
    /\ IF srv.host # "none" /\ action = "Open"
       THEN Answers("RoomAlreadyExisted") /\ UNCHANGED <<srv, wire>>
       ELSE /\ Answers("OK")
            /\ srv' = [host |-> call.sid, members |-> {call.sid}]
            /\ wire' = Sent("new")

RequestServed ==
    /\ InRoomAlready \/ JoinRoom \/ OpenRoom
    /\ UNCHANGED <<action, ws, link, io, queue, sess, due, bounds, history, down>>

\* The request is lost.
RequestFails ==
    /\ ~down /\ call.at = "http" /\ faults > 0
    /\ faults' = faults - 1
    /\ Answers("InternalError")
    /\ UNCHANGED <<action, ws, network, io, queue, sess, due, roomOps, history, down>>

----------------------------------------------------------------------------
(* The main thread. *)

\* MaybeEnterRoom, up to the blocking room request.
Tick ==
    /\ ~down /\ call.at = "idle"
    /\ sess.state = "Logined" /\ ~sess.joined
    /\ sess.retry \/ due
    /\ sess' = [sess EXCEPT !.retry = FALSE]
    /\ due' = FALSE
    /\ call' = [call EXCEPT !.at = "posted"]
    /\ reset' = FALSE
    /\ UNCHANGED <<action, ws, network, io, queue, bounds, outages, late, down>>

\* join_retry_ms pass.
IntervalPasses ==
    /\ ~down /\ ~due
    /\ due' = TRUE
    /\ UNCHANGED <<action, ws, network, io, queue, sess, call, bounds, history, down>>

\* Mutant: only an attempt that enters the room counts.
EnteredNow(code) == code = "OK"

\* An attempt that finds the session in the room already has entered it too.
Entered(code) == code \in {"OK", "AgentAlreadyInRoom"}

\* MaybeEnterRoom, after the request.
TickEnds ==
    /\ ~down /\ call.at = "done"
    /\ call' = [at |-> "idle", sid |-> "none", code |-> "none"]
    /\ IF Entered(call.code)
       THEN /\ sess' = [sess EXCEPT !.joined = TRUE, !.retry = FALSE]
            /\ late' = (late \/ reset)
       ELSE UNCHANGED <<sess, late>>
    /\ UNCHANGED <<action, ws, network, io, queue, due, bounds, outages, reset, down>>

\* RtcSession::Shutdown: the leave requests, then the end of the agent, whose
\* threads are stopped; the server sees the connection close.
Shutdown ==
    /\ ~down /\ call.at = "idle"
    /\ down' = TRUE
    /\ sess' = [sess EXCEPT !.joined = FALSE, !.retry = FALSE]
    /\ ws' = [ws EXCEPT !.armed = {}, !.sid = "none", !.conn = "none"]
    /\ IF ws.sid # "none"
       THEN ServerLeaves(ws.sid)
       ELSE UNCHANGED <<srv, wire>>
    /\ io' = <<>>
    /\ queue' = <<>>
    /\ link' = "dead"
    /\ UNCHANGED <<action, call, due, bounds, history>>

----------------------------------------------------------------------------

Network == NetOpen \/ NetDeliver \/ NetFail \/ NetMute
Server == ServerDrop \/ OtherOpens \/ OtherCloses
WsThread ==
    \/ OnOpen \/ OnError \/ OnHeartbeat \/ OnLogin
    \/ \E op \in {"new", "delete"} : OnRoomInfo(op)
    \/ SetPingTimeout \/ PongTimeout \/ ReconnectTimer
LogicThread ==
    \/ RunConnected \/ RunLogined \/ RunOutage \/ RunRoomNew \/ RunRoomDelete
    \/ RequestBegins \/ RequestServed \/ RequestFails
MainThread == Tick \/ IntervalPasses \/ TickEnds \/ Shutdown

Next ==
    \/ Network
    \/ Server
    \/ \E t \in Timers : TimerExpires(t)
    \/ WsThread
    \/ LogicThread
    \/ MainThread

Spec == Init /\ [][Next]_vars

\* The threads run what is ready, an armed timer expires, the dial and the
\* messages of a live link complete, the server answers and notices dead
\* connections.  Faults, room events and Shutdown are never owed.
FairSpec ==
    /\ Spec
    /\ WF_vars(NetOpen) /\ WF_vars(NetDeliver) /\ WF_vars(ServerDrop)
    /\ WF_vars(WsThread)
    /\ WF_vars(RunConnected \/ RunLogined \/ RunOutage \/ RunRoomNew \/ RunRoomDelete)
    /\ WF_vars(RequestBegins) /\ WF_vars(RequestServed)
    /\ WF_vars(Tick) /\ WF_vars(TickEnds) /\ WF_vars(IntervalPasses)
    /\ \A t \in Timers : WF_vars(~Early(t) /\ TimerExpires(t))

----------------------------------------------------------------------------

\* However long the client keeps reconnecting, the application hears
\* Disconnected and Reconnecting once: the report is posted by the websocket
\* thread and run by the logic thread, after whatever it still had to do.
OneOutageReport == outages =< 1

\* Nothing is on its way to RtcSession or from it.
Settled == io = <<>> /\ wire = <<>> /\ queue = <<>> /\ call.at = "idle"

\* With nothing on its way, an RtcSession that says it is in the room has the
\* session of the connection in use in the room of the server, unless a Tick
\* stored room_joined_ over a reset that came while it waited for its request.
JoinedTruthful ==
    Settled /\ link = "open" /\ sess.joined /\ ~late => "cur" \in srv.members

LoggedIn == link = "open" /\ ws.conn = "cur" /\ ws.sid = "cur"

\* Once the faults are over, the client ends up logged in on a live connection,
\* and the session knows it.
Relogin == <>[](LoggedIn /\ (sess.state = "Logined" \/ queue # <<>>)) \/ <>down

RoomOpen ==
    CASE action = "Join" -> srv.host = "other"
      [] action = "Open" -> srv.host # "old"
      [] OTHER -> TRUE

\* A room that stays open to the client is entered in the end: no lost
\* notification, failed attempt or outage leaves the session outside for good,
\* the overwritten reset excepted (with "Open", also a room that the server
\* keeps for a session whose connection had ended when it asked).
Rejoin == <>[](RoomOpen => sess.joined) \/ <>late \/ <>down
=============================================================================
