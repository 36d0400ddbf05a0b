---------------------------- MODULE Session_proofs ----------------------------
(***************************************************************************)
(* Proofs about the client's way into a room, for every number of faults,  *)
(* room events and completions waiting: an outage is reported once, an     *)
(* RtcSession that says it is in the room has its session in the room, the *)
(* client always has something that wakes it, and RtcSession hears of the  *)
(* login of the connection in use.                                         *)
(***************************************************************************)
EXTENDS SessionClient, SequenceTheorems, TLAPS

-----------------------------------------------------------------------------
(* Types.                                                                   *)

Ids == {"none", "cur", "old", "timer"}
Messages == {"login", "heartbeat", "new", "delete"}
Completions == [kind : Messages \cup Timers \cup {"open", "error"}, of : Ids]
Tasks == {"outage", "connected", "logined", "new", "delete"}
Codes == {"none", "OK", "AgentNotLogined", "AgentAlreadyInRoom", "RoomNotExisted", "RoomAlreadyExisted",
          "InternalError"}

WsType == ws \in [notified : BOOLEAN, lock : BOOLEAN, armed : SUBSET Timers, sid : Ids, conn : Ids]
NetType == link \in {"dialing", "open", "mute", "dead"} /\ wire \in Seq(Messages) /\ io \in Seq(Completions)
SrvType == srv \in [host : Ids \cup {"other"}, members : SUBSET Ids]
LogicType ==
    /\ queue \in Seq(Tasks)
    /\ sess \in [state : {"Connecting", "Connected", "Reconnecting", "Logined"}, joined : BOOLEAN, retry : BOOLEAN]
    /\ call \in [at : {"idle", "posted", "http", "done"}, sid : Ids, code : Codes]
    /\ outages \in Nat /\ reset \in BOOLEAN /\ late \in BOOLEAN /\ down \in BOOLEAN

Typed == WsType /\ NetType /\ SrvType /\ LogicType

LEMMA Aged ==
    ASSUME NEW s \in Seq(Completions)
    PROVE  /\ AgeIo(s) \in Seq(Completions) /\ Len(AgeIo(s)) = Len(s)
           /\ \A i \in 1 .. Len(s) : AgeIo(s)[i] = [s[i] EXCEPT !.of = OldOf(@)]
<1>1. Len(s) \in Nat /\ DOMAIN s = 1 .. Len(s) /\ \A i \in 1 .. Len(s) : s[i] \in Completions
  BY LenProperties
<1>2. \A i \in 1 .. Len(s) : [s[i] EXCEPT !.of = OldOf(@)] \in Completions
  BY <1>1 DEF Completions, OldOf, Ids
<1> DEFINE e(i) == [s[i] EXCEPT !.of = OldOf(@)]
<1>3. \A i \in 1 .. Len(s) : e(i) \in Completions
  BY <1>2
<1>4. AgeIo(s) = [i \in 1 .. Len(s) |-> e(i)]
  BY <1>1 DEF AgeIo
<1> HIDE DEF e
<1>5. [i \in 1 .. Len(s) |-> e(i)] \in Seq(Completions) /\ Len([i \in 1 .. Len(s) |-> e(i)]) = Len(s)
  BY <1>1, <1>3
<1> QED BY <1>4, <1>5 DEF e

\* What a reconnect does, whichever completion asked for it.
LEMMA ReconnectTypes ==
    ASSUME Typed, NEW w \in [notified : BOOLEAN, lock : BOOLEAN, armed : SUBSET Timers, sid : Ids, conn : Ids],
           io # <<>>, ReconnectWebsocket(w), UNCHANGED <<sess, due, history, down>>
    PROVE  Typed'
<1> DEFINE n == IF w.notified THEN w ELSE [w EXCEPT !.notified = TRUE, !.sid = "none", !.conn = "none"]
           rest == IF link = "dead" THEN <<>> ELSE <<Ready("error", "old")>>
<1>1. n \in [notified : BOOLEAN, lock : BOOLEAN, armed : SUBSET Timers, sid : Ids, conn : Ids]
  BY DEF Ids
<1>2. queue' = queue \/ queue' = Append(queue, "outage")
  BY DEF ReconnectWebsocket
<1>3. \/ /\ ws' = [n EXCEPT !.armed = @ \ {"ping", "pong"}] /\ io' = Tail(io) /\ UNCHANGED <<network, call>>
      \/ /\ ws' = [n EXCEPT !.lock = TRUE, !.armed = {"recon"}] /\ io' = AgeIo(Tail(io)) \o rest
         /\ link' = "dialing" /\ wire' = <<>> /\ srv' = AgeServer(srv) /\ call' = AgeCall(call)
  BY DEF ReconnectWebsocket
<1>4. Tail(io) \in Seq(Completions)
  BY DEF Typed, NetType
<1>5. AgeIo(Tail(io)) \in Seq(Completions)
  BY <1>4, Aged
<1>6. rest \in Seq(Completions)
  <2>1. PICK r : r = Ready("error", "old")
    OBVIOUS
  <2>2. r \in Completions
    BY <2>1 DEF Ready, Completions, Ids
  <2>3. <<>> \in Seq(Completions) /\ <<r>> \in Seq(Completions)
    BY <2>2
  <2> QED BY <2>1, <2>3
<1> HIDE DEF rest, n
<1>7. AgeIo(Tail(io)) \o rest \in Seq(Completions)
  BY <1>5, <1>6, ConcatProperties
<1>8. WsType'
  <2>1. CASE ws' = [n EXCEPT !.armed = @ \ {"ping", "pong"}]
    BY <1>1, <2>1 DEF WsType
  <2>2. CASE ws' = [n EXCEPT !.lock = TRUE, !.armed = {"recon"}]
    BY <1>1, <2>2 DEF WsType, Timers
  <2> QED BY <1>3, <2>1, <2>2
<1>9. NetType'
  <2>1. link \in {"dialing", "open", "mute", "dead"} /\ wire \in Seq(Messages) /\ <<>> \in Seq(Messages)
    BY EmptySeq DEF Typed, NetType
  <2>2. io' = Tail(io) \/ io' = AgeIo(Tail(io)) \o rest
    BY <1>3
  <2>3. io' \in Seq(Completions)
    BY <1>4, <1>7, <2>2
  <2>4. (link' = link \/ link' = "dialing") /\ (wire' = wire \/ wire' = <<>>)
    BY <1>3 DEF network
  <2>5. link' \in {"dialing", "open", "mute", "dead"} /\ wire' \in Seq(Messages)
    BY <2>1, <2>4
  <2> QED BY <2>3, <2>5 DEF NetType
<1>10. SrvType'
  <2>1. AgeServer(srv) \in [host : Ids \cup {"other"}, members : SUBSET Ids]
    BY DEF Typed, SrvType, AgeServer, OldOf, Ids
  <2> QED BY <1>3, <2>1 DEF Typed, SrvType, network
<1>11. LogicType'
  <2>1. AgeCall(call) \in [at : {"idle", "posted", "http", "done"}, sid : Ids, code : Codes]
    BY DEF Typed, LogicType, AgeCall, OldOf, Ids
  <2>2. queue' \in Seq(Tasks)
    BY <1>2 DEF Typed, LogicType, Tasks
  <2>3. call' = call \/ call' = AgeCall(call)
    BY <1>3
  <2> QED BY <2>1, <2>2, <2>3 DEF Typed, LogicType, history
<1> QED BY <1>8, <1>9, <1>10, <1>11 DEF Typed

LEMMA SentType == ASSUME Typed, NEW m \in Messages PROVE Sent(m) \in Seq(Messages)
BY DEF Typed, NetType, Sent

LEMMA NetworkTypes ==
    ASSUME Typed, Network \/ Server \/ \E t \in Timers : TimerExpires(t) PROVE Typed'
<1> USE DEF Typed
<1>1. CASE NetOpen
  <2>1. wire' \in Seq(Messages) /\ io' \in Seq(Completions) /\ link' = "open"
    BY <1>1 DEF NetOpen, NetType, Ready, Completions, Messages, Ids
  <2> QED BY <1>1, <2>1 DEF NetOpen, WsType, NetType, SrvType, LogicType, session, history
<1>2. CASE NetDeliver
  <2>1. Head(wire) \in Messages /\ Tail(wire) \in Seq(Messages)
    BY <1>2 DEF NetDeliver, NetType
  <2>2. Ready(Head(wire), "cur") \in Completions
    BY <2>1 DEF Ready, Completions, Ids
  <2>3. wire' \in Seq(Messages) /\ io' \in Seq(Completions)
    BY <1>2, <2>1, <2>2 DEF NetDeliver, NetType
  <2> QED BY <1>2, <2>3 DEF NetDeliver, WsType, NetType, SrvType, LogicType, session, history
<1>3. CASE NetFail
  <2>1. wire' \in Seq(Messages) /\ io' \in Seq(Completions) /\ link' = "dead"
    BY <1>3, EmptySeq DEF NetFail, NetType, Ready, Completions, Messages, Ids
  <2> QED BY <1>3, <2>1 DEF NetFail, WsType, NetType, SrvType, LogicType, session, history
<1>4. CASE NetMute
  BY <1>4, EmptySeq DEF NetMute, WsType, NetType, SrvType, LogicType, session, history
<1>5. CASE ServerDrop
  <2>1. wire' \in Seq(Messages) /\ srv' \in [host : Ids \cup {"other"}, members : SUBSET Ids]
    <3>1. Sent("delete") \in Seq(Messages)
      BY SentType DEF Messages
    <3> QED BY <1>5, <3>1 DEF ServerDrop, ServerLeaves, NetType, SrvType, Ids
  <2> QED BY <1>5, <2>1 DEF ServerDrop, WsType, NetType, SrvType, LogicType, session, history
<1>6. CASE OtherOpens
  <2>1. wire' \in Seq(Messages)
    BY <1>6, SentType DEF OtherOpens, Messages
  <2>2. SrvType'
    BY <1>6 DEF OtherOpens, SrvType
  <2> QED BY <1>6, <2>1, <2>2 DEF OtherOpens, WsType, NetType, LogicType, session, history
<1>7. CASE OtherCloses
  <2>1. wire' \in Seq(Messages)
    BY <1>7, SentType DEF OtherCloses, Messages
  <2> QED BY <1>7, <2>1 DEF OtherCloses, WsType, NetType, SrvType, LogicType, session, history, Ids
<1>8. CASE \E t \in Timers : TimerExpires(t)
  <2>1. PICK t \in Timers : TimerExpires(t)
    BY <1>8
  <2>2. Ready(t, "timer") \in Completions
    BY DEF Ready, Completions, Ids
  <2>3. io' \in Seq(Completions)
    BY <2>1, <2>2 DEF TimerExpires, NetType
  <2>4. WsType'
    BY <2>1 DEF TimerExpires, WsType
  <2> QED BY <2>1, <2>3, <2>4 DEF TimerExpires, NetType, SrvType, LogicType, session, history, network
<1> QED BY <1>1, <1>2, <1>3, <1>4, <1>5, <1>6, <1>7, <1>8 DEF Network, Server

LEMMA HeadOfIo ==
    ASSUME Typed, io # <<>> PROVE Head(io) \in Completions /\ Head(io).of \in Ids /\ Tail(io) \in Seq(Completions)
<1>1. Head(io) \in Completions /\ Tail(io) \in Seq(Completions)
  BY DEF Typed, NetType
<1> QED BY <1>1 DEF Completions

LEMMA WsTypes ==
    ASSUME Typed, WsThread PROVE Typed'
<1> USE DEF Typed
<1>0. io # <<>>
  BY DEF WsThread, OnOpen, OnError, OnHeartbeat, OnLogin, OnRoomInfo, SetPingTimeout, PongTimeout, ReconnectTimer,
         Completes
<1>1. Head(io).of \in Ids /\ Tail(io) \in Seq(Completions)
  BY <1>0, HeadOfIo
<1>2. CASE OnOpen
  <2>1. WsType'
    BY <1>1, <1>2 DEF OnOpen, WsType, Timers
  <2>2. queue' \in Seq(Tasks)
    BY <1>2 DEF OnOpen, LogicType, Tasks
  <2> QED BY <1>1, <1>2, <2>1, <2>2 DEF OnOpen, NetType, SrvType, LogicType, session, history, network
<1>3. CASE OnError
  <2>1. ws \in [notified : BOOLEAN, lock : BOOLEAN, armed : SUBSET Timers, sid : Ids, conn : Ids]
    BY DEF WsType
  <2>2. ReconnectWebsocket(ws) /\ UNCHANGED <<sess, due, history, down>>
    BY <1>3 DEF OnError
  <2> QED BY <1>0, <2>1, <2>2, ReconnectTypes
<1>4. CASE OnHeartbeat
  <2>1. WsType'
    BY <1>4 DEF OnHeartbeat, WsType, Timers
  <2> QED BY <1>1, <1>4, <2>1 DEF OnHeartbeat, NetType, SrvType, LogicType, session, history, network
<1>5. CASE OnLogin
  <2>1. WsType'
    BY <1>1, <1>5 DEF OnLogin, WsType, Timers
  <2>2. queue' \in Seq(Tasks)
    BY <1>5 DEF OnLogin, LogicType, Tasks
  <2> QED BY <1>1, <1>5, <2>1, <2>2 DEF OnLogin, NetType, SrvType, LogicType, session, history, network
<1>6. CASE \E op \in {"new", "delete"} : OnRoomInfo(op)
  <2>1. queue' \in Seq(Tasks)
    BY <1>6 DEF OnRoomInfo, LogicType, Tasks
  <2> QED BY <1>1, <1>6, <2>1 DEF OnRoomInfo, WsType, NetType, SrvType, LogicType, session, history, network
<1>7. CASE SetPingTimeout
  <2>1. WsType'
    BY <1>7 DEF SetPingTimeout, WsType, Timers
  <2>2. Sent("heartbeat") \in Seq(Messages) /\ wire \in Seq(Messages)
    BY SentType DEF Messages, NetType
  <2>3. wire' \in Seq(Messages)
    BY <1>7, <2>2 DEF SetPingTimeout
  <2> QED BY <1>1, <1>7, <2>1, <2>3 DEF SetPingTimeout, NetType, SrvType, LogicType, session, history
<1>8. CASE PongTimeout
  <2>1. ws \in [notified : BOOLEAN, lock : BOOLEAN, armed : SUBSET Timers, sid : Ids, conn : Ids]
    BY DEF WsType
  <2>2. ReconnectWebsocket(ws) /\ UNCHANGED <<sess, due, history, down>>
    BY <1>8 DEF PongTimeout
  <2> QED BY <1>0, <2>1, <2>2, ReconnectTypes
<1>9. CASE ReconnectTimer
  <2> DEFINE w == [ws EXCEPT !.lock = FALSE]
  <2>1. w \in [notified : BOOLEAN, lock : BOOLEAN, armed : SUBSET Timers, sid : Ids, conn : Ids]
    BY DEF WsType
  <2>2. ReconnectWebsocket(w) /\ UNCHANGED <<sess, due, history, down>>
    BY <1>9 DEF ReconnectTimer
  <2> HIDE DEF w
  <2> QED BY <1>0, <2>1, <2>2, ReconnectTypes
<1> QED BY <1>2, <1>3, <1>4, <1>5, <1>6, <1>7, <1>8, <1>9 DEF WsThread

LEMMA LogicTypes ==
    ASSUME Typed, LogicThread \/ MainThread PROVE Typed'
<1> USE DEF Typed
<1>1. CASE RunConnected \/ RunLogined \/ RunOutage \/ RunRoomNew \/ RunRoomDelete
  <2>1. queue # <<>> /\ queue' = Tail(queue)
    BY <1>1 DEF RunConnected, RunLogined, RunOutage, RunRoomNew, RunRoomDelete, Runs
  <2>2. queue' \in Seq(Tasks)
    BY <2>1 DEF LogicType
  <2>3. UNCHANGED <<ws, network, io, call, late, down>>
    BY <1>1 DEF RunConnected, RunLogined, RunOutage, RunRoomNew, RunRoomDelete, history
  <2>4. /\ outages' \in Nat /\ reset' \in BOOLEAN
        /\ sess' \in [state : {"Connecting", "Connected", "Reconnecting", "Logined"}, joined : BOOLEAN, retry : BOOLEAN]
    <3> USE DEF history, LogicType, Cleared
    <3>1. CASE RunConnected BY <3>1 DEF RunConnected
    <3>2. CASE RunLogined BY <3>2 DEF RunLogined
    <3>3. CASE RunOutage BY <3>3 DEF RunOutage
    <3>4. CASE RunRoomNew BY <3>4 DEF RunRoomNew
    <3>5. CASE RunRoomDelete BY <3>5 DEF RunRoomDelete
    <3> QED BY <1>1, <3>1, <3>2, <3>3, <3>4, <3>5
  <2> QED BY <2>2, <2>3, <2>4 DEF WsType, NetType, SrvType, LogicType, network
<1>2. CASE RequestBegins
  <2>1. call' \in [at : {"idle", "posted", "http", "done"}, sid : Ids, code : Codes]
    BY <1>2 DEF RequestBegins, WsType, Codes, Ids
  <2> QED BY <1>2, <2>1 DEF RequestBegins, WsType, NetType, SrvType, LogicType, network, history
<1>3. CASE RequestServed
  <2>1. UNCHANGED <<ws, link, io, queue, sess, history, down>>
    BY <1>3 DEF RequestServed
  <2>2. PICK code \in Codes : call' = [call EXCEPT !.at = "done", !.code = code]
    BY <1>3 DEF RequestServed, InRoomAlready, JoinRoom, OpenRoom, Answers, Codes
  <2>3. wire' = wire \/ wire' = Sent("new")
    BY <1>3 DEF RequestServed, InRoomAlready, JoinRoom, OpenRoom
  <2>4. wire' \in Seq(Messages)
    BY <2>3, SentType DEF Messages, NetType
  <2>5. call.sid \in Ids
    BY DEF LogicType
  <2>6. SrvType'
    BY <1>3, <2>5 DEF RequestServed, InRoomAlready, JoinRoom, OpenRoom, SrvType
  <2>7. WsType' /\ NetType'
    BY <2>1, <2>4 DEF WsType, NetType
  <2>8. call' \in [at : {"idle", "posted", "http", "done"}, sid : Ids, code : Codes]
    BY <2>2 DEF LogicType
  <2> QED BY <2>1, <2>6, <2>7, <2>8 DEF LogicType, history
<1>4. CASE RequestFails
  <2>1. UNCHANGED <<ws, network, io, queue, sess, history>>
    BY <1>4 DEF RequestFails, Answers, history, network
  <2>2. call' \in [at : {"idle", "posted", "http", "done"}, sid : Ids, code : Codes]
    BY <1>4 DEF RequestFails, Answers, Codes, LogicType
  <2>3. late' \in BOOLEAN /\ down' \in BOOLEAN
    BY <1>4 DEF RequestFails, Answers, LogicType, history
  <2> QED BY <2>1, <2>2, <2>3 DEF WsType, NetType, SrvType, LogicType, network, history
<1>5. CASE Tick
  BY <1>5 DEF Tick, WsType, NetType, SrvType, LogicType, network
<1>6. CASE IntervalPasses
  BY <1>6 DEF IntervalPasses, WsType, NetType, SrvType, LogicType, network, history
<1>7. CASE TickEnds
  <2>1. call' \in [at : {"idle", "posted", "http", "done"}, sid : Ids, code : Codes]
    BY <1>7 DEF TickEnds, Codes, Ids
  <2> QED BY <1>7, <2>1 DEF TickEnds, WsType, NetType, SrvType, LogicType, network
<1>8. CASE Shutdown
  <2>1. Sent("delete") \in Seq(Messages) /\ wire \in Seq(Messages)
    BY SentType DEF Messages, NetType
  <2>2. wire' \in Seq(Messages)
    BY <1>8, <2>1 DEF Shutdown, ServerLeaves
  <2>3. SrvType'
    BY <1>8 DEF Shutdown, ServerLeaves, SrvType, Ids
  <2>4. WsType'
    BY <1>8 DEF Shutdown, WsType, Ids
  <2>5. io' \in Seq(Completions) /\ queue' \in Seq(Tasks)
    BY <1>8, EmptySeq DEF Shutdown
  <2> QED BY <1>8, <2>2, <2>3, <2>4, <2>5 DEF Shutdown, NetType, LogicType, history
<1> QED BY <1>1, <1>2, <1>3, <1>4, <1>5, <1>6, <1>7, <1>8 DEF LogicThread, MainThread

LEMMA TypedStep == ASSUME Typed, [Next]_vars PROVE Typed'
<1>1. CASE UNCHANGED vars
  BY <1>1 DEF vars, network, session, history, bounds, Typed, WsType, NetType, SrvType, LogicType
<1> QED BY <1>1, NetworkTypes, WsTypes, LogicTypes DEF Next

LEMMA TypedStart == ASSUME Init PROVE Typed
<1>1. <<>> \in Seq(Messages) /\ <<>> \in Seq(Completions) /\ <<>> \in Seq(Tasks)
  BY EmptySeq
<1> QED BY <1>1 DEF Init, Typed, WsType, NetType, SrvType, LogicType, Ids, Codes

-----------------------------------------------------------------------------
(* One report of an outage.                                                 *)

\* With o reports heard, none is due when the first i - 1 tasks of q have run.
Clear(q, o, i) ==
    \/ \E j \in 1 .. i - 1 : q[j] = "connected" /\ \A k \in j .. i - 1 : q[k] # "outage"
    \/ o = 0 /\ \A k \in 1 .. i - 1 : q[k] # "outage"

\* Every report waiting comes when none is due, and none is due at the end of the
\* queue while the websocket thread has not notified the outage.
Reports ==
    /\ outages \in {0, 1}
    /\ ~ down => /\ \A i \in 1 .. Len(queue) : queue[i] = "outage" => Clear(queue, outages, i)
                 /\ ~ ws.notified => Clear(queue, outages, Len(queue) + 1)

LEMMA ClearMore ==
    ASSUME NEW q \in Seq(Tasks), NEW t \in Tasks, NEW o
    PROVE  /\ \A i \in 1 .. Len(q) + 1 : Clear(q, o, i) <=> Clear(Append(q, t), o, i)
           /\ t # "outage" /\ Clear(q, o, Len(q) + 1) => Clear(Append(q, t), o, Len(q) + 2)
           /\ t = "connected" => Clear(Append(q, t), o, Len(q) + 2)
<1> DEFINE n == Len(q)  r == Append(q, t)
<1>1. n \in Nat /\ Len(r) = n + 1 /\ r[n + 1] = t /\ \A i \in 1 .. n : r[i] = q[i]
  BY LenProperties
<1> HIDE DEF n, r
<1>2. ASSUME NEW i \in 1 .. n + 1 PROVE Clear(q, o, i) <=> Clear(r, o, i)
  <2>1. \A k \in 1 .. i - 1 : r[k] = q[k]
    BY <1>1
  <2>2. \A j \in 1 .. i - 1 : \A k \in j .. i - 1 : k \in 1 .. i - 1
    BY <1>1
  <2> QED BY <2>1, <2>2 DEF Clear
<1>3. ASSUME t # "outage", Clear(q, o, n + 1) PROVE Clear(r, o, n + 2)
  <2>1. CASE \E j \in 1 .. n : q[j] = "connected" /\ \A k \in j .. n : q[k] # "outage"
    <3>1. PICK j \in 1 .. n : q[j] = "connected" /\ \A k \in j .. n : q[k] # "outage"
      BY <2>1
    <3>2. j \in 1 .. (n + 2) - 1 /\ r[j] = "connected"
      BY <1>1, <3>1
    <3>3. \A k \in j .. (n + 2) - 1 : r[k] # "outage"
      <4> SUFFICES ASSUME NEW k \in j .. (n + 2) - 1 PROVE r[k] # "outage"
        OBVIOUS
      <4>1. k = n + 1 \/ (k \in j .. n /\ k \in 1 .. n)
        BY <1>1
      <4> QED BY <1>1, <1>3, <3>1, <4>1
    <3> QED BY <3>2, <3>3 DEF Clear
  <2>2. CASE o = 0 /\ \A k \in 1 .. n : q[k] # "outage"
    <3>1. \A k \in 1 .. (n + 2) - 1 : r[k] # "outage"
      <4> SUFFICES ASSUME NEW k \in 1 .. (n + 2) - 1 PROVE r[k] # "outage"
        OBVIOUS
      <4>1. k = n + 1 \/ k \in 1 .. n
        BY <1>1
      <4> QED BY <1>1, <1>3, <2>2, <4>1
    <3> QED BY <2>2, <3>1 DEF Clear
  <2>3. (n + 1) - 1 = n
    BY <1>1
  <2> QED BY <1>3, <2>1, <2>2, <2>3 DEF Clear
<1>4. ASSUME t = "connected" PROVE Clear(r, o, n + 2)
  <2>1. n + 1 \in 1 .. (n + 2) - 1 /\ r[n + 1] = "connected" /\ \A k \in (n + 1) .. (n + 2) - 1 : k = n + 1
    BY <1>1, <1>4
  <2>2. \A k \in (n + 1) .. (n + 2) - 1 : r[k] # "outage"
    BY <2>1
  <2> QED BY <2>1, <2>2 DEF Clear
<1> QED BY <1>2, <1>3, <1>4 DEF n, r

LEMMA ClearLess ==
    ASSUME NEW q \in Seq(Tasks), q # <<>>, NEW o, NEW u, NEW i \in 2 .. Len(q) + 1, Clear(q, o, i),
           Head(q) = "connected" => u = 0, Head(q) \notin {"connected", "outage"} => u = o
    PROVE  Clear(Tail(q), u, i - 1)
<1> DEFINE n == Len(q)  r == Tail(q)
<1>1. n \in Nat \ {0} /\ Head(q) = q[1] /\ \A k \in 1 .. n - 1 : r[k] = q[k + 1]
  BY EmptySeq, HeadTailProperties
<1> HIDE DEF n, r
<1> SUFFICES Clear(r, u, i - 1)
  BY DEF r
<1>i. i \in 2 .. n + 1 /\ i - 1 \in 1 .. n
  BY <1>1 DEF n
<1>2. \A k \in 1 .. (i - 1) - 1 : r[k] = q[k + 1] /\ k + 1 \in 1 .. i - 1
  BY <1>1, <1>i
<1>3. CASE \E j \in 1 .. i - 1 : q[j] = "connected" /\ \A k \in j .. i - 1 : q[k] # "outage"
  <2>1. PICK j \in 1 .. i - 1 : q[j] = "connected" /\ \A k \in j .. i - 1 : q[k] # "outage"
    BY <1>3
  <2>2. CASE j = 1
    <3>1. u = 0
      BY <1>1, <2>1, <2>2
    <3>2. ASSUME NEW k \in 1 .. (i - 1) - 1 PROVE r[k] # "outage"
      <4>1. k + 1 \in j .. i - 1
        BY <1>1, <1>i, <2>2
      <4> QED BY <1>2, <2>1, <4>1
    <3> QED BY <3>1, <3>2 DEF Clear
  <2>3. CASE j # 1
    <3>1. j - 1 \in 1 .. (i - 1) - 1 /\ (j - 1) + 1 = j
      BY <1>1, <1>i, <2>3
    <3>2. r[j - 1] = "connected"
      BY <1>2, <2>1, <3>1
    <3>3. ASSUME NEW k \in (j - 1) .. (i - 1) - 1 PROVE r[k] # "outage"
      <4>1. k \in 1 .. (i - 1) - 1 /\ k + 1 \in j .. i - 1
        BY <1>i, <3>1
      <4> QED BY <1>2, <2>1, <4>1
    <3> QED BY <3>1, <3>2, <3>3 DEF Clear
  <2> QED BY <2>2, <2>3
<1>4. CASE o = 0 /\ \A k \in 1 .. i - 1 : q[k] # "outage"
  <2>1. 1 \in 1 .. i - 1
    BY <1>i
  <2>2. q[1] # "outage"
    BY <1>4, <2>1
  <2>3. u = 0
    BY <1>1, <1>4, <2>2
  <2>4. \A k \in 1 .. (i - 1) - 1 : r[k] # "outage"
    BY <1>2, <1>4
  <2> QED BY <2>3, <2>4 DEF Clear
<1> QED BY <1>3, <1>4 DEF Clear

\* A task more, the queue with it q.
LEMMA ReportsMore ==
    ASSUME Typed, Reports, ~ down, NEW t \in Tasks, queue' = Append(queue, t), outages' = outages, down' = down,
           t = "outage" => ~ ws.notified /\ ws'.notified,
           t # "outage" /\ t # "connected" => ws'.notified = ws.notified
    PROVE  Reports'
<1> DEFINE n == Len(queue)
<1>1. queue \in Seq(Tasks) /\ n \in Nat /\ Len(queue') = n + 1 /\ queue'[n + 1] = t
      /\ \A i \in 1 .. n : queue'[i] = queue[i]
  BY LenProperties DEF Typed, LogicType
<1> HIDE DEF n
<1>2. /\ \A i \in 1 .. n : queue[i] = "outage" => Clear(queue, outages, i)
      /\ ~ ws.notified => Clear(queue, outages, n + 1)
  BY DEF Reports, n
<1>3. /\ \A i \in 1 .. n + 1 : Clear(queue, outages, i) <=> Clear(queue', outages, i)
      /\ t # "outage" /\ Clear(queue, outages, n + 1) => Clear(queue', outages, n + 2)
      /\ t = "connected" => Clear(queue', outages, n + 2)
  BY <1>1, ClearMore DEF n
<1>4. ASSUME NEW i \in 1 .. n + 1, queue'[i] = "outage" PROVE Clear(queue', outages, i)
  <2>1. CASE i \in 1 .. n
    BY <1>1, <1>2, <1>3, <1>4, <2>1
  <2>2. CASE i = n + 1
    BY <1>1, <1>2, <1>3, <1>4, <2>2
  <2> QED BY <1>1, <2>1, <2>2
<1>5. ~ ws'.notified => Clear(queue', outages, n + 2)
  BY <1>2, <1>3
<1>6. Len(queue') + 1 = n + 2
  BY <1>1
<1> QED BY <1>1, <1>4, <1>5, <1>6 DEF Reports

\* A task less: the reports heard are told apart by what it was.
LEMMA ReportsLess ==
    ASSUME Typed, Reports, ~ down, queue # <<>>, queue' = Tail(queue), down' = down, ws' = ws,
           Head(queue) = "connected" => outages' = 0,
           Head(queue) = "outage" => outages' = IF outages > 1 THEN outages ELSE outages + 1,
           Head(queue) \notin {"connected", "outage"} => outages' = outages
    PROVE  Reports'
<1> DEFINE n == Len(queue)
<1>1. /\ queue \in Seq(Tasks) /\ n \in Nat \ {0} /\ Len(queue') = n - 1 /\ Head(queue) = queue[1]
      /\ \A i \in 1 .. n - 1 : queue'[i] = queue[i + 1]
  BY EmptySeq, HeadTailProperties DEF Typed, LogicType
<1> HIDE DEF n
<1>2. /\ \A i \in 1 .. n : queue[i] = "outage" => Clear(queue, outages, i)
      /\ ~ ws.notified => Clear(queue, outages, n + 1)
  BY DEF Reports, n
<1>3. ASSUME NEW i \in 2 .. n + 1, Clear(queue, outages, i) PROVE Clear(queue', outages', i - 1)
  <2>1. i \in 2 .. Len(queue) + 1
    BY DEF n
  <2> QED BY <1>1, <1>3, <2>1, ClearLess
<1>4. outages' \in {0, 1}
  <2>1. CASE Head(queue) = "outage"
    <3>1. 1 \in 1 .. n /\ queue[1] = "outage"
      BY <1>1, <2>1
    <3>2. Clear(queue, outages, 1)
      BY <1>2, <3>1
    <3>3. outages = 0
      BY <3>2 DEF Clear
    <3> QED BY <2>1, <3>3
  <2> QED BY <2>1 DEF Reports
<1>5. ASSUME NEW i \in 1 .. n - 1, queue'[i] = "outage" PROVE Clear(queue', outages', i)
  <2>1. i + 1 \in 1 .. n /\ i + 1 \in 2 .. n + 1 /\ (i + 1) - 1 = i /\ queue[i + 1] = "outage"
    BY <1>1, <1>5
  <2>2. Clear(queue', outages', (i + 1) - 1)
    BY <1>2, <1>3, <2>1
  <2> QED BY <2>1, <2>2
<1>6. ASSUME ~ ws'.notified PROVE Clear(queue', outages', n)
  <2>1. n + 1 \in 2 .. n + 1 /\ (n + 1) - 1 = n
    BY <1>1
  <2>2. Clear(queue', outages', (n + 1) - 1)
    BY <1>2, <1>3, <1>6, <2>1
  <2> QED BY <2>1, <2>2
<1>7. Len(queue') = n - 1 /\ Len(queue') + 1 = n
  BY <1>1
<1> QED BY <1>4, <1>5, <1>6, <1>7 DEF Reports

LEMMA ReconnectReports ==
    ASSUME Typed, Reports, NEW w \in [notified : BOOLEAN, lock : BOOLEAN, armed : SUBSET Timers, sid : Ids, conn : Ids],
           w.notified = ws.notified, ~ down, ReconnectWebsocket(w), UNCHANGED <<outages, down>>
    PROVE  Reports'
<1>1. CASE w.notified
  <2>1. queue' = queue /\ ws'.notified
    BY <1>1 DEF ReconnectWebsocket
  <2> QED BY <1>1, <2>1 DEF Reports, Clear
<1>2. CASE ~ w.notified
  <2>1. queue' = Append(queue, "outage") /\ ws'.notified
    BY <1>2 DEF ReconnectWebsocket
  <2> QED BY <1>2, <2>1, ReportsMore DEF Tasks
<1> QED BY <1>1, <1>2

LEMMA ReportsStep == ASSUME Typed, Reports, [Next]_vars PROVE Reports'
\* The actions that leave the queue and what is said of the outage alone.
<1>s. ASSUME UNCHANGED <<queue, outages, down>>, ws'.notified = ws.notified PROVE Reports'
  BY <1>s DEF Reports, Clear
<1>w. ws \in [notified : BOOLEAN, lock : BOOLEAN, armed : SUBSET Timers, sid : Ids, conn : Ids]
  BY DEF Typed, WsType
<1>1. CASE Network \/ Server \/ UNCHANGED vars
  <2>1. UNCHANGED <<queue, outages, down, ws>>
    BY <1>1 DEF Network, Server, NetOpen, NetDeliver, NetFail, NetMute, ServerDrop, OtherOpens, OtherCloses,
                vars, session, history
  <2> QED BY <1>s, <2>1
<1>2. CASE \E t \in Timers : TimerExpires(t)
  <2>1. UNCHANGED <<queue, outages, down>> /\ \E a : ws' = [ws EXCEPT !.armed = a]
    BY <1>2 DEF TimerExpires, session, history
  <2> QED BY <1>s, <1>w, <2>1
<1>3. CASE OnOpen
  <2>1. queue' = Append(queue, "connected") /\ UNCHANGED <<outages, down>> /\ ~ down
    BY <1>3 DEF OnOpen, Completes, session, history
  <2> QED BY <2>1, ReportsMore DEF Tasks
<1>4. CASE OnError
  <2>1. ReconnectWebsocket(ws) /\ ~ down /\ UNCHANGED <<outages, down>>
    BY <1>4 DEF OnError, Completes, history
  <2> QED BY <1>w, <2>1, ReconnectReports
<1>5. CASE OnHeartbeat
  <2>1. UNCHANGED <<queue, outages, down>> /\ ws'.notified = ws.notified
    BY <1>5, <1>w DEF OnHeartbeat, session, history
  <2> QED BY <1>s, <2>1
<1>6. CASE OnLogin
  <2>1. queue' = Append(queue, "logined") /\ UNCHANGED <<outages, down>> /\ ~ down /\ ws'.notified = ws.notified
    BY <1>6, <1>w DEF OnLogin, Completes, session, history
  <2> QED BY <2>1, ReportsMore DEF Tasks
<1>7. CASE \E op \in {"new", "delete"} : OnRoomInfo(op)
  <2>1. PICK op \in {"new", "delete"} : OnRoomInfo(op)
    BY <1>7
  <2>2. queue' = Append(queue, op) /\ UNCHANGED <<outages, down, ws>> /\ ~ down
    BY <2>1 DEF OnRoomInfo, Completes, session, history
  <2> QED BY <2>2, ReportsMore DEF Tasks
<1>8. CASE SetPingTimeout
  <2>1. UNCHANGED <<queue, outages, down>> /\ ws'.notified = ws.notified
    BY <1>8, <1>w DEF SetPingTimeout, session, history
  <2> QED BY <1>s, <2>1
<1>9. CASE PongTimeout
  <2>1. ReconnectWebsocket(ws) /\ ~ down /\ UNCHANGED <<outages, down>>
    BY <1>9 DEF PongTimeout, Completes, history
  <2> QED BY <1>w, <2>1, ReconnectReports
<1>10. CASE ReconnectTimer
  <2> DEFINE w == [ws EXCEPT !.lock = FALSE]
  <2>1. w \in [notified : BOOLEAN, lock : BOOLEAN, armed : SUBSET Timers, sid : Ids, conn : Ids] /\ w.notified = ws.notified
    BY <1>w
  <2>2. ReconnectWebsocket(w) /\ ~ down /\ UNCHANGED <<outages, down>>
    BY <1>10 DEF ReconnectTimer, Completes, history
  <2> HIDE DEF w
  <2> QED BY <2>1, <2>2, ReconnectReports
<1>11. CASE RunConnected \/ RunLogined \/ RunOutage \/ RunRoomNew \/ RunRoomDelete
  <2>1. /\ ~ down /\ queue # <<>> /\ queue' = Tail(queue) /\ down' = down /\ ws' = ws
        /\ Head(queue) = "connected" => outages' = 0
        /\ Head(queue) = "outage" => outages' = IF outages > 1 THEN outages ELSE outages + 1
        /\ Head(queue) \notin {"connected", "outage"} => outages' = outages
    BY <1>11 DEF RunConnected, RunLogined, RunOutage, RunRoomNew, RunRoomDelete, Runs, LogicFree, history
  <2> QED BY <2>1, ReportsLess
<1>12. CASE RequestBegins \/ RequestServed \/ RequestFails \/ Tick \/ IntervalPasses \/ TickEnds
  <2>1. UNCHANGED <<queue, outages, down, ws>>
    BY <1>12 DEF RequestBegins, RequestServed, RequestFails, Tick, IntervalPasses, TickEnds, history
  <2> QED BY <1>s, <2>1
<1>13. CASE Shutdown
  BY <1>13 DEF Shutdown, Reports, history
<1> QED BY <1>1, <1>2, <1>3, <1>4, <1>5, <1>6, <1>7, <1>8, <1>9, <1>10, <1>11, <1>12, <1>13
        DEF Next, WsThread, LogicThread, MainThread

\* However many attempts an outage takes and however late its report is run, the
\* application hears of it once before it hears of a connection again.
THEOREM OutagesReportedOnce == Spec => []OneOutageReport
<1>1. Init => Typed /\ Reports
  <2> SUFFICES ASSUME Init PROVE Typed /\ Reports
    OBVIOUS
  <2>1. outages = 0 /\ queue = <<>>
    BY DEF Init
  <2> QED BY <2>1, TypedStart DEF Reports, Clear
<1>2. Typed /\ Reports /\ [Next]_vars => (Typed /\ Reports)'
  BY TypedStep, ReportsStep
<1>3. Reports => OneOutageReport
  BY DEF Reports, OneOutageReport
<1> QED BY <1>1, <1>2, <1>3, PTL DEF Spec

-----------------------------------------------------------------------------
(* The room an RtcSession says it is in.                                    *)

Has(q, x) == \E j \in 1 .. Len(q) : q[j] = x
Follows(q, X, y) == \A k \in 1 .. Len(q) : q[k] \in X => \E j \in 1 .. Len(q) : j > k /\ q[j] = y

LEMMA HasMore ==
    ASSUME NEW S, NEW q \in Seq(S), NEW t \in S, NEW x PROVE Has(Append(q, t), x) <=> Has(q, x) \/ t = x
<1> DEFINE n == Len(q)  r == Append(q, t)
<1>1. n \in Nat /\ Len(r) = n + 1 /\ r[n + 1] = t /\ \A i \in 1 .. n : r[i] = q[i]
  BY LenProperties
<1> HIDE DEF n, r
<1>2. \A j \in 1 .. n + 1 : j = n + 1 \/ j \in 1 .. n
  BY <1>1
<1>3. (\E j \in 1 .. n + 1 : r[j] = x) <=> (\E j \in 1 .. n : q[j] = x) \/ t = x
  BY <1>1, <1>2
<1> QED BY <1>1, <1>3 DEF Has, n, r

LEMMA HasLess ==
    ASSUME NEW S, NEW q \in Seq(S), q # <<>>, NEW x PROVE Has(q, x) <=> Head(q) = x \/ Has(Tail(q), x)
<1> DEFINE n == Len(q)  r == Tail(q)
<1>1. n \in Nat \ {0} /\ Len(r) = n - 1 /\ Head(q) = q[1] /\ \A i \in 1 .. n - 1 : r[i] = q[i + 1]
  BY EmptySeq, HeadTailProperties
<1> HIDE DEF n, r
<1>2. \A j \in 1 .. n : j = 1 \/ (j - 1 \in 1 .. n - 1 /\ (j - 1) + 1 = j)
  BY <1>1
<1>3. \A j \in 1 .. n - 1 : j + 1 \in 1 .. n
  BY <1>1
<1>4. ASSUME NEW j \in 1 .. n, q[j] = x PROVE q[1] = x \/ \E i \in 1 .. n - 1 : r[i] = x
  <2>1. CASE j = 1 BY <1>4, <2>1
  <2>2. CASE j - 1 \in 1 .. n - 1 /\ (j - 1) + 1 = j
    <3>1. r[j - 1] = x
      BY <1>1, <1>4, <2>2
    <3> QED BY <2>2, <3>1
  <2> QED BY <1>2, <2>1, <2>2
<1>5. ASSUME NEW j \in 1 .. n - 1, r[j] = x PROVE \E i \in 1 .. n : q[i] = x
  BY <1>1, <1>3, <1>5
<1>6. 1 \in 1 .. n
  BY <1>1
<1>7. (\E j \in 1 .. n : q[j] = x) <=> (Head(q) = x \/ \E j \in 1 .. n - 1 : r[j] = x)
  BY <1>1, <1>4, <1>5, <1>6
<1> QED BY <1>1, <1>7 DEF Has, n, r

LEMMA FollowsMore ==
    ASSUME NEW S, NEW q \in Seq(S), NEW t \in S, NEW X, NEW y, t \notin X, Follows(q, X, y) \/ t = y
    PROVE  Follows(Append(q, t), X, y)
<1> DEFINE n == Len(q)  r == Append(q, t)
<1>1. n \in Nat /\ Len(r) = n + 1 /\ r[n + 1] = t /\ \A i \in 1 .. n : r[i] = q[i]
  BY LenProperties
<1> HIDE DEF n, r
<1> SUFFICES ASSUME NEW k \in 1 .. n + 1, r[k] \in X PROVE \E j \in 1 .. n + 1 : j > k /\ r[j] = y
  BY <1>1 DEF Follows, r
<1>2. k \in 1 .. n
  BY <1>1
<1>3. q[k] \in X
  BY <1>1, <1>2
<1>4. CASE Follows(q, X, y)
  <2>1. PICK j \in 1 .. n : j > k /\ q[j] = y
    BY <1>2, <1>3, <1>4 DEF Follows, n
  <2>2. j \in 1 .. n + 1 /\ r[j] = y
    BY <1>1, <2>1
  <2> QED BY <2>1, <2>2
<1>5. CASE t = y
  <2>1. n + 1 \in 1 .. n + 1 /\ n + 1 > k /\ r[n + 1] = y
    BY <1>1, <1>2, <1>5
  <2> QED BY <2>1
<1> QED BY <1>4, <1>5

LEMMA FollowsLess ==
    ASSUME NEW S, NEW q \in Seq(S), q # <<>>, NEW X, NEW y, Follows(q, X, y)
    PROVE  Follows(Tail(q), X, y) /\ (Head(q) \in X => Has(Tail(q), y))
<1> DEFINE n == Len(q)  r == Tail(q)
<1>1. n \in Nat \ {0} /\ Len(r) = n - 1 /\ Head(q) = q[1] /\ \A i \in 1 .. n - 1 : r[i] = q[i + 1]
  BY EmptySeq, HeadTailProperties
<1> HIDE DEF n, r
<1>2. ASSUME NEW k \in 1 .. n, q[k] \in X PROVE \E i \in 1 .. n - 1 : i + 1 > k /\ r[i] = y
  <2>1. PICK j \in 1 .. n : j > k /\ q[j] = y
    BY <1>2 DEF Follows, n
  <2>2. j - 1 \in 1 .. n - 1 /\ (j - 1) + 1 = j
    BY <1>1, <2>1
  <2>3. r[j - 1] = y
    BY <1>1, <2>1, <2>2
  <2> QED BY <2>1, <2>2, <2>3
<1>3. ASSUME NEW k \in 1 .. n - 1, r[k] \in X PROVE \E i \in 1 .. n - 1 : i > k /\ r[i] = y
  <2>1. k + 1 \in 1 .. n /\ q[k + 1] \in X
    BY <1>1, <1>3
  <2>2. PICK i \in 1 .. n - 1 : i + 1 > k + 1 /\ r[i] = y
    BY <1>2, <2>1
  <2>3. i > k
    BY <2>2
  <2> QED BY <2>2, <2>3
<1>4. ASSUME q[1] \in X PROVE \E i \in 1 .. n - 1 : r[i] = y
  <2>1. 1 \in 1 .. n
    BY <1>1
  <2> QED BY <1>2, <1>4, <2>1
<1>5. Follows(r, X, y)
  BY <1>1, <1>3 DEF Follows
<1>6. Head(q) \in X => Has(r, y)
  BY <1>1, <1>4 DEF Has
<1> QED BY <1>5, <1>6 DEF r

\* The opening of the connection in use is on its way to the websocket thread,
\* and the closing of the room on its way to RtcSession.
Opening == Has(io, Ready("open", "cur"))
Closing == Has(wire, "delete") \/ Has(io, Ready("delete", "cur")) \/ Has(queue, "delete")
InRoom == "cur" \in srv.members \/ Closing

\* The logins of earlier connections come before the opening of this one, in the
\* completions and in what RtcSession hears.
Strays == {c \in Completions : c.kind = "login" /\ c.of # "cur"}
Following ==
    /\ Follows(io, Strays, Ready("open", "cur"))
    /\ ws.lock => Opening
    /\ ws.sid = "cur" \/ Opening \/ Follows(queue, {"logined"}, "connected")

\* Once RtcSession has heard of the connection, what it does it does with the
\* session of this connection.
Current ==
    /\ sess.state = "Logined" => ws.sid = "cur"
    /\ call.at # "idle" /\ ~ reset => ws.sid = "cur"
    /\ call.at = "http" /\ ~ reset => call.sid = "cur"
    /\ call.at = "done" /\ Entered(call.code) /\ ~ reset => InRoom
    /\ sess.joined /\ ~ late => InRoom

Heard == Opening \/ Has(queue, "connected") \/ Current

Truth ==
    /\ sess.joined => call.at = "idle"
    /\ link = "open" => Following /\ Heard

LEMMA Seqs ==
    ASSUME Typed
    PROVE  io \in Seq(Completions) /\ wire \in Seq(Messages) /\ queue \in Seq(Tasks)
           /\ ws \in [notified : BOOLEAN, lock : BOOLEAN, armed : SUBSET Timers, sid : Ids, conn : Ids]
           /\ sess \in [state : {"Connecting", "Connected", "Reconnecting", "Logined"}, joined : BOOLEAN, retry : BOOLEAN]
           /\ call \in [at : {"idle", "posted", "http", "done"}, sid : Ids, code : Codes]
           /\ srv \in [host : Ids \cup {"other"}, members : SUBSET Ids]
           /\ reset \in BOOLEAN /\ late \in BOOLEAN
BY DEF Typed, WsType, NetType, SrvType, LogicType

LEMMA SentMore ==
    ASSUME Typed, NEW m \in Messages
    PROVE  /\ Has(wire, "delete") => Has(Sent(m), "delete")
           /\ link = "open" => Has(Sent("delete"), "delete")
<1>1. Has(Append(wire, m), "delete") <=> Has(wire, "delete") \/ m = "delete"
  BY Seqs, HasMore
<1>2. Has(Append(wire, "delete"), "delete")
  <2>1. "delete" \in Messages
    BY DEF Messages
  <2> QED BY <2>1, Seqs, HasMore
<1> QED BY <1>1, <1>2 DEF Sent

\* What RtcSession knows stands when nothing it goes by changes.
LEMMA HeardStands ==
    ASSUME Heard, UNCHANGED <<sess, call, reset, late>>, ws'.sid = ws.sid, Opening => Opening',
           Has(queue, "connected") => Has(queue', "connected"), InRoom => InRoom'
    PROVE  Heard'
<1>1. Has(queue, "connected") => Has(queue, "connected")'
  BY DEF Has
<1> QED BY <1>1 DEF Heard, Current

LEMMA NetworkTruth ==
    ASSUME Typed, Truth, Network \/ Server \/ \E t \in Timers : TimerExpires(t) PROVE Truth'
<1>0. /\ io \in Seq(Completions) /\ wire \in Seq(Messages) /\ queue \in Seq(Tasks)
      /\ ws \in [notified : BOOLEAN, lock : BOOLEAN, armed : SUBSET Timers, sid : Ids, conn : Ids]
      /\ srv \in [host : Ids \cup {"other"}, members : SUBSET Ids]
  BY Seqs
<1>1. UNCHANGED <<sess, call, queue, reset, late>> /\ ws'.sid = ws.sid /\ ws'.lock = ws.lock
  BY <1>0 DEF Network, Server, NetOpen, NetDeliver, NetFail, NetMute, ServerDrop, OtherOpens, OtherCloses,
              TimerExpires, session, history
<1>2. sess'.joined => call'.at = "idle"
  BY <1>1 DEF Truth
\* The completions wait for one more, if any: another connection's login never.
<1>3. ASSUME link = "open", io' = io \/ \E e \in Completions \ Strays : io' = Append(io, e), InRoom => InRoom'
      PROVE  Truth'
  <2>1. Following /\ Heard
    BY <1>3 DEF Truth
  <2>2. (Opening => Opening') /\ Follows(io', Strays, Ready("open", "cur"))
    <3>1. CASE io' = io
      BY <2>1, <3>1 DEF Opening, Following, Has
    <3>2. CASE \E e \in Completions \ Strays : io' = Append(io, e)
      <4>1. PICK e \in Completions \ Strays : io' = Append(io, e)
        BY <3>2
      <4>2. Has(io, Ready("open", "cur")) => Has(io', Ready("open", "cur"))
        BY <1>0, <4>1, HasMore
      <4>3. Opening' <=> Has(io', Ready("open", "cur"))
        BY DEF Opening, Has, Ready
      <4>4. Follows(io', Strays, Ready("open", "cur"))
        BY <1>0, <2>1, <4>1, FollowsMore DEF Following
      <4> QED BY <4>2, <4>3, <4>4 DEF Opening
    <3> QED BY <1>3, <3>1, <3>2
  <2>3. Following'
    <3>1. Follows(io, Strays, Ready("open", "cur"))' /\ (Follows(queue, {"logined"}, "connected") => Follows(queue, {"logined"}, "connected")')
      BY <1>1, <2>2 DEF Follows, Strays, Ready
    <3> QED BY <1>1, <2>1, <2>2, <3>1 DEF Following
  <2>4. Heard'
    BY <1>1, <1>3, <2>1, <2>2, HeardStands
  <2> QED BY <1>2, <2>3, <2>4 DEF Truth
<1>4. CASE NetOpen
  <2> DEFINE e == Ready("open", "cur")
  <2>1. e \in Completions /\ e \notin Strays /\ io' = Append(io, e)
    BY <1>4 DEF NetOpen, Ready, Completions, Ids, Strays
  <2>2. Has(io', e) /\ Follows(io', Strays, e)
    BY <1>0, <2>1, HasMore, FollowsMore
  <2>3. Opening' /\ Follows(io, Strays, e)'
    BY <2>2 DEF Opening, Has, Ready, Follows, Strays
  <2> QED BY <1>2, <2>3 DEF Truth, Following, Heard
<1>5. CASE NetDeliver
  <2> SUFFICES ASSUME link = "open" PROVE Truth'
    BY <1>2, <1>5 DEF Truth, NetDeliver
  <2> DEFINE m == Head(wire)  e == Ready(Head(wire), "cur")
  <2>1. m \in Messages /\ wire # <<>> /\ wire' = Tail(wire) /\ io' = Append(io, e) /\ srv' = srv
    BY <1>0, <1>5 DEF NetDeliver
  <2>2. e \in Completions /\ e \notin Strays
    BY <2>1 DEF Ready, Completions, Ids, Strays
  <2>3. Has(wire, "delete") => m = "delete" \/ Has(wire', "delete")
    BY <1>0, <2>1, HasLess
  <2>4. Has(io', Ready("delete", "cur")) <=> Has(io, Ready("delete", "cur")) \/ e = Ready("delete", "cur")
    BY <1>0, <2>1, <2>2, HasMore
  <2>5. m = "delete" => e = Ready("delete", "cur")
    OBVIOUS
  <2> HIDE DEF e, m
  <2>6. Closing => Has(wire', "delete") \/ Has(io', Ready("delete", "cur")) \/ Has(queue, "delete")
    BY <2>3, <2>4, <2>5 DEF Closing
  <2>7. Closing => Closing'
    BY <1>1, <2>6 DEF Closing, Has, Ready
  <2> QED BY <1>3, <2>1, <2>2, <2>7 DEF InRoom
<1>6. CASE NetFail \/ NetMute
  BY <1>2, <1>6 DEF NetFail, NetMute, Truth
\* The server's messages only.
<1>7. ASSUME link' = link, io' = io, \E m \in Messages : wire' = wire \/ wire' = Sent(m),
             "cur" \in srv.members /\ link = "open" => "cur" \in srv'.members \/ Has(wire', "delete")
      PROVE  Truth'
  <2> SUFFICES ASSUME link = "open" PROVE Truth'
    BY <1>2, <1>7 DEF Truth
  <2>1. Has(wire, "delete") => Has(wire', "delete")
    BY <1>7, SentMore
  <2>2. Closing' <=> Has(wire', "delete") \/ Has(io, Ready("delete", "cur")) \/ Has(queue, "delete")
    BY <1>1, <1>7 DEF Closing, Has, Ready
  <2>3. InRoom => InRoom'
    BY <1>7, <2>1, <2>2 DEF InRoom, Closing
  <2> QED BY <1>3, <1>7, <2>3
<1>8. CASE ServerDrop
  <2>1. link' = link /\ io' = io /\ ServerLeaves("old")
    BY <1>8 DEF ServerDrop
  <2>2. "delete" \in Messages /\ (wire' = wire \/ wire' = Sent("delete"))
    BY <2>1 DEF ServerLeaves, Messages
  <2>3. "cur" \in srv.members /\ link = "open" => "cur" \in srv'.members \/ Has(wire', "delete")
    BY <1>0, <2>1, <2>2, SentMore DEF ServerLeaves
  <2> QED BY <1>7, <2>1, <2>2, <2>3
<1>9. CASE OtherOpens
  <2>1. link' = link /\ io' = io /\ wire' = Sent("new") /\ srv'.members = srv.members /\ "new" \in Messages
    BY <1>0, <1>9 DEF OtherOpens, Messages
  <2> QED BY <1>7, <2>1
<1>10. CASE OtherCloses
  <2>1. link' = link /\ io' = io /\ wire' = Sent("delete") /\ "delete" \in Messages
    BY <1>10 DEF OtherCloses, Messages
  <2>2. link = "open" => Has(wire', "delete")
    BY <2>1, SentMore
  <2> QED BY <1>7, <2>1, <2>2
<1>11. CASE \E t \in Timers : TimerExpires(t)
  <2> SUFFICES ASSUME link = "open" PROVE Truth'
    BY <1>2, <1>11 DEF Truth, TimerExpires, network
  <2>1. PICK t \in Timers : TimerExpires(t)
    BY <1>11
  <2> DEFINE e == Ready(t, "timer")
  <2>2. e \in Completions /\ e \notin Strays /\ io' = Append(io, e) /\ UNCHANGED <<wire, srv>>
    BY <2>1 DEF TimerExpires, network, Ready, Completions, Ids, Strays, Timers
  <2>3. Has(io, Ready("delete", "cur")) => Has(io', Ready("delete", "cur"))
    BY <1>0, <2>2, HasMore
  <2> HIDE DEF e
  <2>4. Closing' <=> Has(wire, "delete") \/ Has(io', Ready("delete", "cur")) \/ Has(queue, "delete")
    BY <1>1, <2>2 DEF Closing, Has, Ready
  <2>5. InRoom => InRoom'
    BY <2>2, <2>3, <2>4 DEF InRoom, Closing
  <2> QED BY <1>3, <2>2, <2>5
<1> QED BY <1>4, <1>5, <1>6, <1>8, <1>9, <1>10, <1>11 DEF Network, Server

\* The completion at the head of io runs, and posts at most a task.
LEMMA HeadRuns ==
    ASSUME Typed, Truth, link = "open", io # <<>>, io' = Tail(io), Head(io) # Ready("open", "cur")
    PROVE  /\ Opening => Opening'
           /\ Follows(io, Strays, Ready("open", "cur"))'
           /\ Head(io) \in Strays => Opening'
           /\ Head(io) # Ready("delete", "cur") /\ Has(io, Ready("delete", "cur")) => Has(io', Ready("delete", "cur"))
<1>1. io \in Seq(Completions) /\ Follows(io, Strays, Ready("open", "cur"))
  BY Seqs DEF Truth, Following
<1> DEFINE y == Ready("open", "cur")
<1>2. /\ Has(io, y) => Head(io) = y \/ Has(Tail(io), y)
      /\ Has(io, Ready("delete", "cur")) => Head(io) = Ready("delete", "cur") \/ Has(Tail(io), Ready("delete", "cur"))
  BY <1>1, HasLess
<1>3. Follows(Tail(io), Strays, y) /\ (Head(io) \in Strays => Has(Tail(io), y))
  BY <1>1, FollowsLess
<1>4. Opening' <=> Has(Tail(io), y)
  BY DEF Opening, Has, Ready
<1>5. Follows(io, Strays, Ready("open", "cur"))' <=> Follows(Tail(io), Strays, y)
  BY DEF Follows, Strays, Ready
<1> QED BY <1>2, <1>3, <1>4, <1>5 DEF Opening

LEMMA QueueMore ==
    ASSUME Typed, NEW t \in Tasks, queue' = Append(queue, t)
    PROVE  /\ Has(queue, "connected") => Has(queue', "connected")
           /\ Has(queue, "delete") => Has(queue', "delete")
           /\ t = "connected" => Has(queue', "connected")
           /\ t = "delete" => Has(queue', "delete")
           /\ t # "logined" /\ (t = "connected" \/ Follows(queue, {"logined"}, "connected"))
                 => Follows(queue, {"logined"}, "connected")'
<1>1. queue \in Seq(Tasks)
  BY Seqs
<1>2. \A x : Has(queue', x) <=> Has(queue, x) \/ t = x
  BY <1>1, HasMore
<1>3. ASSUME t # "logined", t = "connected" \/ Follows(queue, {"logined"}, "connected")
      PROVE  Follows(queue', {"logined"}, "connected")
  <2>1. t \notin {"logined"}
    BY <1>3
  <2> QED BY <1>1, <1>3, <2>1, FollowsMore
<1>4. Follows(queue, {"logined"}, "connected")' <=> Follows(queue', {"logined"}, "connected")
  BY DEF Follows
<1> QED BY <1>2, <1>3, <1>4

\* A reconnect under way leaves the connection to be opened; a new one is dialled.
LEMMA ReconnectTruth ==
    ASSUME Typed, Truth, NEW w \in [notified : BOOLEAN, lock : BOOLEAN, armed : SUBSET Timers, sid : Ids, conn : Ids],
           w.lock => ws.lock, io # <<>>, Head(io).kind \in {"error", "pong", "recon"},
           ReconnectWebsocket(w), UNCHANGED <<sess, reset, late>>
    PROVE  Truth'
<1>1. sess'.joined => call'.at = "idle"
  <2>1. call \in [at : {"idle", "posted", "http", "done"}, sid : Ids, code : Codes]
    BY Seqs
  <2>2. call'.at = call.at
    BY <2>1 DEF ReconnectWebsocket, AgeCall
  <2> QED BY <2>2 DEF Truth
<1>2. CASE ~ w.lock
  <2>1. link' = "dialing"
    BY <1>2 DEF ReconnectWebsocket
  <2> QED BY <1>1, <2>1 DEF Truth
<1>3. CASE w.lock
  <2>1. UNCHANGED network /\ io' = Tail(io) /\ (queue' = queue \/ queue' = Append(queue, "outage"))
    BY <1>3 DEF ReconnectWebsocket
  <2> SUFFICES ASSUME link = "open" PROVE Truth'
    BY <1>1, <2>1 DEF Truth, network
  <2>2. Opening /\ Following
    BY <1>3 DEF Truth, Following
  <2>3. Head(io) # Ready("open", "cur")
    BY DEF Ready
  <2>4. Opening' /\ Follows(io, Strays, Ready("open", "cur"))'
    BY <2>1, <2>2, <2>3, HeadRuns
  <2> QED BY <1>1, <2>4 DEF Truth, Following, Heard
<1> QED BY <1>2, <1>3

LEMMA WsTruth ==
    ASSUME Typed, Truth, WsThread PROVE Truth'
<1>0. /\ io \in Seq(Completions) /\ wire \in Seq(Messages) /\ queue \in Seq(Tasks)
      /\ ws \in [notified : BOOLEAN, lock : BOOLEAN, armed : SUBSET Timers, sid : Ids, conn : Ids]
  BY Seqs
<1>1. CASE OnError
  <2>1. io # <<>> /\ Head(io).kind = "error" /\ ReconnectWebsocket(ws) /\ UNCHANGED <<sess, reset, late>>
    BY <1>1 DEF OnError, Completes, history
  <2> QED BY <1>0, <2>1, ReconnectTruth
<1>2. CASE PongTimeout
  <2>1. io # <<>> /\ Head(io).kind = "pong" /\ ReconnectWebsocket(ws) /\ UNCHANGED <<sess, reset, late>>
    BY <1>2 DEF PongTimeout, Completes, history
  <2> QED BY <1>0, <2>1, ReconnectTruth
<1>3. CASE ReconnectTimer
  <2> DEFINE w == [ws EXCEPT !.lock = FALSE]
  <2>1. /\ io # <<>> /\ Head(io).kind = "recon" /\ ReconnectWebsocket(w) /\ UNCHANGED <<sess, reset, late>>
    BY <1>3 DEF ReconnectTimer, Completes, history
  <2>2. w \in [notified : BOOLEAN, lock : BOOLEAN, armed : SUBSET Timers, sid : Ids, conn : Ids] /\ ~ w.lock
    BY <1>0
  <2> HIDE DEF w
  <2> QED BY <2>1, <2>2, ReconnectTruth
<1> SUFFICES ASSUME OnOpen \/ OnHeartbeat \/ OnLogin \/ (\E op \in {"new", "delete"} : OnRoomInfo(op)) \/ SetPingTimeout
             PROVE  Truth'
  BY <1>1, <1>2, <1>3 DEF WsThread
<1>4. /\ io # <<>> /\ io' = Tail(io) /\ UNCHANGED <<sess, call, reset, late, link, srv>>
      /\ \/ wire' = wire
         \/ wire' = Sent("heartbeat")
  BY DEF OnOpen, OnHeartbeat, OnLogin, OnRoomInfo, SetPingTimeout, Completes, network, session, history
<1>5. sess'.joined => call'.at = "idle"
  BY <1>4 DEF Truth
<1> SUFFICES ASSUME link = "open" PROVE Truth'
  BY <1>4, <1>5 DEF Truth
<1>6. Following /\ Heard
  BY DEF Truth
<1>7. CASE OnOpen
  <2>1. queue' = Append(queue, "connected") /\ ws'.lock = FALSE /\ "connected" \in Tasks
    BY <1>0, <1>7 DEF OnOpen, Tasks
  <2>2. Has(queue', "connected") /\ Follows(queue, {"logined"}, "connected")'
    BY <2>1, QueueMore
  <2>3. Follows(io, Strays, Ready("open", "cur"))'
    <3>1. Follows(Tail(io), Strays, Ready("open", "cur"))
      BY <1>0, <1>4, <1>6, FollowsLess DEF Following
    <3> QED BY <1>4, <3>1 DEF Follows, Strays, Ready
  <2>4. Has(queue, "connected")'
    BY <2>2 DEF Has
  <2> QED BY <1>5, <2>1, <2>2, <2>3, <2>4 DEF Truth, Following, Heard
<1>8. Has(wire, "delete") => Has(wire', "delete")
  <2>1. "heartbeat" \in Messages
    BY DEF Messages
  <2> QED BY <1>4, <2>1, SentMore
<1>9. ASSUME Head(io).kind # "open", Has(queue, "delete") => Has(queue', "delete"),
             Head(io).kind = "delete" => Has(queue', "delete")
      PROVE  InRoom => InRoom'
  <2>1. Head(io) # Ready("open", "cur") /\ (Head(io) = Ready("delete", "cur") => Head(io).kind = "delete")
    BY <1>9 DEF Ready
  <2>2. Has(io, Ready("delete", "cur")) => Has(io', Ready("delete", "cur")) \/ Has(queue', "delete")
    BY <1>4, <1>9, <2>1, HeadRuns
  <2>3. Closing' <=> Has(wire', "delete") \/ Has(io', Ready("delete", "cur")) \/ Has(queue', "delete")
    BY DEF Closing, Has, Ready
  <2> QED BY <1>4, <1>8, <1>9, <2>2, <2>3 DEF InRoom, Closing
<1>10. ASSUME Head(io).kind # "open"
       PROVE  (Opening => Opening') /\ Follows(io, Strays, Ready("open", "cur"))' /\ (Head(io) \in Strays => Opening')
  <2>1. Head(io) # Ready("open", "cur")
    BY <1>10 DEF Ready
  <2> QED BY <1>4, <2>1, HeadRuns
<1>11. ASSUME Head(io).kind \notin {"open", "login"}, ws'.sid = ws.sid, ws'.lock = ws.lock, NEW t \in {"none", "new", "delete"},
              IF t = "none" THEN queue' = queue ELSE queue' = Append(queue, t),
              Head(io).kind = "delete" => t = "delete"
       PROVE  Truth'
  <2>1. /\ Has(queue, "connected") => Has(queue', "connected")
        /\ Has(queue, "delete") => Has(queue', "delete")
        /\ t = "delete" => Has(queue', "delete")
        /\ Follows(queue, {"logined"}, "connected") => Follows(queue, {"logined"}, "connected")'
    <3>1. CASE t = "none"
      <4>1. queue' = queue
        BY <1>11, <3>1
      <4> QED BY <3>1, <4>1 DEF Has, Follows
    <3>2. CASE t # "none"
      <4>1. queue' = Append(queue, t) /\ t \in Tasks /\ t # "logined"
        BY <1>11, <3>2 DEF Tasks
      <4> QED BY <4>1, QueueMore
    <3> QED BY <3>1, <3>2
  <2>2. InRoom => InRoom'
    BY <1>9, <1>11, <2>1
  <2>3. Opening => Opening'
    BY <1>10, <1>11
  <2>4. Heard'
    BY <1>4, <1>6, <1>11, <2>1, <2>2, <2>3, HeardStands
  <2>5. Following'
    BY <1>6, <1>10, <1>11, <2>1 DEF Following
  <2> QED BY <1>5, <2>4, <2>5 DEF Truth
<1>12. CASE OnHeartbeat
  <2>1. Head(io).kind = "heartbeat" /\ ws'.sid = ws.sid /\ ws'.lock = ws.lock /\ queue' = queue
    BY <1>0, <1>12 DEF OnHeartbeat, Completes
  <2> QED BY <1>11, <2>1
<1>13. CASE SetPingTimeout
  <2>1. Head(io).kind = "ping" /\ ws'.sid = ws.sid /\ ws'.lock = ws.lock /\ queue' = queue
    BY <1>0, <1>13 DEF SetPingTimeout, Completes
  <2> QED BY <1>11, <2>1
<1>14. CASE \E op \in {"new", "delete"} : OnRoomInfo(op)
  <2>1. PICK op \in {"new", "delete"} : OnRoomInfo(op)
    BY <1>14
  <2>2. Head(io).kind = op /\ ws' = ws /\ queue' = Append(queue, op)
    BY <2>1 DEF OnRoomInfo, Completes
  <2> QED BY <1>11, <2>2
<1>15. CASE OnLogin
  <2>1. /\ Head(io).kind = "login" /\ ws'.sid = Head(io).of /\ ws'.lock = ws.lock
        /\ queue' = Append(queue, "logined") /\ "logined" \in Tasks
    BY <1>0, <1>15 DEF OnLogin, Completes, Tasks
  <2>2. /\ Has(queue, "connected") => Has(queue', "connected")
        /\ Has(queue, "delete") => Has(queue', "delete")
    BY <2>1, QueueMore
  <2>3. CASE ws'.sid # "cur"
    <3>1. Head(io) \in Completions
      BY <1>0, <1>4
    <3>2. Head(io) \in Strays
      BY <2>1, <2>3, <3>1 DEF Strays
    <3>3. Opening'
      BY <1>10, <2>1, <3>2
    <3> QED BY <1>5, <1>10, <2>1, <3>3 DEF Truth, Following, Heard
  <2>4. CASE ws'.sid = "cur"
    <3>1. InRoom => InRoom'
      BY <1>9, <2>1, <2>2
    <3>2. Opening => Opening'
      BY <1>10, <2>1
    <3>3. Current => Current'
      BY <1>4, <2>4, <3>1 DEF Current
    <3>4. Has(queue, "connected") => Has(queue, "connected")'
      BY <2>2 DEF Has
    <3>5. Following'
      BY <1>6, <1>10, <2>1, <2>4, <3>2 DEF Following
    <3> QED BY <1>5, <1>6, <3>2, <3>3, <3>4, <3>5 DEF Truth, Heard
  <2> QED BY <2>3, <2>4
<1> QED BY <1>7, <1>12, <1>13, <1>14, <1>15

LEMMA QueueLess ==
    ASSUME Typed, queue # <<>>, queue' = Tail(queue)
    PROVE  /\ Head(queue) # "connected" /\ Has(queue, "connected") => Has(queue, "connected")'
           /\ Head(queue) # "delete" /\ Has(queue, "delete") => Has(queue', "delete")
           /\ Follows(queue, {"logined"}, "connected")
                 => /\ Follows(queue, {"logined"}, "connected")'
                    /\ Head(queue) = "logined" => Has(queue, "connected")'
<1>1. queue \in Seq(Tasks)
  BY Seqs
<1>2. \A x : Has(queue, x) <=> Head(queue) = x \/ Has(queue', x)
  BY <1>1, HasLess
<1>3. ASSUME Follows(queue, {"logined"}, "connected")
      PROVE  Follows(queue', {"logined"}, "connected") /\ (Head(queue) \in {"logined"} => Has(queue', "connected"))
  BY <1>1, <1>3, FollowsLess
<1>4. /\ Follows(queue, {"logined"}, "connected")' <=> Follows(queue', {"logined"}, "connected")
      /\ Has(queue, "connected")' <=> Has(queue', "connected")
  BY DEF Follows, Has
<1> QED BY <1>2, <1>3, <1>4

LEMMA TaskTruth ==
    ASSUME Typed, Truth, RunConnected \/ RunLogined \/ RunOutage \/ RunRoomNew \/ RunRoomDelete PROVE Truth'
<1>0. sess \in [state : {"Connecting", "Connected", "Reconnecting", "Logined"}, joined : BOOLEAN, retry : BOOLEAN]
  BY Seqs
<1>1. /\ queue # <<>> /\ queue' = Tail(queue) /\ UNCHANGED <<ws, link, wire, srv, io, call, late>>
      /\ sess'.joined => sess.joined
  BY <1>0 DEF RunConnected, RunLogined, RunOutage, RunRoomNew, RunRoomDelete, Runs, network, history, Cleared
<1>2. sess'.joined => call'.at = "idle"
  BY <1>1 DEF Truth
<1> SUFFICES ASSUME link = "open" PROVE Truth'
  BY <1>1, <1>2 DEF Truth
<1>3. Following /\ Heard
  BY DEF Truth
<1>4. (Opening' <=> Opening) /\ Follows(io, Strays, Ready("open", "cur"))'
  BY <1>1, <1>3 DEF Opening, Has, Ready, Following, Follows, Strays
<1>5. Following'
  BY <1>1, <1>3, <1>4, QueueLess DEF Following
\* RtcSession forgets what it knew.
<1>6. ASSUME sess'.state # "Logined" \/ (sess'.state = sess.state /\ Head(queue) # "connected"), ~ sess'.joined, reset'
      PROVE  Truth'
  <2>1. CASE sess'.state # "Logined"
    <3>1. Current'
      BY <1>6, <2>1 DEF Current
    <3> QED BY <1>2, <1>5, <3>1 DEF Truth, Heard
  <2>2. CASE sess'.state = sess.state /\ Head(queue) # "connected"
    <3>1. Current => Current'
      BY <1>1, <1>6, <2>2 DEF Current
    <3>2. Has(queue, "connected") => Has(queue, "connected")'
      BY <1>1, <2>2, QueueLess
    <3> QED BY <1>2, <1>3, <1>4, <1>5, <3>1, <3>2 DEF Truth, Heard
  <2> QED BY <1>6, <2>1, <2>2
<1>7. CASE RunConnected \/ RunOutage
  <2>1. sess'.state # "Logined" /\ ~ sess'.joined /\ reset'
    BY <1>7 DEF RunConnected, RunOutage, Cleared
  <2> QED BY <1>6, <2>1
<1>8. CASE RunRoomDelete
  <2>1. sess'.state = sess.state /\ Head(queue) # "connected" /\ ~ sess'.joined /\ reset'
    BY <1>8 DEF RunRoomDelete, Runs, Cleared
  <2> QED BY <1>6, <2>1
<1>9. CASE RunLogined \/ RunRoomNew
  <2>1. /\ Head(queue) \notin {"delete", "connected"} /\ reset' = reset /\ sess'.joined = sess.joined
        /\ sess'.state = sess.state \/ (sess'.state = "Logined" /\ Head(queue) = "logined")
    BY <1>0, <1>9 DEF RunLogined, RunRoomNew, Runs, history
  <2>2. InRoom => InRoom'
    <3>1. Has(queue, "delete") => Has(queue', "delete")
      BY <1>1, <2>1, QueueLess
    <3>2. Closing' <=> Has(wire, "delete") \/ Has(io, Ready("delete", "cur")) \/ Has(queue', "delete")
      BY <1>1 DEF Closing, Has, Ready
    <3> QED BY <1>1, <3>1, <3>2 DEF InRoom, Closing
  <2>3. Has(queue, "connected") => Has(queue, "connected")'
    BY <1>1, <2>1, QueueLess
  <2>4. CASE sess'.state = sess.state
    <3>1. Current => Current'
      BY <1>1, <2>1, <2>2, <2>4 DEF Current
    <3> QED BY <1>2, <1>3, <1>4, <1>5, <2>3, <3>1 DEF Truth, Heard
  <2>5. CASE sess'.state = "Logined" /\ Head(queue) = "logined"
    <3>1. ws.sid = "cur" \/ Opening \/ Has(queue, "connected")'
      BY <1>1, <1>3, <2>5, QueueLess DEF Following
    <3>2. ws.sid = "cur" /\ Current => Current'
      BY <1>1, <2>1, <2>2, <2>5 DEF Current
    <3> QED BY <1>2, <1>3, <1>4, <1>5, <2>3, <3>1, <3>2 DEF Truth, Heard
  <2> QED BY <2>1, <2>4, <2>5
<1> QED BY <1>7, <1>8, <1>9

LEMMA RoomTruth ==
    ASSUME Typed, Truth,
           RequestBegins \/ RequestServed \/ RequestFails \/ Tick \/ IntervalPasses \/ TickEnds \/ Shutdown
    PROVE  Truth'
<1>0. /\ sess \in [state : {"Connecting", "Connected", "Reconnecting", "Logined"}, joined : BOOLEAN, retry : BOOLEAN]
      /\ call \in [at : {"idle", "posted", "http", "done"}, sid : Ids, code : Codes]
      /\ srv \in [host : Ids \cup {"other"}, members : SUBSET Ids]
      /\ reset \in BOOLEAN /\ late \in BOOLEAN
  BY Seqs
<1>1. CASE Shutdown
  <2>1. link' = "dead" /\ ~ sess'.joined
    BY <1>0, <1>1 DEF Shutdown
  <2> QED BY <2>1 DEF Truth
<1> SUFFICES ASSUME RequestBegins \/ RequestServed \/ RequestFails \/ Tick \/ IntervalPasses \/ TickEnds PROVE Truth'
  BY <1>1
<1>2. UNCHANGED <<ws, link, io, queue>>
  BY DEF RequestBegins, RequestServed, RequestFails, Tick, IntervalPasses, TickEnds, network
<1>3. sess'.joined => call'.at = "idle"
  <2>1. CASE RequestBegins \/ RequestServed \/ RequestFails
    <3>1. call.at # "idle" /\ sess' = sess
      BY <2>1 DEF RequestBegins, RequestServed, InRoomAlready, JoinRoom, OpenRoom, Served, RequestFails
    <3> QED BY <3>1 DEF Truth
  <2>2. CASE Tick
    BY <1>0, <2>2 DEF Tick
  <2>3. CASE IntervalPasses
    BY <2>3 DEF IntervalPasses, Truth
  <2>4. CASE TickEnds
    BY <2>4 DEF TickEnds
  <2> QED BY <2>1, <2>2, <2>3, <2>4
<1> SUFFICES ASSUME link = "open" PROVE Truth'
  BY <1>2, <1>3 DEF Truth
<1>4. Following /\ Heard
  BY DEF Truth
<1>5. Following' /\ (Opening' <=> Opening) /\ (Has(queue, "connected")' <=> Has(queue, "connected"))
  BY <1>2, <1>4 DEF Following, Opening, Has, Follows, Ready, Strays
<1> SUFFICES ASSUME Current PROVE Current'
  BY <1>3, <1>4, <1>5 DEF Truth, Heard
\* What is said of the room stands while the request is not answered.
<1>6. ASSUME UNCHANGED <<wire, srv>> PROVE InRoom' <=> InRoom
  BY <1>2, <1>6 DEF InRoom, Closing, Has, Ready
<1>7. CASE RequestBegins
  <2>1. /\ UNCHANGED <<wire, srv, sess, reset, late>>
        /\ call.at = "posted" /\ (call'.at = "http" => call'.sid = ws.sid) /\ (call'.at = "done" => ~ Entered(call'.code))
    BY <1>7 DEF RequestBegins, network, history, Entered
  <2> QED BY <1>2, <1>6, <2>1 DEF Current
<1>8. CASE RequestServed
  <2>1. UNCHANGED <<sess, reset, late>> /\ call.at = "http" /\ call'.at = "done"
    BY <1>0, <1>8 DEF RequestServed, InRoomAlready, JoinRoom, OpenRoom, Served, Answers, history
  <2>2. ~ sess.joined
    BY <2>1 DEF Truth
  <2>3. call.sid = "cur" /\ Entered(call'.code) => "cur" \in srv'.members
    <3> SUFFICES ASSUME call.sid = "cur", call'.code \in {"OK", "AgentAlreadyInRoom"} PROVE "cur" \in srv'.members
      BY DEF Entered
    <3>0. \A code : [call EXCEPT !.at = "done", !.code = code].code = code
      BY <1>0
    <3>1. CASE InRoomAlready
      BY <3>1 DEF InRoomAlready
    <3>2. CASE JoinRoom
      <4>1. \/ call'.code = "RoomNotExisted"
            \/ srv' = [srv EXCEPT !.members = @ \cup {call.sid}]
        BY <3>0, <3>2 DEF JoinRoom, Answers
      <4> QED BY <1>0, <4>1
    <3>3. CASE OpenRoom
      <4>1. \/ call'.code = "RoomAlreadyExisted"
            \/ srv' = [host |-> call.sid, members |-> {call.sid}]
        BY <3>0, <3>3 DEF OpenRoom, Answers
      <4> QED BY <4>1
    <3> QED BY <1>8, <3>1, <3>2, <3>3 DEF RequestServed
  <2>4. call.sid = "cur" /\ Entered(call'.code) => InRoom'
    BY <2>3 DEF InRoom
  <2> QED BY <1>2, <2>1, <2>2, <2>4 DEF Current
<1>9. CASE RequestFails
  <2>1. /\ UNCHANGED <<wire, srv, sess, reset, late>> /\ call.at = "http" /\ call'.at = "done" /\ ~ Entered(call'.code)
    BY <1>0, <1>9 DEF RequestFails, Answers, network, history, Entered
  <2> QED BY <1>2, <1>6, <2>1 DEF Current
<1>10. CASE Tick
  <2>1. /\ UNCHANGED <<wire, srv, late>> /\ sess.state = "Logined" /\ ~ sess'.joined
        /\ sess'.state = "Logined" /\ call'.at = "posted"
    BY <1>0, <1>10 DEF Tick, network
  <2> QED BY <1>2, <2>1 DEF Current
<1>11. CASE IntervalPasses
  <2>1. UNCHANGED <<wire, srv, sess, call, reset, late>>
    BY <1>11 DEF IntervalPasses, network, history
  <2> QED BY <1>2, <1>6, <2>1 DEF Current
<1>12. CASE TickEnds
  <2>1. UNCHANGED <<wire, srv, reset>> /\ call.at = "done" /\ call'.at = "idle" /\ sess'.state = sess.state
    BY <1>0, <1>12 DEF TickEnds, network
  <2>2. CASE Entered(call.code)
    <3>1. late' = (late \/ reset)
      BY <1>12, <2>2 DEF TickEnds
    <3> QED BY <1>2, <1>6, <2>1, <2>2, <3>1 DEF Current
  <2>3. CASE ~ Entered(call.code)
    <3>1. UNCHANGED <<sess, late>>
      BY <1>12, <2>3 DEF TickEnds
    <3> QED BY <1>2, <1>6, <2>1, <3>1 DEF Current
  <2> QED BY <2>2, <2>3
<1> QED BY <1>7, <1>8, <1>9, <1>10, <1>11, <1>12

LEMMA TruthStep == ASSUME Typed, Truth, [Next]_vars PROVE Truth'
<1>1. CASE UNCHANGED vars
  <2> SUFFICES ASSUME link = "open" PROVE Truth'
    BY <1>1 DEF vars, network, session, history, Truth
  <2>1. UNCHANGED <<ws, link, io, queue, wire, srv, sess, call, reset, late>>
    BY <1>1 DEF vars, network, session, history
  <2>2. Following' <=> Following
    BY <2>1 DEF Following, Follows, Strays, Ready, Opening, Has
  <2>3. (Opening' <=> Opening) /\ (Has(queue, "connected")' <=> Has(queue, "connected")) /\ (InRoom' <=> InRoom)
    BY <2>1 DEF Opening, Has, Ready, InRoom, Closing
  <2> QED BY <2>1, <2>2, <2>3 DEF Truth, Heard, Current
<1> QED BY <1>1, NetworkTruth, WsTruth, TaskTruth, RoomTruth DEF Next, LogicThread, MainThread

\* With nothing on its way, an RtcSession that says it is in the room is in the
\* room of the server with the session of the connection in use: no login or
\* closing of an earlier connection and no request made with its session makes it
\* say so, however they interleave with a reconnect.
THEOREM JoinedIsTrue == Spec => []JoinedTruthful
<1>1. Init => Typed /\ Truth
  <2> SUFFICES ASSUME Init PROVE Typed /\ Truth
    OBVIOUS
  <2>1. link = "dialing" /\ ~ sess.joined
    BY DEF Init
  <2> QED BY <2>1, TypedStart DEF Truth
<1>2. Typed /\ Truth /\ [Next]_vars => (Typed /\ Truth)'
  BY TypedStep, TruthStep
<1>3. Truth => JoinedTruthful
  <2> SUFFICES ASSUME Truth, Settled, link = "open", sess.joined, ~ late PROVE "cur" \in srv.members
    BY DEF JoinedTruthful
  <2>1. io = <<>> /\ wire = <<>> /\ queue = <<>> /\ Heard
    BY DEF Truth, Settled
  <2>2. ~ Opening /\ ~ Has(queue, "connected") /\ ~ Closing
    BY <2>1 DEF Opening, Closing, Has
  <2> QED BY <2>1, <2>2 DEF Heard, Current, InRoom
<1> QED BY <1>1, <1>2, <1>3, PTL DEF Spec

-----------------------------------------------------------------------------
(* The websocket thread is woken again.                                     *)

\* A completion of one of these kinds waits in q.
Waits(q, K) == \E i \in 1 .. Len(q) : q[i].kind \in K

LEMMA WaitsMore ==
    ASSUME NEW q \in Seq(Completions), NEW c \in Completions, NEW K
    PROVE  Waits(Append(q, c), K) <=> Waits(q, K) \/ c.kind \in K
<1> DEFINE n == Len(q)  r == Append(q, c)
<1>1. n \in Nat /\ Len(r) = n + 1 /\ r[n + 1] = c /\ \A i \in 1 .. n : r[i] = q[i]
  BY LenProperties
<1> HIDE DEF n, r
<1>2. \A j \in 1 .. n + 1 : j = n + 1 \/ j \in 1 .. n
  BY <1>1
<1>3. (\E j \in 1 .. n + 1 : r[j].kind \in K) <=> (\E j \in 1 .. n : q[j].kind \in K) \/ c.kind \in K
  BY <1>1, <1>2
<1> QED BY <1>1, <1>3 DEF Waits, n, r

LEMMA WaitsLess ==
    ASSUME NEW q \in Seq(Completions), q # <<>>, NEW K
    PROVE  Waits(q, K) <=> Head(q).kind \in K \/ Waits(Tail(q), K)
<1> DEFINE n == Len(q)  r == Tail(q)
<1>1. n \in Nat \ {0} /\ Len(r) = n - 1 /\ Head(q) = q[1] /\ \A i \in 1 .. n - 1 : r[i] = q[i + 1]
  BY EmptySeq, HeadTailProperties
<1> HIDE DEF n, r
<1>2. ASSUME NEW j \in 1 .. n, q[j].kind \in K PROVE q[1].kind \in K \/ \E i \in 1 .. n - 1 : r[i].kind \in K
  <2>1. CASE j = 1
    BY <1>2, <2>1
  <2>2. CASE j # 1
    <3>1. j - 1 \in 1 .. n - 1 /\ (j - 1) + 1 = j
      BY <1>1, <2>2
    <3>2. r[j - 1] = q[j]
      BY <1>1, <3>1
    <3> QED BY <1>2, <3>1, <3>2
  <2> QED BY <2>1, <2>2
<1>3. ASSUME NEW j \in 1 .. n - 1, r[j].kind \in K PROVE \E i \in 1 .. n : q[i].kind \in K
  <2>1. j + 1 \in 1 .. n /\ q[j + 1].kind \in K
    BY <1>1, <1>3
  <2> QED BY <2>1
<1>4. 1 \in 1 .. n
  BY <1>1
<1>5. (\E j \in 1 .. n : q[j].kind \in K) <=> (Head(q).kind \in K \/ \E j \in 1 .. n - 1 : r[j].kind \in K)
  BY <1>1, <1>2, <1>3, <1>4
<1> QED BY <1>1, <1>5 DEF Waits, n, r

\* While it reconnects, the reconnect timer runs or has expired; otherwise the
\* heartbeat's timers do, or the first dial is under way.
Watched ==
    ~ down =>
       /\ ws.lock => "recon" \in ws.armed \/ Waits(io, {"recon"})
       /\ ~ ws.lock => \/ ws.armed \cap {"ping", "pong"} # {}
                       \/ Waits(io, {"ping", "pong", "open", "error"})
                       \/ link = "dialing"

LEMMA NetworkWatched ==
    ASSUME Typed, Watched, Network \/ Server \/ \E t \in Timers : TimerExpires(t) PROVE Watched'
<1>0. io \in Seq(Completions)
      /\ ws \in [notified : BOOLEAN, lock : BOOLEAN, armed : SUBSET Timers, sid : Ids, conn : Ids]
  BY Seqs
\* A completion more.
<1>m. ASSUME NEW c \in Completions, io' = Append(io, c), down' = down, ws'.lock = ws.lock,
             \A t \in ws.armed : t \in ws'.armed \/ t = c.kind,
             link = "dialing" => link' = "dialing" \/ c.kind \in {"open", "error"}
      PROVE  Watched'
  <2>1. \A K : Waits(io', K) <=> Waits(io, K) \/ c.kind \in K
    BY <1>0, <1>m, WaitsMore
  <2>2. /\ Waits(io', {"recon"}) <=> Waits(io, {"recon"}) \/ c.kind = "recon"
        /\ Waits(io', {"ping", "pong", "open", "error"})
              <=> Waits(io, {"ping", "pong", "open", "error"}) \/ c.kind \in {"ping", "pong", "open", "error"}
    BY <2>1
  <2> QED BY <1>m, <2>2 DEF Watched
<1>1. CASE NetOpen
  <2>1. Ready("open", "cur") \in Completions /\ Ready("open", "cur").kind = "open"
    BY DEF Ready, Completions, Ids
  <2> QED BY <1>1, <1>m, <2>1 DEF NetOpen
<1>2. CASE NetDeliver
  <2>1. Head(wire) \in Messages
    BY <1>2, Seqs DEF NetDeliver
  <2>2. Ready(Head(wire), "cur") \in Completions
    BY <2>1 DEF Ready, Completions, Ids
  <2> QED BY <1>2, <1>m, <2>2 DEF NetDeliver
<1>3. CASE NetFail
  <2>1. Ready("error", "cur") \in Completions /\ Ready("error", "cur").kind = "error"
    BY DEF Ready, Completions, Ids
  <2> QED BY <1>3, <1>m, <2>1 DEF NetFail
<1>4. CASE NetMute \/ Server
  <2>1. UNCHANGED <<ws, io, down>> /\ (link = "dialing" => link' = "dialing")
    BY <1>4 DEF NetMute, Server, ServerDrop, OtherOpens, OtherCloses
  <2> QED BY <2>1 DEF Watched, Waits
<1>5. ASSUME NEW t \in Timers, TimerExpires(t) PROVE Watched'
  <2>1. Ready(t, "timer") \in Completions /\ Ready(t, "timer").kind = t
    BY DEF Ready, Completions, Ids
  <2>2. ws'.lock = ws.lock /\ ws'.armed = ws.armed \ {t}
    BY <1>0, <1>5 DEF TimerExpires
  <2>3. link' = link /\ down' = down /\ io' = Append(io, Ready(t, "timer"))
    BY <1>5 DEF TimerExpires, network
  <2> QED BY <1>m, <2>1, <2>2, <2>3
<1> QED BY <1>1, <1>2, <1>3, <1>4, <1>5 DEF Network

LEMMA WsWatched ==
    ASSUME Typed, Watched, WsThread PROVE Watched'
<1>0. /\ io \in Seq(Completions)
      /\ ws \in [notified : BOOLEAN, lock : BOOLEAN, armed : SUBSET Timers, sid : Ids, conn : Ids]
  BY Seqs
<1>1. io # <<>> /\ ~ down
  BY DEF WsThread, OnOpen, OnError, OnHeartbeat, OnLogin, OnRoomInfo, SetPingTimeout, PongTimeout, ReconnectTimer,
         Completes
<1>2. \A K : Waits(io, K) <=> Head(io).kind \in K \/ Waits(Tail(io), K)
  BY <1>0, <1>1, WaitsLess
\* A completion of another kind is run, and no timer is taken away that counts.
<1>3. ASSUME io' = Tail(io), UNCHANGED <<link, down>>, ws'.lock = ws.lock, Head(io).kind # "recon",
             "recon" \in ws.armed => "recon" \in ws'.armed,
             \/ ws.lock \/ ws'.armed \cap {"ping", "pong"} # {}
             \/ ws'.armed = ws.armed /\ Head(io).kind \notin {"ping", "pong", "open", "error"}
      PROVE  Watched'
  <2>1. Waits(io, {"recon"}) => Waits(io', {"recon"})
    BY <1>2, <1>3
  <2>2. Head(io).kind \notin {"ping", "pong", "open", "error"} /\ Waits(io, {"ping", "pong", "open", "error"})
           => Waits(io', {"ping", "pong", "open", "error"})
    BY <1>2, <1>3
  <2> QED BY <1>3, <2>1, <2>2 DEF Watched
\* A reconnect that finds lock_reconnect_ set leaves the timer that will unset it
\* alone; any other arms it.
<1>4. ASSUME NEW w, ReconnectWebsocket(w), UNCHANGED down,
             w \in [notified : BOOLEAN, lock : BOOLEAN, armed : SUBSET Timers, sid : Ids, conn : Ids],
             w.lock => w = ws /\ Head(io).kind # "recon"
      PROVE  Watched'
  <2> DEFINE n == IF w.notified THEN w ELSE [w EXCEPT !.notified = TRUE, !.sid = "none", !.conn = "none"]
  <2>1. n \in [notified : BOOLEAN, lock : BOOLEAN, armed : SUBSET Timers, sid : Ids, conn : Ids]
        /\ n.lock = w.lock /\ n.armed = w.armed
    BY <1>4 DEF Ids
  <2>2. \/ w.lock /\ ws' = [n EXCEPT !.armed = @ \ {"ping", "pong"}] /\ io' = Tail(io) /\ link' = link
        \/ ~ w.lock /\ ws' = [n EXCEPT !.lock = TRUE, !.armed = {"recon"}]
    BY <1>4 DEF ReconnectWebsocket, network
  <2> HIDE DEF n
  <2>3. CASE w.lock
    <3>1. ws'.lock = ws.lock /\ ws'.armed = ws.armed \ {"ping", "pong"} /\ ws.lock
      BY <1>4, <2>1, <2>2, <2>3
    <3> QED BY <1>3, <1>4, <2>2, <2>3, <3>1
  <2>4. CASE ~ w.lock
    <3>1. ws'.lock /\ ws'.armed = {"recon"}
      BY <2>1, <2>2, <2>4
    <3> QED BY <3>1 DEF Watched
  <2> QED BY <2>3, <2>4
<1>5. CASE OnOpen
  <2>1. ~ ws'.lock /\ "ping" \in ws'.armed
    BY <1>0, <1>5 DEF OnOpen
  <2> QED BY <2>1 DEF Watched
<1>6. CASE OnError
  BY <1>0, <1>4, <1>6 DEF OnError, Completes
<1>7. CASE OnHeartbeat
  <2>1. ws'.lock = ws.lock /\ ws'.armed = (ws.armed \ {"pong"}) \cup {"ping"}
    BY <1>0, <1>7 DEF OnHeartbeat
  <2> QED BY <1>3, <1>7, <2>1 DEF OnHeartbeat, Completes, network
<1>8. CASE OnLogin \/ \E op \in {"new", "delete"} : OnRoomInfo(op)
  <2>1. ws'.lock = ws.lock /\ ws'.armed = ws.armed
    BY <1>0, <1>8 DEF OnLogin, OnRoomInfo
  <2>2. /\ Head(io).kind \in {"login", "new", "delete"} /\ io' = Tail(io) /\ UNCHANGED <<link, down>>
    BY <1>8 DEF OnLogin, OnRoomInfo, Completes, network
  <2> QED BY <1>3, <2>1, <2>2
<1>9. CASE SetPingTimeout
  <2>1. ws'.lock = ws.lock /\ ws'.armed = ws.armed \cup {"pong"}
    BY <1>0, <1>9 DEF SetPingTimeout
  <2> QED BY <1>3, <1>9, <2>1 DEF SetPingTimeout, Completes
<1>10. CASE PongTimeout
  BY <1>0, <1>4, <1>10 DEF PongTimeout, Completes
<1>11. CASE ReconnectTimer
  <2> DEFINE w == [ws EXCEPT !.lock = FALSE]
  <2>1. w \in [notified : BOOLEAN, lock : BOOLEAN, armed : SUBSET Timers, sid : Ids, conn : Ids] /\ ~ w.lock
    BY <1>0
  <2>2. ReconnectWebsocket(w) /\ UNCHANGED down
    BY <1>11 DEF ReconnectTimer
  <2> HIDE DEF w
  <2> QED BY <1>4, <2>1, <2>2
<1> QED BY <1>5, <1>6, <1>7, <1>8, <1>9, <1>10, <1>11 DEF WsThread

\* The websocket thread of a running client is never left with nothing that will
\* wake it: while it reconnects, the reconnect timer is armed or its completion
\* waits, and otherwise one of the heartbeat's timers, their completions, or the
\* outcome of a dial, whatever errors, openings and timeouts of earlier connections
\* it has run meanwhile.
THEOREM ClientStaysAwake == Spec => []Watched
<1>1. Init => Typed /\ Watched
  <2> SUFFICES ASSUME Init PROVE Watched
    BY TypedStart
  <2> QED BY DEF Init, Watched
<1>2. Typed /\ Watched /\ [Next]_vars => (Typed /\ Watched)'
  <2> SUFFICES ASSUME Typed, Watched, [Next]_vars PROVE Watched'
    BY TypedStep
  <2>1. CASE Network \/ Server \/ \E t \in Timers : TimerExpires(t)
    BY <2>1, NetworkWatched
  <2>2. CASE WsThread
    BY <2>2, WsWatched
  <2>3. CASE LogicThread \/ Tick \/ IntervalPasses \/ TickEnds \/ UNCHANGED vars
    <3>1. UNCHANGED <<ws, io, link, down>>
      BY <2>3 DEF LogicThread, RunConnected, RunLogined, RunOutage, RunRoomNew, RunRoomDelete, RequestBegins,
                  RequestServed, RequestFails, Tick, IntervalPasses, TickEnds, network, history, vars
    <3> QED BY <3>1 DEF Watched, Waits
  <2>4. CASE Shutdown
    BY <2>4 DEF Shutdown, Watched
  <2> QED BY <2>1, <2>2, <2>3, <2>4 DEF Next, MainThread
<1> QED BY <1>1, <1>2, PTL DEF Spec
-----------------------------------------------------------------------------
(* Whether RtcSession knows of its login.                                   *)

LoginOfCur == Ready("login", "cur")

\* The login of the connection in use is announced after every opening.
LoginsAfterOpens(q) == \A k, j \in 1 .. Len(q) : j > k /\ q[k] = LoginOfCur => q[j].kind # "open"

\* What RtcSession hears last of connection and login is the login.
LoginTold ==
    /\ Follows(queue, {"connected", "outage"}, "logined")
    /\ sess.state = "Logined" \/ Has(queue, "logined")

\* The session number of the connection in use is set after its opening was run,
\* and forgotten before another connection is dialled.
Logins ==
    ~ down =>
       /\ ws.notified = ws.lock
       /\ wire # <<>> => link = "open"
       /\ LoginsAfterOpens(io)
       /\ link = "dialing" => ~ Has(io, LoginOfCur) /\ ws.sid # "cur"
       /\ ws.lock /\ (link = "open" \/ Has(io, LoginOfCur)) => Opening
       /\ ws.sid = "cur" => ~ ws.lock /\ ~ Waits(io, {"open"}) /\ LoginTold

\* RtcSession is logged in, or is being told so, when the client has a session.
LoginsHeard == ~ down /\ ws.sid = "cur" => sess.state = "Logined" \/ Has(queue, "logined")

LEMMA OrderMore ==
    ASSUME NEW q \in Seq(Completions), NEW c \in Completions, LoginsAfterOpens(q),
           c.kind # "open" \/ ~ Has(q, LoginOfCur)
    PROVE  LoginsAfterOpens(Append(q, c))
<1> DEFINE n == Len(q)  r == Append(q, c)
<1>1. n \in Nat /\ Len(r) = n + 1 /\ r[n + 1] = c /\ \A i \in 1 .. n : r[i] = q[i]
  BY LenProperties
<1> HIDE DEF n, r
<1> SUFFICES ASSUME NEW k \in 1 .. n + 1, NEW j \in 1 .. n + 1, j > k, r[k] = LoginOfCur PROVE r[j].kind # "open"
  BY <1>1 DEF LoginsAfterOpens, r
<1>2. k \in 1 .. n /\ q[k] = LoginOfCur
  BY <1>1
<1>3. CASE j \in 1 .. n
  BY <1>1, <1>2, <1>3 DEF LoginsAfterOpens, n
<1>4. CASE j = n + 1
  <2>1. Has(q, LoginOfCur)
    BY <1>2 DEF Has, n
  <2> QED BY <1>1, <1>4, <2>1
<1> QED BY <1>1, <1>3, <1>4

LEMMA OrderLess ==
    ASSUME NEW q \in Seq(Completions), q # <<>>, LoginsAfterOpens(q)
    PROVE  LoginsAfterOpens(Tail(q)) /\ (Head(q) = LoginOfCur => ~ Waits(Tail(q), {"open"}))
<1> DEFINE n == Len(q)  r == Tail(q)
<1>1. n \in Nat \ {0} /\ Len(r) = n - 1 /\ Head(q) = q[1] /\ \A i \in 1 .. n - 1 : r[i] = q[i + 1]
  BY EmptySeq, HeadTailProperties
<1>2. \A k, j \in 1 .. n : j > k /\ q[k] = LoginOfCur => q[j].kind # "open"
  BY DEF LoginsAfterOpens
<1> HIDE DEF n, r
<1>3. ASSUME NEW k \in 1 .. n - 1, NEW j \in 1 .. n - 1, j > k, r[k] = LoginOfCur PROVE r[j].kind # "open"
  <2>1. k + 1 \in 1 .. n /\ j + 1 \in 1 .. n /\ j + 1 > k + 1 /\ q[k + 1] = LoginOfCur
    BY <1>1, <1>3
  <2>2. q[j + 1].kind # "open"
    BY <1>2, <2>1
  <2> QED BY <1>1, <2>2
<1>4. ASSUME q[1] = LoginOfCur, NEW j \in 1 .. n - 1 PROVE r[j].kind # "open"
  <2>1. 1 \in 1 .. n /\ j + 1 \in 1 .. n /\ j + 1 > 1
    BY <1>1
  <2>2. q[j + 1].kind # "open"
    BY <1>2, <1>4, <2>1
  <2> QED BY <1>1, <2>2
<1>5. LoginsAfterOpens(r)
  BY <1>1, <1>3 DEF LoginsAfterOpens
<1>6. Head(q) = LoginOfCur => ~ Waits(r, {"open"})
  BY <1>1, <1>4 DEF Waits
<1> QED BY <1>5, <1>6 DEF r

\* What a reconnect leaves of the completions is of earlier connections.
LEMMA AgedLogins ==
    ASSUME NEW s \in Seq(Completions), NEW t \in {<<>>, <<Ready("error", "old")>>}
    PROVE  ~ Has(AgeIo(s) \o t, LoginOfCur) /\ LoginsAfterOpens(AgeIo(s) \o t)
<1>1. /\ AgeIo(s) \in Seq(Completions)
      /\ \A i \in 1 .. Len(AgeIo(s)) : AgeIo(s)[i].of # "cur"
  <2>1. /\ AgeIo(s) \in Seq(Completions) /\ Len(AgeIo(s)) = Len(s)
        /\ \A i \in 1 .. Len(s) : AgeIo(s)[i] = [s[i] EXCEPT !.of = OldOf(@)]
    BY Aged
  <2>2. \A c \in Completions : [c EXCEPT !.of = OldOf(@)].of # "cur"
    BY DEF Completions, OldOf
  <2>3. \A i \in 1 .. Len(s) : s[i] \in Completions
    BY LenProperties
  <2> HIDE DEF AgeIo
  <2> QED BY <2>1, <2>2, <2>3
<1>2. Ready("error", "old") \in Completions /\ Ready("error", "old").of # "cur" /\ LoginOfCur.of = "cur"
  BY DEF Ready, Completions, Ids, LoginOfCur
<1> DEFINE a == AgeIo(s)  m == Len(a)  u == a \o t
<1>3. t \in Seq(Completions) /\ Len(t) \in Nat /\ \A i \in 1 .. Len(t) : t[i].of # "cur"
  <2>1. <<Ready("error", "old")>> \in Seq(Completions) /\ Len(<<Ready("error", "old")>>) = 1
        /\ <<Ready("error", "old")>>[1] = Ready("error", "old")
    BY <1>2
  <2>2. <<>> \in Seq(Completions) /\ Len(<<>>) = 0
    OBVIOUS
  <2> HIDE DEF Ready
  <2>3. CASE t = <<>>
    BY <2>2, <2>3
  <2>4. CASE t = <<Ready("error", "old")>>
    BY <1>2, <2>1, <2>4
  <2> QED BY <2>3, <2>4
<1> HIDE DEF a
<1>4. /\ a \in Seq(Completions) /\ m \in Nat /\ Len(u) = m + Len(t)
      /\ \A i \in 1 .. m + Len(t) : u[i] = IF i =< m THEN a[i] ELSE t[i - m]
  BY <1>1, <1>3, ConcatProperties, LenProperties DEF a
<1>5. ASSUME NEW i \in 1 .. Len(u) PROVE u[i].of # "cur"
  <2>1. CASE i =< m
    <3>1. i \in 1 .. m /\ u[i] = a[i]
      BY <1>4, <2>1
    <3> QED BY <1>1, <3>1 DEF a
  <2>2. CASE ~ (i =< m)
    <3>1. i - m \in 1 .. Len(t) /\ u[i] = t[i - m]
      BY <1>3, <1>4, <2>2
    <3> QED BY <1>3, <3>1
  <2> QED BY <2>1, <2>2
<1> HIDE DEF u
<1>6. \A i \in 1 .. Len(u) : u[i] # LoginOfCur
  BY <1>2, <1>5
<1> QED BY <1>6 DEF Has, LoginsAfterOpens, u, a

-----------------------------------------------------------------------------

\* Nothing that counts here changes but for the completions and the wire.
LEMMA NetworkLogins ==
    ASSUME Typed, Logins, Network \/ Server \/ \E t \in Timers : TimerExpires(t) PROVE Logins'
<1>0. /\ io \in Seq(Completions) /\ wire \in Seq(Messages)
      /\ ws \in [notified : BOOLEAN, lock : BOOLEAN, armed : SUBSET Timers, sid : Ids, conn : Ids]
  BY Seqs
<1>1. /\ UNCHANGED <<sess, queue, down>>
      /\ ws'.sid = ws.sid /\ ws'.lock = ws.lock /\ ws'.notified = ws.notified
  BY <1>0 DEF Network, Server, NetOpen, NetDeliver, NetFail, NetMute, ServerDrop, OtherOpens, OtherCloses,
              TimerExpires, session
<1> SUFFICES ASSUME ~ down PROVE Logins'
  BY <1>1 DEF Logins
<1>2. /\ ws.notified = ws.lock
      /\ wire # <<>> => link = "open"
      /\ LoginsAfterOpens(io)
      /\ link = "dialing" => ~ Has(io, LoginOfCur) /\ ws.sid # "cur"
      /\ ws.lock /\ (link = "open" \/ Has(io, LoginOfCur)) => Opening
      /\ ws.sid = "cur" => ~ ws.lock /\ ~ Waits(io, {"open"}) /\ LoginTold
  BY DEF Logins
<1>3. LoginTold' <=> LoginTold
  BY <1>1 DEF LoginTold, Follows, Has
\* It is enough to look at the completions, the link and the wire.
<1>4. ASSUME wire' # <<>> => link' = "open", LoginsAfterOpens(io'),
             link' = "dialing" => link = "dialing" /\ ~ Has(io', LoginOfCur),
             ws.lock /\ (link' = "open" \/ Has(io', LoginOfCur)) => Has(io', Ready("open", "cur")),
             ws.sid = "cur" => ~ Waits(io', {"open"})
      PROVE  Logins'
  <2>1. /\ LoginsAfterOpens(io)' <=> LoginsAfterOpens(io')
        /\ Has(io, LoginOfCur)' <=> Has(io', LoginOfCur)
        /\ Opening' <=> Has(io', Ready("open", "cur"))
        /\ Waits(io, {"open"})' <=> Waits(io', {"open"})
    BY DEF LoginsAfterOpens, Has, Opening, Waits, LoginOfCur, Ready
  <2> QED BY <1>1, <1>2, <1>3, <1>4, <2>1 DEF Logins
\* A completion more.
<1>5. ASSUME NEW c \in Completions, io' = Append(io, c)
      PROVE  /\ Has(io', LoginOfCur) <=> Has(io, LoginOfCur) \/ c = LoginOfCur
             /\ Opening => Has(io', Ready("open", "cur"))
             /\ c = Ready("open", "cur") => Has(io', Ready("open", "cur"))
             /\ c.kind # "open" \/ ~ Has(io, LoginOfCur) => LoginsAfterOpens(io')
             /\ c.kind # "open" /\ ~ Waits(io, {"open"}) => ~ Waits(io', {"open"})
  <2>1. \A x : Has(Append(io, c), x) <=> Has(io, x) \/ c = x
    BY <1>0, HasMore
  <2>2. Waits(Append(io, c), {"open"}) <=> Waits(io, {"open"}) \/ c.kind \in {"open"}
    BY <1>0, WaitsMore
  <2>3. c.kind # "open" \/ ~ Has(io, LoginOfCur) => LoginsAfterOpens(Append(io, c))
    BY <1>0, <1>2, OrderMore
  <2> QED BY <1>5, <2>1, <2>2, <2>3 DEF Opening
<1>6. CASE NetOpen
  <2>1. Ready("open", "cur") \in Completions /\ Ready("open", "cur") # LoginOfCur
    BY DEF Ready, Completions, Ids, LoginOfCur
  <2>2. link = "dialing" /\ link' = "open" /\ io' = Append(io, Ready("open", "cur"))
    BY <1>6 DEF NetOpen
  <2> QED BY <1>2, <1>4, <1>5, <2>1, <2>2
<1>7. CASE NetDeliver
  <2>1. Head(wire) \in Messages /\ wire # <<>> /\ link' = link
    BY <1>0, <1>7 DEF NetDeliver
  <2>2. Ready(Head(wire), "cur") \in Completions /\ Ready(Head(wire), "cur").kind # "open"
    BY <2>1 DEF Ready, Completions, Ids, Messages
  <2>3. io' = Append(io, Ready(Head(wire), "cur"))
    BY <1>7 DEF NetDeliver
  <2> QED BY <1>2, <1>4, <1>5, <2>1, <2>2, <2>3
<1>8. ASSUME NEW c \in Completions, c.kind \notin {"open", "login"}, io' = Append(io, c),
             (link' = link /\ wire' = wire) \/ (link' = "dead" /\ wire' = <<>>)
      PROVE  Logins'
  <2>1. c # LoginOfCur
    BY <1>8 DEF LoginOfCur, Ready
  <2> QED BY <1>2, <1>4, <1>5, <1>8, <2>1
<1>9. CASE NetFail
  <2>1. Ready("error", "cur") \in Completions /\ Ready("error", "cur").kind = "error"
    BY DEF Ready, Completions, Ids
  <2> QED BY <1>8, <1>9, <2>1 DEF NetFail
<1>10. ASSUME NEW t \in Timers, TimerExpires(t) PROVE Logins'
  <2>1. Ready(t, "timer") \in Completions /\ Ready(t, "timer").kind = t /\ t \notin {"open", "login"}
    BY DEF Ready, Completions, Ids, Timers
  <2>2. io' = Append(io, Ready(t, "timer")) /\ link' = link /\ wire' = wire
    BY <1>10 DEF TimerExpires, network
  <2> HIDE DEF Ready
  <2> QED BY <1>8, <2>1, <2>2
<1>11. CASE NetMute
  <2>1. io' = io /\ link' = "mute" /\ wire' = <<>>
    BY <1>11 DEF NetMute
  <2> QED BY <1>2, <1>4, <2>1 DEF Opening
<1>12. CASE Server
  <2>1. io' = io /\ link' = link /\ (wire' # <<>> => wire # <<>> \/ link = "open")
    BY <1>12 DEF Server, ServerDrop, ServerLeaves, OtherOpens, OtherCloses, Sent
  <2> QED BY <1>2, <1>4, <2>1 DEF Opening
<1> QED BY <1>6, <1>7, <1>9, <1>10, <1>11, <1>12 DEF Network

-----------------------------------------------------------------------------

LEMMA WsLogins ==
    ASSUME Typed, Logins, WsThread PROVE Logins'
<1>0. /\ io \in Seq(Completions) /\ wire \in Seq(Messages) /\ queue \in Seq(Tasks)
      /\ ws \in [notified : BOOLEAN, lock : BOOLEAN, armed : SUBSET Timers, sid : Ids, conn : Ids]
  BY Seqs
<1>1. io # <<>> /\ ~ down /\ UNCHANGED <<sess, down>>
  BY DEF WsThread, OnOpen, OnError, OnHeartbeat, OnLogin, OnRoomInfo, SetPingTimeout, PongTimeout, ReconnectTimer,
         Completes, session
<1>2. /\ ws.notified = ws.lock
      /\ wire # <<>> => link = "open"
      /\ LoginsAfterOpens(io)
      /\ link = "dialing" => ~ Has(io, LoginOfCur) /\ ws.sid # "cur"
      /\ ws.lock /\ (link = "open" \/ Has(io, LoginOfCur)) => Opening
      /\ ws.sid = "cur" => ~ ws.lock /\ ~ Waits(io, {"open"}) /\ LoginTold
  BY <1>1 DEF Logins
<1>3. /\ \A x : Has(io, x) <=> Head(io) = x \/ Has(Tail(io), x)
      /\ Waits(io, {"open"}) <=> Head(io).kind \in {"open"} \/ Waits(Tail(io), {"open"})
      /\ LoginsAfterOpens(Tail(io)) /\ (Head(io) = LoginOfCur => ~ Waits(Tail(io), {"open"}))
  BY <1>0, <1>1, <1>2, HasLess, WaitsLess, OrderLess
<1>4. /\ LoginsAfterOpens(io)' <=> LoginsAfterOpens(io')
      /\ Has(io, LoginOfCur)' <=> Has(io', LoginOfCur)
      /\ Opening' <=> Has(io', Ready("open", "cur"))
      /\ Waits(io, {"open"})' <=> Waits(io', {"open"})
  BY DEF LoginsAfterOpens, Has, Opening, Waits, LoginOfCur, Ready
<1>5. LoginTold' <=> /\ Follows(queue', {"connected", "outage"}, "logined")
                     /\ sess.state = "Logined" \/ Has(queue', "logined")
  BY <1>1 DEF LoginTold, Follows, Has
\* A task that is neither an outage nor an opening leaves the login told.
<1>6. ASSUME NEW t \in {"new", "delete", "logined"}, queue' = Append(queue, t), LoginTold \/ t = "logined" PROVE LoginTold'
  <2>1. t \in Tasks /\ t \notin {"connected", "outage"}
    BY DEF Tasks
  <2>2. Follows(Append(queue, t), {"connected", "outage"}, "logined")
    BY <1>0, <1>6, <2>1, FollowsMore DEF LoginTold
  <2>3. Has(Append(queue, t), "logined") <=> Has(queue, "logined") \/ t = "logined"
    BY <1>0, <2>1, HasMore
  <2> QED BY <1>5, <1>6, <2>2, <2>3 DEF LoginTold
\* Any completion but an opening or a reconnect.
<1>7. ASSUME io' = Tail(io), Head(io).kind # "open", link' = link, wire' # <<>> => link = "open",
             ws'.lock = ws.lock, ws'.notified = ws.notified,
             ws'.sid = ws.sid \/ (ws'.sid = Head(io).of /\ Head(io).kind = "login"),
             ws'.sid = "cur" => LoginTold'
      PROVE  Logins'
  <2>1. Head(io) # Ready("open", "cur")
    BY <1>7 DEF Ready
  <2>2. /\ Has(io', LoginOfCur) => Has(io, LoginOfCur)
        /\ Opening => Has(io', Ready("open", "cur"))
        /\ Waits(io', {"open"}) <=> Waits(io, {"open"})
    BY <1>3, <1>7, <2>1 DEF Opening
  <2>3. CASE ws'.sid = ws.sid
    BY <1>2, <1>3, <1>4, <1>7, <2>2, <2>3 DEF Logins
  <2>4. CASE ws'.sid = Head(io).of /\ Head(io).kind = "login" /\ Head(io).of # "cur"
    BY <1>2, <1>3, <1>4, <1>7, <2>2, <2>4 DEF Logins
  <2>5. CASE ws'.sid = Head(io).of /\ Head(io).kind = "login" /\ Head(io).of = "cur"
    <3>1. Head(io) \in Completions
      BY <1>0, <1>1
    <3>2. Head(io) = LoginOfCur
      BY <2>5, <3>1 DEF Completions, LoginOfCur, Ready
    <3>3. Has(io, LoginOfCur) /\ ~ Waits(io', {"open"}) /\ ~ Waits(io, {"open"})
      BY <1>3, <1>7, <2>2, <3>2
    <3>4. ~ Opening
      <4>1. Ready("open", "cur").kind = "open"
        BY DEF Ready
      <4> QED BY <3>3, <4>1 DEF Opening, Has, Waits
    <3>5. ~ ws.lock /\ link # "dialing"
      BY <1>2, <3>3, <3>4
    <3> QED BY <1>2, <1>3, <1>4, <1>7, <2>2, <3>3, <3>5 DEF Logins
  <2> QED BY <1>7, <2>3, <2>4, <2>5
<1>8. ASSUME NEW w, ReconnectWebsocket(w), Head(io).kind # "open",
             w \in [notified : BOOLEAN, lock : BOOLEAN, armed : SUBSET Timers, sid : Ids, conn : Ids],
             w.notified = ws.notified, w.sid = ws.sid, w.lock => ws.lock
      PROVE  Logins'
  <2> DEFINE n == IF w.notified THEN w ELSE [w EXCEPT !.notified = TRUE, !.sid = "none", !.conn = "none"]
             rest == IF link = "dead" THEN <<>> ELSE <<Ready("error", "old")>>
  <2>1. /\ n \in [notified : BOOLEAN, lock : BOOLEAN, armed : SUBSET Timers, sid : Ids, conn : Ids]
        /\ n.notified /\ n.lock = w.lock /\ n.sid # "cur"
    <3>1. w.sid = "cur" => ~ w.notified
      BY <1>2, <1>8
    <3> QED BY <1>8, <3>1 DEF Ids
  <2>2. rest \in {<<>>, <<Ready("error", "old")>>}
    OBVIOUS
  <2>3. \/ w.lock /\ ws' = [n EXCEPT !.armed = @ \ {"ping", "pong"}] /\ io' = Tail(io) /\ link' = link /\ wire' = wire
        \/ /\ ~ w.lock /\ ws' = [n EXCEPT !.lock = TRUE, !.armed = {"recon"}]
           /\ io' = AgeIo(Tail(io)) \o rest /\ link' = "dialing" /\ wire' = <<>>
    BY <1>8 DEF ReconnectWebsocket, network
  <2> HIDE DEF n, rest
  <2>4. ws'.notified /\ ws'.lock /\ ws'.sid # "cur"
    BY <2>1, <2>3
  <2>5. CASE w.lock
    <3>1. Head(io) # Ready("open", "cur")
      BY <1>8 DEF Ready
    <3>2. /\ Has(io', LoginOfCur) => Has(io, LoginOfCur)
          /\ Opening => Has(io', Ready("open", "cur"))
          /\ LoginsAfterOpens(io') /\ link' = link /\ wire' = wire
      BY <1>3, <2>3, <2>5, <3>1 DEF Opening
    <3> QED BY <1>2, <1>4, <1>8, <2>4, <2>5, <3>2 DEF Logins
  <2>6. CASE ~ w.lock
    <3>1. Tail(io) \in Seq(Completions)
      BY <1>0, <1>1
    <3>2. ~ Has(io', LoginOfCur) /\ LoginsAfterOpens(io')
      BY <2>2, <2>3, <2>6, <3>1, AgedLogins
    <3>3. link' = "dialing" /\ wire' = <<>>
      BY <2>3, <2>6
    <3> QED BY <1>4, <2>4, <3>2, <3>3 DEF Logins
  <2> QED BY <2>5, <2>6
<1>9. CASE OnOpen
  <2>1. /\ Head(io).kind = "open" /\ io' = Tail(io) /\ UNCHANGED <<link, wire>>
        /\ ws'.lock = FALSE /\ ws'.notified = FALSE /\ ws'.sid = ws.sid
    BY <1>0, <1>9 DEF OnOpen, Completes, network
  <2>2. ws.sid # "cur"
    BY <1>2, <1>3, <2>1
  <2>3. /\ LoginsAfterOpens(io)' /\ (wire' # <<>> => link' = "open")
        /\ link' = "dialing" => ~ Has(io, LoginOfCur)'
    BY <1>2, <1>3, <1>4, <2>1
  <2> QED BY <2>1, <2>2, <2>3 DEF Logins
<1>10. CASE OnError \/ PongTimeout
  <2>1. ReconnectWebsocket(ws) /\ Head(io).kind \in {"error", "pong"}
    BY <1>10 DEF OnError, PongTimeout, Completes
  <2> QED BY <1>0, <1>8, <2>1
<1>11. CASE ReconnectTimer
  <2> DEFINE w == [ws EXCEPT !.lock = FALSE]
  <2>1. /\ w \in [notified : BOOLEAN, lock : BOOLEAN, armed : SUBSET Timers, sid : Ids, conn : Ids] /\ ~ w.lock
        /\ w.notified = ws.notified /\ w.sid = ws.sid
    BY <1>0
  <2>2. ReconnectWebsocket(w) /\ Head(io).kind = "recon"
    BY <1>11 DEF ReconnectTimer, Completes
  <2> HIDE DEF w
  <2> QED BY <1>8, <2>1, <2>2
<1>12. CASE OnHeartbeat \/ SetPingTimeout
  <2>1. /\ Head(io).kind \in {"heartbeat", "ping"} /\ io' = Tail(io) /\ UNCHANGED <<link, queue>>
        /\ ws'.lock = ws.lock /\ ws'.notified = ws.notified /\ ws'.sid = ws.sid
        /\ wire' # <<>> => wire # <<>> \/ link = "open"
    BY <1>0, <1>12 DEF OnHeartbeat, SetPingTimeout, Completes, network, Sent
  <2>2. ws.sid = "cur" => LoginTold'
    BY <1>2, <1>5, <2>1 DEF LoginTold
  <2>3. Head(io).kind # "open" /\ (wire' # <<>> => link = "open") /\ link' = link
    BY <1>2, <2>1
  <2> QED BY <1>7, <2>1, <2>2, <2>3
<1>13. ASSUME NEW op \in {"new", "delete"}, OnRoomInfo(op) PROVE Logins'
  <2>1. /\ Head(io).kind = op /\ io' = Tail(io) /\ UNCHANGED <<ws, link, wire>> /\ queue' = Append(queue, op)
    BY <1>13 DEF OnRoomInfo, Completes, network
  <2>2. ws.sid = "cur" => LoginTold'
    BY <1>2, <1>6, <2>1
  <2>3. Head(io).kind # "open" /\ (wire' # <<>> => link = "open") /\ link' = link /\ ws' = ws
    BY <1>2, <2>1
  <2> QED BY <1>7, <2>1, <2>2, <2>3
<1>14. CASE OnLogin
  <2>1. /\ Head(io).kind = "login" /\ io' = Tail(io) /\ UNCHANGED <<link, wire>> /\ queue' = Append(queue, "logined")
        /\ ws'.lock = ws.lock /\ ws'.notified = ws.notified /\ ws'.sid = Head(io).of
    BY <1>0, <1>14 DEF OnLogin, Completes, network
  <2>2. LoginTold'
    BY <1>6, <2>1
  <2> QED BY <1>2, <1>7, <2>1, <2>2
<1> QED BY <1>9, <1>10, <1>11, <1>12, <1>13, <1>14 DEF WsThread

\* The tasks of the logic thread: what they take back of the login is told again.
LEMMA TaskLogins ==
    ASSUME Typed, Logins, RunConnected \/ RunLogined \/ RunOutage \/ RunRoomNew \/ RunRoomDelete PROVE Logins'
<1>0. /\ queue \in Seq(Tasks)
      /\ sess \in [state : {"Connecting", "Connected", "Reconnecting", "Logined"}, joined : BOOLEAN, retry : BOOLEAN]
  BY Seqs
<1>1. queue # <<>> /\ queue' = Tail(queue) /\ UNCHANGED <<ws, link, wire, io, down>>
  BY DEF RunConnected, RunLogined, RunOutage, RunRoomNew, RunRoomDelete, Runs, network
<1>2. /\ sess'.state = "Logined" \/ Head(queue) # "logined"
      /\ sess'.state = sess.state \/ sess'.state = "Logined" \/ Head(queue) \in {"connected", "outage"}
  BY <1>0 DEF RunConnected, RunLogined, RunOutage, RunRoomNew, RunRoomDelete, Runs, Cleared
<1>3. LoginTold => LoginTold'
  <2> SUFFICES ASSUME LoginTold PROVE LoginTold'
    OBVIOUS
  <2>1. /\ Follows(Tail(queue), {"connected", "outage"}, "logined")
        /\ Head(queue) \in {"connected", "outage"} => Has(Tail(queue), "logined")
    BY <1>0, <1>1, FollowsLess DEF LoginTold
  <2>2. Has(queue, "logined") => Head(queue) = "logined" \/ Has(Tail(queue), "logined")
    BY <1>0, <1>1, HasLess
  <2>3. LoginTold' <=> /\ Follows(queue', {"connected", "outage"}, "logined")
                       /\ sess'.state = "Logined" \/ Has(queue', "logined")
    BY DEF LoginTold, Follows, Has
  <2>4. sess.state = "Logined" \/ Has(queue, "logined")
    BY DEF LoginTold
  <2> QED BY <1>1, <1>2, <2>1, <2>2, <2>3, <2>4
<1>4. /\ LoginsAfterOpens(io)' <=> LoginsAfterOpens(io)
      /\ Has(io, LoginOfCur)' <=> Has(io, LoginOfCur)
      /\ Opening' <=> Opening
      /\ Waits(io, {"open"})' <=> Waits(io, {"open"})
  BY <1>1 DEF LoginsAfterOpens, Has, Opening, Waits, LoginOfCur, Ready
<1> QED BY <1>1, <1>3, <1>4 DEF Logins

LEMMA RoomLogins ==
    ASSUME Typed, Logins, RequestBegins \/ RequestServed \/ RequestFails \/ Tick \/ IntervalPasses \/ TickEnds
    PROVE  Logins'
<1>0. sess \in [state : {"Connecting", "Connected", "Reconnecting", "Logined"}, joined : BOOLEAN, retry : BOOLEAN]
  BY Seqs
<1>1. /\ UNCHANGED <<ws, link, io, queue, down>> /\ sess'.state = sess.state
      /\ wire' # <<>> => wire # <<>> \/ link = "open"
  BY <1>0 DEF RequestBegins, RequestServed, RequestFails, InRoomAlready, JoinRoom, OpenRoom, Tick, IntervalPasses,
              TickEnds, network, Sent
<1>2. /\ LoginsAfterOpens(io)' <=> LoginsAfterOpens(io)
      /\ Has(io, LoginOfCur)' <=> Has(io, LoginOfCur)
      /\ Opening' <=> Opening
      /\ Waits(io, {"open"})' <=> Waits(io, {"open"})
      /\ LoginTold' <=> LoginTold
  BY <1>1 DEF LoginsAfterOpens, Has, Opening, Waits, LoginOfCur, Ready, LoginTold, Follows
<1> QED BY <1>1, <1>2 DEF Logins

LEMMA LoginsStep == ASSUME Typed, Logins, [Next]_vars PROVE Logins'
<1>1. CASE UNCHANGED vars
  BY <1>1 DEF vars, Logins, LoginsAfterOpens, Has, Opening, Waits, LoginOfCur, Ready, LoginTold, Follows
<1>2. CASE Shutdown
  <2>1. down'
    BY <1>2 DEF Shutdown
  <2> QED BY <2>1 DEF Logins
<1> QED BY <1>1, <1>2, NetworkLogins, WsLogins, TaskLogins, RoomLogins DEF Next, LogicThread, MainThread

\* Whatever outages, late logins of earlier connections and reconnects come between,
\* RtcSession does not miss the login of the connection in use: while the client
\* has a session there, RtcSession counts itself as logged in or is about to hear
\* of it, after everything that would make it forget.
THEOREM LoginsAreHeard == Spec => []LoginsHeard
<1>1. Init => Typed /\ Logins
  <2> SUFFICES ASSUME Init PROVE Logins
    BY TypedStart
  <2> QED BY DEF Init, Logins, LoginsAfterOpens, Has
<1>2. Typed /\ Logins /\ [Next]_vars => (Typed /\ Logins)'
  BY TypedStep, LoginsStep
<1>3. Logins => LoginsHeard
  BY DEF Logins, LoginTold, LoginsHeard
<1> QED BY <1>1, <1>2, <1>3, PTL DEF Spec
=============================================================================
