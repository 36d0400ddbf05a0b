----------------------- MODULE SignalingServer_proofs -----------------------
(***************************************************************************)
(* Proofs about the signaling server, for every number of sessions and     *)
(* rooms, and for requests that may name sessions already closed.          *)
(***************************************************************************)
EXTENDS SignalingServer, TLAPS

\* Only numbers already handed out are in use.
Issued ==
    /\ \A s \in live : s < next
    /\ \A s \in erasing : s < next

\* A timer entry about to be erased belongs to a session already closed.
ErasingIsClosed == erasing \cap live = {}

\* The inductive invariant of the ping timers.
Deadlines == Issued /\ SessionHasDeadline /\ GhostsUnanswered /\ ErasingIsClosed

\* Numbers not handed out yet are in no room, and a session that is not
\* connected has no history: what makes OnOpen safe.
Fresh ==
    /\ asked \subseteq live
    /\ \A s \in Sessions \ live : inroom[s] = {}
    /\ \A r \in DOMAIN rooms, s \in Sessions : rooms[r].sessionids[s] > 0 => s < next

\* The inductive invariant of what clients are told.
Informed == Fresh /\ MembersInformed /\ RoomsKnown

LEMMA InitType == Init => TypeOK
  BY SignalingAssumption DEF Init, TypeOK, Sessions

\* What LeaveRoom makes of the rooms, and that it keeps the types.
LEMMA LeaveRoomType ==
  ASSUME TypeOK, NEW s \in Sessions, LeaveRoom(s)
  PROVE  /\ DOMAIN rooms' = DOMAIN rooms \ ClosedBy(s)
         /\ \A r \in DOMAIN rooms' :
              /\ rooms'[r] = [rooms[r] EXCEPT !.sessionids = [@ EXCEPT ![s] = 0]]
              /\ rooms'[r] \in Room
         /\ inroom' \in [Sessions -> SUBSET RoomIds]
  <1>1. rooms' = [r \in DOMAIN rooms \ ClosedBy(s) |->
                    [rooms[r] EXCEPT !.sessionids = [@ EXCEPT ![s] = 0]]]
    BY DEF LeaveRoom, RoomsWithout
  <1>2. \A r \in DOMAIN rooms :
           [rooms[r] EXCEPT !.sessionids = [@ EXCEPT ![s] = 0]] \in Room
    BY DEF TypeOK, Room
  <1>3. inroom' \in [Sessions -> SUBSET RoomIds]
    BY DEF TypeOK, LeaveRoom, NotifyDelete
  <1> QED BY <1>1, <1>2, <1>3

LEMMA CloseType ==
  ASSUME TypeOK, NEW c \in Sessions, CloseConnectionAndTimer(c)
  PROVE  /\ next' = next /\ live' \subseteq Sessions
         /\ timer' \in [Sessions -> {"none", "armed", "idle"}]
         /\ erasing' \subseteq Sessions
         /\ DOMAIN rooms' \subseteq RoomIds
         /\ \A r \in DOMAIN rooms' : rooms'[r] \in Room
         /\ asked' \subseteq Sessions
         /\ told' \in [Sessions -> SUBSET RoomIds]
         /\ inroom' \in [Sessions -> SUBSET RoomIds]
  <1>1. next' = next /\ live' \subseteq Sessions /\ asked' \subseteq Sessions
        /\ erasing' \subseteq Sessions
        /\ timer' \in [Sessions -> {"none", "armed", "idle"}]
    BY DEF TypeOK, CloseConnectionAndTimer
  <1>2. CASE c \in live
    <2>1. LeaveRoom(c)
      BY <1>2 DEF CloseConnectionAndTimer
    <2>2. told' \in [Sessions -> SUBSET RoomIds]
      <3>1. told' = [NotifyDelete(told, ClosedBy(c)) EXCEPT ![c] = {}]
        BY <1>2 DEF CloseConnectionAndTimer
      <3>2. NotifyDelete(told, ClosedBy(c)) \in [Sessions -> SUBSET RoomIds]
        BY DEF TypeOK, NotifyDelete
      <3> QED BY <3>1, <3>2
    <2>3. DOMAIN rooms' \subseteq RoomIds
      BY <2>1, LeaveRoomType DEF TypeOK
    <2>4. (\A r \in DOMAIN rooms' : rooms'[r] \in Room) /\ inroom' \in [Sessions -> SUBSET RoomIds]
      BY <2>1, LeaveRoomType
    <2> QED BY <1>1, <2>2, <2>3, <2>4
  <1>3. CASE c \notin live
    BY <1>1, <1>3 DEF TypeOK, CloseConnectionAndTimer
  <1> QED BY <1>2, <1>3

LEMMA StepType == TypeOK /\ [Next]_vars => TypeOK'
  <1> SUFFICES ASSUME TypeOK, [Next]_vars PROVE TypeOK'
    OBVIOUS
  <1>1. CASE OnOpen
    <2>1. next \in Sessions /\ next' \in 0 .. MaxSessions
      BY <1>1, SignalingAssumption DEF TypeOK, OnOpen, Sessions
    <2> QED BY <1>1, <2>1 DEF TypeOK, OnOpen
  <1>2. ASSUME NEW c \in Sessions, Connection(c) PROVE TypeOK'
    <2>1. CASE Heartbeat(c)
      BY <2>1 DEF TypeOK, Heartbeat
    <2>2. CASE Expire(c)
      BY <2>2 DEF TypeOK, Expire
    <2>3. CASE SetClientPingTimeout(c)
      BY <2>3, CloseType DEF TypeOK, SetClientPingTimeout
    <2>4. CASE EraseTimer(c)
      BY <2>4 DEF TypeOK, EraseTimer
    <2>5. CASE OnCloseOrError(c)
      BY <2>5, CloseType DEF TypeOK, OnCloseOrError
    <2>6. CASE FallSilent(c)
      BY <2>6 DEF TypeOK, FallSilent
    <2> QED BY <1>2, <2>1, <2>2, <2>3, <2>4, <2>5, <2>6 DEF Connection
  <1>3. ASSUME NEW s \in Sessions, Request(s) PROVE TypeOK'
    <2>1. CASE RefuseInRoom(s)
      BY <2>1 DEF TypeOK, RefuseInRoom, Answered, IsSessionidExisted, timers
    <2>2. ASSUME NEW r \in RoomIds, NEW type \in RoomTypes, NEW force \in BOOLEAN,
                 OpenRoom(s, r, type, force)
          PROVE  TypeOK'
      <3>1. [room_type |-> type,
             sessionids |-> [y \in Sessions |-> IF y = s THEN 1 ELSE 0],
             broadcaster_sessionid |->
                IF type = "VideoBroadcasting" THEN s ELSE NoSession,
             opened_by |-> s] \in Room
        BY DEF Room
      <3>2. DOMAIN rooms' \subseteq RoomIds /\ \A x \in DOMAIN rooms' : rooms'[x] \in Room
        BY <2>2, <3>1 DEF TypeOK, OpenRoom
      <3> QED BY <2>2, <3>2 DEF TypeOK, OpenRoom, Answered, timers
    <2>3. ASSUME NEW r \in RoomIds, JoinRoom(s, r) PROVE TypeOK'
      <3>1. r \in DOMAIN rooms /\ rooms[r] \in Room
        BY <2>3 DEF JoinRoom, TypeOK
      <3>2. /\ DOMAIN rooms' = DOMAIN rooms
            /\ \A x \in DOMAIN rooms : x # r => rooms'[x] = rooms[x]
            /\ rooms'[r] = [rooms[r] EXCEPT !.sessionids[s] = @ + 1]
        BY <2>3, <3>1 DEF JoinRoom
      <3>3. rooms'[r] \in Room
        BY <3>1, <3>2 DEF Room
      <3>4. DOMAIN rooms' \subseteq RoomIds /\ \A x \in DOMAIN rooms' : rooms'[x] \in Room
        BY <3>1, <3>2, <3>3 DEF TypeOK
      <3> QED BY <2>3, <3>4 DEF TypeOK, JoinRoom, Answered, timers
    <2>4. CASE HttpLeaveRoom(s)
      BY <2>4, LeaveRoomType DEF TypeOK, HttpLeaveRoom, NotifyDelete, timers
    <2>5. CASE QueryRooms(s)
      BY <2>5 DEF TypeOK, QueryRooms, timers
    <2> QED BY <1>3, <2>1, <2>2, <2>3, <2>4, <2>5 DEF Request
  <1>4. ASSUME NEW r \in RoomIds, CloseRoom(r) PROVE TypeOK'
    BY <1>4 DEF TypeOK, CloseRoom, NotifyDelete, timers
  <1>5. CASE UNCHANGED vars
    BY <1>5 DEF TypeOK, vars
  <1> QED BY <1>1, <1>2, <1>3, <1>4, <1>5 DEF Next

\* Every variable of the signaling server keeps its type.
THEOREM TypeCorrect == Spec => []TypeOK
  BY InitType, StepType, PTL DEF Spec

-----------------------------------------------------------------------------
(* What the operations make of the members of each room. *)

LeaveOutcome(s) ==
    /\ DOMAIN rooms' = DOMAIN rooms \ ClosedBy(s)
    /\ \A r \in DOMAIN rooms' :
          /\ rooms'[r].room_type = rooms[r].room_type
          /\ rooms'[r].broadcaster_sessionid = rooms[r].broadcaster_sessionid
          /\ \A x \in Sessions :
                rooms'[r].sessionids[x] = IF x = s THEN 0 ELSE rooms[r].sessionids[x]

OpenOutcome(s, r) ==
    /\ DOMAIN rooms' = DOMAIN rooms \cup {r}
    /\ \A q \in DOMAIN rooms : q # r => rooms'[q] = rooms[q]
    /\ rooms'[r].room_type = "VideoBroadcasting" => rooms'[r].broadcaster_sessionid = s
    /\ \A x \in Sessions : rooms'[r].sessionids[x] = IF x = s THEN 1 ELSE 0
    /\ \A q \in DOMAIN rooms : ~(rooms[q].sessionids[s] > 0)

JoinOutcome(s, r) ==
    /\ r \in DOMAIN rooms
    /\ DOMAIN rooms' = DOMAIN rooms
    /\ \A q \in DOMAIN rooms :
          /\ rooms'[q].room_type = rooms[q].room_type
          /\ rooms'[q].broadcaster_sessionid = rooms[q].broadcaster_sessionid
          /\ \A x \in Sessions : rooms'[q].sessionids[x] =
                IF q = r /\ x = s THEN 1 ELSE rooms[q].sessionids[x]
    /\ \A q \in DOMAIN rooms : ~(rooms[q].sessionids[s] > 0)

CloseOutcome(r) ==
    /\ DOMAIN rooms' = DOMAIN rooms \ {r}
    /\ \A q \in DOMAIN rooms' : rooms'[q] = rooms[q]

LEMMA LeaveEffect ==
  ASSUME TypeOK, NEW s \in Sessions, LeaveRoom(s)
  PROVE  LeaveOutcome(s)
  <1>1. DOMAIN rooms' = DOMAIN rooms \ ClosedBy(s)
    BY LeaveRoomType
  <1>2. ASSUME NEW r \in DOMAIN rooms'
        PROVE  /\ rooms'[r].room_type = rooms[r].room_type
               /\ rooms'[r].broadcaster_sessionid = rooms[r].broadcaster_sessionid
               /\ \A x \in Sessions : rooms'[r].sessionids[x] =
                     IF x = s THEN 0 ELSE rooms[r].sessionids[x]
    <2>1. rooms'[r] = [rooms[r] EXCEPT !.sessionids = [@ EXCEPT ![s] = 0]]
      BY LeaveRoomType
    <2>2. rooms[r] \in Room
      BY <1>1 DEF TypeOK
    <2> QED BY <2>1, <2>2 DEF Room
  <1> QED BY <1>1, <1>2 DEF LeaveOutcome

LEMMA OpenEffect ==
  ASSUME NEW s \in Sessions, NEW r \in RoomIds, NEW type \in RoomTypes,
         NEW force \in BOOLEAN, OpenRoom(s, r, type, force)
  PROVE  OpenOutcome(s, r)
  BY DEF OpenRoom, OpenOutcome, IsSessionidExisted

LEMMA JoinEffect ==
  ASSUME TypeOK, NEW s \in Sessions, NEW r \in RoomIds, JoinRoom(s, r)
  PROVE  JoinOutcome(s, r)
  <1>1. r \in DOMAIN rooms /\ rooms[r] \in Room
    BY DEF JoinRoom, TypeOK
  <1>2. \A q \in DOMAIN rooms : ~(rooms[q].sessionids[s] > 0)
    BY DEF JoinRoom, IsSessionidExisted
  <1>3. rooms[r].sessionids[s] = 0
    BY <1>1, <1>2 DEF Room
  <1>4. /\ DOMAIN rooms' = DOMAIN rooms
        /\ \A q \in DOMAIN rooms : q # r => rooms'[q] = rooms[q]
        /\ rooms'[r] = [rooms[r] EXCEPT !.sessionids[s] = @ + 1]
    BY <1>1 DEF JoinRoom
  <1>5. /\ rooms'[r].room_type = rooms[r].room_type
        /\ rooms'[r].broadcaster_sessionid = rooms[r].broadcaster_sessionid
        /\ \A x \in Sessions : rooms'[r].sessionids[x] =
              IF x = s THEN 1 ELSE rooms[r].sessionids[x]
    BY <1>1, <1>3, <1>4 DEF Room
  <1> QED BY <1>1, <1>2, <1>4, <1>5 DEF JoinOutcome

LEMMA CloseRoomEffect ==
  ASSUME NEW r \in RoomIds, CloseRoom(r)
  PROVE  CloseOutcome(r)
  BY DEF CloseRoom, CloseOutcome

\* A step that changes the rooms is one of four operations.
LEMMA RoomStep ==
  ASSUME TypeOK, [Next]_vars, UNCHANGED rooms => FALSE
  PROVE  \/ \E s \in Sessions : LeaveRoom(s)
         \/ \E s \in Sessions, r \in RoomIds, type \in RoomTypes, force \in BOOLEAN :
               OpenRoom(s, r, type, force)
         \/ \E s \in Sessions, r \in RoomIds : JoinRoom(s, r)
         \/ \E r \in RoomIds : CloseRoom(r)
  <1>1. CASE OnOpen
    BY <1>1 DEF OnOpen
  <1>2. ASSUME NEW c \in Sessions, Connection(c) PROVE LeaveRoom(c)
    BY <1>2 DEF Connection, Heartbeat, Expire, SetClientPingTimeout, EraseTimer,
                OnCloseOrError, FallSilent, CloseConnectionAndTimer
  <1>3. ASSUME NEW s \in Sessions, Request(s)
        PROVE  \/ LeaveRoom(s)
               \/ \E r \in RoomIds, type \in RoomTypes, force \in BOOLEAN :
                     OpenRoom(s, r, type, force)
               \/ \E r \in RoomIds : JoinRoom(s, r)
    BY <1>3 DEF Request, RefuseInRoom, HttpLeaveRoom, QueryRooms
  <1>4. CASE UNCHANGED vars
    BY <1>4 DEF vars
  <1> QED BY <1>1, <1>2, <1>3, <1>4 DEF Next

-----------------------------------------------------------------------------

LEMMA InitMembership == Init => OneRoom /\ RoomsInhabited
  BY DEF Init, OneRoom, RoomsInhabited, IsSessionidExisted

LEMMA StepOneRoom == TypeOK /\ OneRoom /\ [Next]_vars => OneRoom'
  <1> SUFFICES ASSUME TypeOK, OneRoom, [Next]_vars PROVE OneRoom'
    OBVIOUS
  <1>1. CASE UNCHANGED rooms
    BY <1>1 DEF OneRoom, IsSessionidExisted
  <1>2. ASSUME NEW s \in Sessions, LeaveRoom(s) PROVE OneRoom'
    <2>1. LeaveOutcome(s)
      BY <1>2, LeaveEffect
    <2> QED BY <2>1 DEF LeaveOutcome, OneRoom, IsSessionidExisted
  <1>3. ASSUME NEW s \in Sessions, NEW r \in RoomIds, NEW type \in RoomTypes,
               NEW force \in BOOLEAN, OpenRoom(s, r, type, force)
        PROVE  OneRoom'
    <2>1. OpenOutcome(s, r)
      BY <1>3, OpenEffect
    <2> QED BY <2>1 DEF OpenOutcome, OneRoom, IsSessionidExisted
  <1>4. ASSUME NEW s \in Sessions, NEW r \in RoomIds, JoinRoom(s, r) PROVE OneRoom'
    <2>1. JoinOutcome(s, r)
      BY <1>4, JoinEffect
    <2> QED BY <2>1 DEF JoinOutcome, OneRoom, IsSessionidExisted
  <1>5. ASSUME NEW r \in RoomIds, CloseRoom(r) PROVE OneRoom'
    <2>1. CloseOutcome(r)
      BY <1>5, CloseRoomEffect
    <2> QED BY <2>1 DEF CloseOutcome, OneRoom, IsSessionidExisted
  <1> QED BY <1>1, <1>2, <1>3, <1>4, <1>5, RoomStep

LEMMA StepInhabited == TypeOK /\ RoomsInhabited /\ [Next]_vars => RoomsInhabited'
  <1> SUFFICES ASSUME TypeOK, RoomsInhabited, [Next]_vars PROVE RoomsInhabited'
    OBVIOUS
  <1>1. CASE UNCHANGED rooms
    BY <1>1 DEF RoomsInhabited
  <1>2. ASSUME NEW s \in Sessions, LeaveRoom(s) PROVE RoomsInhabited'
    <2>1. LeaveOutcome(s)
      BY <1>2, LeaveEffect
    <2> SUFFICES ASSUME NEW r \in DOMAIN rooms'
                 PROVE  /\ \E x \in Sessions : rooms'[r].sessionids[x] > 0
                        /\ rooms'[r].room_type = "VideoBroadcasting" =>
                             /\ rooms'[r].broadcaster_sessionid \in Sessions
                             /\ rooms'[r].sessionids[rooms'[r].broadcaster_sessionid] > 0
      BY DEF RoomsInhabited
    <2>2. r \in DOMAIN rooms /\ r \notin ClosedBy(s) /\ rooms[r] \in Room
      BY <2>1 DEF LeaveOutcome, TypeOK
    <2>3. CASE rooms[r].sessionids[s] > 0
      <3>1. ~ClosesWith(r, s)
        BY <2>2, <2>3 DEF ClosedBy, IsSessionidExisted
      <3>2. PICK x \in Sessions \ {s} : rooms[r].sessionids[x] # 0
        BY <3>1 DEF ClosesWith
      <3>3. rooms[r].sessionids[x] > 0
        BY <2>2, <3>2 DEF Room
      <3>4. rooms'[r].sessionids[x] > 0
        BY <2>1, <3>2, <3>3 DEF LeaveOutcome
      <3>5. ASSUME rooms'[r].room_type = "VideoBroadcasting"
            PROVE  /\ rooms'[r].broadcaster_sessionid \in Sessions
                   /\ rooms'[r].sessionids[rooms'[r].broadcaster_sessionid] > 0
        <4>1. /\ rooms[r].room_type = "VideoBroadcasting"
              /\ rooms'[r].broadcaster_sessionid = rooms[r].broadcaster_sessionid
          BY <2>1, <3>5 DEF LeaveOutcome
        <4>2. rooms[r].broadcaster_sessionid # s
          BY <3>1, <4>1 DEF ClosesWith
        <4> QED BY <2>1, <2>2, <4>1, <4>2 DEF LeaveOutcome, RoomsInhabited
      <3> QED BY <3>2, <3>4, <3>5
    <2>4. CASE ~(rooms[r].sessionids[s] > 0)
      <3>1. \A x \in Sessions : rooms[r].sessionids[x] > 0 => rooms'[r].sessionids[x] > 0
        BY <2>1, <2>4 DEF LeaveOutcome
      <3> QED BY <2>1, <2>2, <3>1 DEF LeaveOutcome, RoomsInhabited
    <2> QED BY <2>3, <2>4
  <1>3. ASSUME NEW s \in Sessions, NEW r \in RoomIds, NEW type \in RoomTypes,
               NEW force \in BOOLEAN, OpenRoom(s, r, type, force)
        PROVE  RoomsInhabited'
    <2>1. OpenOutcome(s, r)
      BY <1>3, OpenEffect
    <2> QED BY <2>1 DEF OpenOutcome, RoomsInhabited
  <1>4. ASSUME NEW s \in Sessions, NEW r \in RoomIds, JoinRoom(s, r)
        PROVE  RoomsInhabited'
    <2>1. JoinOutcome(s, r)
      BY <1>4, JoinEffect
    <2>2. \A q \in DOMAIN rooms, x \in Sessions :
             rooms[q].sessionids[x] > 0 => rooms'[q].sessionids[x] > 0
      BY <2>1 DEF JoinOutcome
    <2> QED BY <2>1, <2>2 DEF JoinOutcome, RoomsInhabited
  <1>5. ASSUME NEW r \in RoomIds, CloseRoom(r) PROVE RoomsInhabited'
    <2>1. CloseOutcome(r)
      BY <1>5, CloseRoomEffect
    <2> QED BY <2>1 DEF CloseOutcome, RoomsInhabited
  <1> QED BY <1>1, <1>2, <1>3, <1>4, <1>5, RoomStep

\* A session is in at most one room and in it once, for any number of sessions
\* and rooms and also when requests name sessions already closed: the states
\* LeaveRoom reports with "it cannot be" are unreachable.
THEOREM MembershipUnique == Spec => []OneRoom
  <1>1. Init => OneRoom
    BY InitMembership
  <1> QED BY <1>1, StepOneRoom, TypeCorrect, PTL DEF Spec

\* No room is ever empty, and a broadcasting room holds its broadcaster.
THEOREM RoomsAreInhabited == Spec => []RoomsInhabited
  <1>1. Init => RoomsInhabited
    BY InitMembership
  <1> QED BY <1>1, StepInhabited, TypeCorrect, PTL DEF Spec

-----------------------------------------------------------------------------
(* Ping timers. *)

LEMMA InitDeadlines == Init => Deadlines
  BY DEF Init, Deadlines, Issued, SessionHasDeadline, GhostsUnanswered, ErasingIsClosed

LEMMA CloseDeadlines ==
  ASSUME TypeOK, Deadlines, NEW c \in Sessions, CloseConnectionAndTimer(c)
  PROVE  /\ Issued' /\ GhostsUnanswered' /\ ErasingIsClosed'
         /\ live' = live \ {c}
         /\ \A s \in live' : timer'[s] = timer[s]
  <1> USE DEF Deadlines
  <1>1. live' = live \ {c} /\ next' = next
    BY DEF CloseConnectionAndTimer
  <1>2. CASE timer[c] = "none"
    <2>1. UNCHANGED <<timer, erasing>>
      BY <1>2 DEF CloseConnectionAndTimer
    <2> QED BY <1>1, <1>2, <2>1 DEF Issued, GhostsUnanswered, ErasingIsClosed
  <1>3. CASE timer[c] # "none"
    <2>1. timer' = [timer EXCEPT ![c] = "idle"] /\ erasing' = erasing \cup {c}
      BY <1>3 DEF CloseConnectionAndTimer
    <2>2. c < next
      BY <1>3 DEF Issued, GhostsUnanswered
    <2> QED BY <1>1, <2>1, <2>2 DEF TypeOK, Issued, GhostsUnanswered, ErasingIsClosed
  <1> QED BY <1>2, <1>3

LEMMA StepDeadlines == TypeOK /\ Deadlines /\ [Next]_vars => Deadlines'
  <1> SUFFICES ASSUME TypeOK, Deadlines, [Next]_vars PROVE Deadlines'
    OBVIOUS
  <1> USE DEF Deadlines
  <1>1. CASE OnOpen
    <2>1. next \in Sessions /\ next' = next + 1 /\ next \in Nat
      BY <1>1, SignalingAssumption DEF TypeOK, OnOpen, Sessions
    <2>2. \A s \in Sessions : s < next => s < next'
      BY <2>1 DEF Sessions
    <2>3. Issued'
      BY <1>1, <2>1, <2>2 DEF OnOpen, Issued, TypeOK
    <2>4. next \notin erasing
      BY <2>1 DEF Issued
    <2> QED BY <1>1, <2>1, <2>3, <2>4
            DEF OnOpen, TypeOK, SessionHasDeadline, GhostsUnanswered, ErasingIsClosed
  <1>2. ASSUME NEW c \in Sessions, Connection(c) PROVE Deadlines'
    <2>1. CASE Heartbeat(c)
      BY <2>1 DEF Heartbeat, TypeOK, Issued, SessionHasDeadline, GhostsUnanswered,
                  ErasingIsClosed
    <2>2. CASE Expire(c)
      BY <2>2 DEF Expire, TypeOK, Issued, SessionHasDeadline, GhostsUnanswered,
                  ErasingIsClosed
    <2>3. CASE SetClientPingTimeout(c)
      <3>1. CloseConnectionAndTimer(c) /\ due' = due \ {c}
        BY <2>3 DEF SetClientPingTimeout
      <3> QED BY <3>1, CloseDeadlines DEF SessionHasDeadline
    <2>4. CASE EraseTimer(c)
      <3>1. c \notin live
        BY <2>4 DEF EraseTimer, ErasingIsClosed
      <3> QED BY <2>4, <3>1 DEF EraseTimer, TypeOK, Issued, SessionHasDeadline,
                                GhostsUnanswered, ErasingIsClosed
    <2>5. CASE OnCloseOrError(c)
      <3>1. CloseConnectionAndTimer(c) /\ due' = due
        BY <2>5 DEF OnCloseOrError
      <3> QED BY <3>1, CloseDeadlines DEF SessionHasDeadline
    <2>6. CASE FallSilent(c)
      BY <2>6 DEF FallSilent, Issued, SessionHasDeadline, GhostsUnanswered, ErasingIsClosed
    <2> QED BY <1>2, <2>1, <2>2, <2>3, <2>4, <2>5, <2>6 DEF Connection
  <1>3. CASE \/ \E s \in Sessions : Request(s)
             \/ \E r \in RoomIds : CloseRoom(r)
             \/ UNCHANGED vars
    <2>1. UNCHANGED <<next, live, timer, due, erasing>>
      BY <1>3 DEF Request, RefuseInRoom, OpenRoom, JoinRoom, HttpLeaveRoom, QueryRooms,
                  CloseRoom, timers, vars
    <2> QED BY <2>1 DEF Issued, SessionHasDeadline, GhostsUnanswered, ErasingIsClosed
  <1> QED BY <1>1, <1>2, <1>3 DEF Next

LEMMA DeadlinesHold == Spec => []Deadlines
  BY InitDeadlines, StepDeadlines, TypeCorrect, PTL DEF Spec

\* Every connected session has a running ping timer or its closing queued,
\* however heartbeats, expiries, queued handlers and erasures interleave.
THEOREM SessionsHaveDeadlines == Spec => []SessionHasDeadline
  <1>1. Deadlines => SessionHasDeadline
    BY DEF Deadlines
  <1> QED BY <1>1, DeadlinesHold, PTL

\* A connection whose session was closed keeps its timer entry, and with it
\* the answers to its heartbeats, only until the posted erasure runs.
THEOREM GhostsAreUnanswered == Spec => []GhostsUnanswered
  <1>1. Deadlines => GhostsUnanswered
    BY DEF Deadlines
  <1> QED BY <1>1, DeadlinesHold, PTL

-----------------------------------------------------------------------------
(* What clients are told. *)

\* What LeaveRoom and the notifications it sends do to the histories.
LEMMA LeaveInformed ==
  ASSUME TypeOK, MembersInformed, NEW s \in Sessions, LeaveRoom(s),
         NEW x \in Sessions, x \in live \/ x = s
  PROVE  inroom'[x] = IsSessionidExisted(x)'
  <1>1. LeaveOutcome(s)
    BY LeaveEffect
  <1>2. inroom'[x] = IF x = s THEN {} ELSE inroom[x] \ ClosedBy(s)
    BY DEF LeaveRoom, NotifyDelete, TypeOK
  <1>3. CASE x = s
    BY <1>1, <1>2, <1>3 DEF LeaveOutcome, IsSessionidExisted
  <1>4. CASE x # s
    <2>1. inroom'[x] = {r \in DOMAIN rooms : rooms[r].sessionids[x] > 0} \ ClosedBy(s)
      BY <1>2, <1>4 DEF MembersInformed, IsSessionidExisted
    <2>2. \A r \in DOMAIN rooms' : rooms'[r].sessionids[x] = rooms[r].sessionids[x]
      BY <1>1, <1>4 DEF LeaveOutcome
    <2>3. DOMAIN rooms' = DOMAIN rooms \ ClosedBy(s)
      BY <1>1 DEF LeaveOutcome
    <2> QED BY <2>1, <2>2, <2>3 DEF IsSessionidExisted
  <1> QED BY <1>3, <1>4

LEMMA LeaveFresh ==
  ASSUME TypeOK, Fresh, NEW s \in Sessions, LeaveRoom(s)
  PROVE  /\ \A x \in Sessions \ live : inroom'[x] = {}
         /\ inroom'[s] = {}
         /\ \A r \in DOMAIN rooms', x \in Sessions :
               rooms'[r].sessionids[x] > 0 => x < next
  <1>1. LeaveOutcome(s)
    BY LeaveEffect
  <1>2. \A r \in DOMAIN rooms', x \in Sessions :
               rooms'[r].sessionids[x] > 0 => x < next
    BY <1>1 DEF LeaveOutcome, Fresh
  <1> QED BY <1>2 DEF LeaveRoom, NotifyDelete, TypeOK, Fresh

LEMMA LeaveKnown ==
  ASSUME TypeOK, RoomsKnown, NEW s \in Sessions, LeaveRoom(s),
         NEW x \in asked
  PROVE  told[x] \ ClosedBy(s) = DOMAIN rooms'
  BY LeaveEffect DEF LeaveOutcome, RoomsKnown, TypeOK

LEMMA CloseInformed ==
  ASSUME TypeOK, Informed, NEW c \in Sessions, CloseConnectionAndTimer(c)
  PROVE  /\ asked' \subseteq live'
         /\ \A s \in Sessions \ live' : inroom'[s] = {}
         /\ \A r \in DOMAIN rooms', s \in Sessions :
               rooms'[r].sessionids[s] > 0 => s < next
         /\ MembersInformed'
         /\ RoomsKnown'
  <1>1. CASE c \in live
    <2>1. /\ LeaveRoom(c)
          /\ live' = live \ {c}
          /\ asked' = asked \ {c}
          /\ told' = [NotifyDelete(told, ClosedBy(c)) EXCEPT ![c] = {}]
      BY <1>1 DEF CloseConnectionAndTimer
    <2>2. /\ \A x \in Sessions \ live : inroom'[x] = {}
          /\ inroom'[c] = {}
          /\ \A r \in DOMAIN rooms', x \in Sessions :
                rooms'[r].sessionids[x] > 0 => x < next
      BY <2>1, LeaveFresh DEF Informed
    <2>3. MembersInformed'
      BY <2>1, LeaveInformed DEF Informed, MembersInformed, TypeOK
    <2>4. \A x \in asked' : told'[x] = told[x] \ ClosedBy(c)
      BY <2>1 DEF NotifyDelete, TypeOK
    <2>5. RoomsKnown'
      BY <2>1, <2>4, LeaveKnown DEF Informed, RoomsKnown
    <2> QED BY <2>1, <2>2, <2>3, <2>5 DEF Informed, Fresh
  <1>2. CASE c \notin live
    <2>1. UNCHANGED <<rooms, live, asked, told, inroom>>
      BY <1>2 DEF CloseConnectionAndTimer
    <2> QED BY <2>1 DEF Informed, Fresh, MembersInformed, RoomsKnown, IsSessionidExisted
  <1> QED BY <1>1, <1>2

LEMMA InitInformed == Init => Informed
  BY DEF Init, Informed, Fresh, MembersInformed, RoomsKnown

LEMMA RequesterIssued ==
  ASSUME TypeOK, Issued, NEW s \in Requesters
  PROVE  s < next
  <1>1. CASE LateRequests
    BY <1>1 DEF Requesters, TypeOK
  <1>2. CASE ~LateRequests
    BY <1>2 DEF Requesters, Issued
  <1> QED BY <1>1, <1>2

LEMMA StepInformed ==
  TypeOK /\ OneRoom /\ Issued /\ Informed /\ [Next]_vars => Informed'
  <1> SUFFICES ASSUME TypeOK, OneRoom, Issued, Informed, [Next]_vars PROVE Informed'
    OBVIOUS
  <1> USE DEF Informed
  <1>1. CASE OnOpen
    <2>1. next \in Sessions /\ next' = next + 1 /\ next \in Nat
      BY <1>1, SignalingAssumption DEF TypeOK, OnOpen, Sessions
    <2>2. next \notin live
      BY <2>1 DEF Issued
    <2>3. \A r \in DOMAIN rooms : ~(rooms[r].sessionids[next] > 0)
      BY <2>1 DEF Fresh
    <2>4. MembersInformed'
      BY <1>1, <2>1, <2>2, <2>3 DEF OnOpen, MembersInformed, IsSessionidExisted, Fresh
    <2>5. \A s \in Sessions : s < next => s < next'
      BY <2>1 DEF Sessions
    <2>6. Fresh'
      BY <1>1, <2>1, <2>5 DEF OnOpen, Fresh, TypeOK
    <2> QED BY <1>1, <2>4, <2>6 DEF OnOpen, RoomsKnown
  <1>2. ASSUME NEW c \in Sessions, Connection(c) PROVE Informed'
    <2>1. CASE Heartbeat(c) \/ Expire(c) \/ FallSilent(c) \/ EraseTimer(c)
      <3>1. UNCHANGED <<next, live, rooms, asked, told, inroom>>
        BY <2>1 DEF Heartbeat, Expire, FallSilent, EraseTimer
      <3> QED BY <3>1 DEF Fresh, MembersInformed, RoomsKnown, IsSessionidExisted
    <2>2. CASE SetClientPingTimeout(c) \/ OnCloseOrError(c)
      <3>1. CloseConnectionAndTimer(c) /\ next' = next
        BY <2>2 DEF SetClientPingTimeout, OnCloseOrError, CloseConnectionAndTimer
      <3> QED BY <3>1, CloseInformed DEF Fresh
    <2> QED BY <1>2, <2>1, <2>2 DEF Connection
  <1>3. ASSUME NEW s \in Sessions, Request(s) PROVE Informed'
    <2>1. CASE RefuseInRoom(s)
      <3>1. PICK r \in IsSessionidExisted(s) : inroom' = Answered(inroom, s, r)
        BY <2>1 DEF RefuseInRoom
      <3>2. IsSessionidExisted(s) = {r}
        BY <3>1 DEF OneRoom
      <3>3. UNCHANGED <<next, live, rooms, asked, told>>
        BY <2>1 DEF RefuseInRoom
      <3>4. inroom' = inroom
        BY <3>1, <3>2 DEF Answered, MembersInformed, TypeOK
      <3> QED BY <3>3, <3>4 DEF Fresh, MembersInformed, RoomsKnown, IsSessionidExisted
    <2>2. ASSUME NEW r \in RoomIds, NEW type \in RoomTypes, NEW force \in BOOLEAN,
                 OpenRoom(s, r, type, force)
          PROVE  Informed'
      <3>0. s < next
        <4>1. s \in Requesters
          BY <2>2 DEF OpenRoom
        <4> QED BY <4>1, RequesterIssued
      <3>1. OpenOutcome(s, r)
        BY <2>2, OpenEffect
      <3>2. /\ UNCHANGED <<next, live, asked>>
            /\ told' = [x \in Sessions |->
                          IF x \in asked THEN told[x] \cup {r} ELSE told[x]]
            /\ inroom' = Answered([x \in Sessions |-> inroom[x] \ {r}], s, r)
        BY <2>2 DEF OpenRoom
      <3>3. \A x \in Sessions : inroom'[x] =
               IF x = s /\ x \in live THEN {r} ELSE inroom[x] \ {r}
        BY <3>2 DEF Answered
      <3>4. Fresh'
        <4>1. ASSUME NEW q \in DOMAIN rooms', NEW x \in Sessions,
                     rooms'[q].sessionids[x] > 0
              PROVE  x < next
          <5>1. CASE q = r
            BY <3>0, <3>1, <4>1, <5>1 DEF OpenOutcome
          <5>2. CASE q # r
            BY <3>1, <4>1, <5>2 DEF OpenOutcome, Fresh
          <5> QED BY <5>1, <5>2
        <4> QED BY <3>2, <3>3, <4>1 DEF Fresh
      <3>5. ASSUME NEW x \in live PROVE inroom'[x] = IsSessionidExisted(x)'
        <4>1. x \in Sessions /\ inroom[x] = {q \in DOMAIN rooms : rooms[q].sessionids[x] > 0}
          BY DEF TypeOK, MembersInformed, IsSessionidExisted
        <4>2. CASE x = s
          <5>1. \A q \in DOMAIN rooms' : rooms'[q].sessionids[s] > 0 <=> q = r
            BY <3>1 DEF OpenOutcome
          <5> QED BY <3>1, <3>3, <4>1, <4>2, <5>1 DEF OpenOutcome, IsSessionidExisted
        <4>3. CASE x # s
          <5>1. ~(rooms'[r].sessionids[x] > 0)
            BY <3>1, <4>1, <4>3 DEF OpenOutcome
          <5>2. \A q \in DOMAIN rooms \ {r} : rooms'[q] = rooms[q]
            BY <3>1 DEF OpenOutcome
          <5>3. inroom'[x] = {q \in DOMAIN rooms : rooms[q].sessionids[x] > 0} \ {r}
            BY <3>3, <4>1, <4>3
          <5>4. DOMAIN rooms' = DOMAIN rooms \cup {r}
            BY <3>1 DEF OpenOutcome
          <5> QED BY <5>1, <5>2, <5>3, <5>4 DEF IsSessionidExisted
        <4> QED BY <4>2, <4>3
      <3>6. RoomsKnown'
        BY <3>1, <3>2 DEF OpenOutcome, RoomsKnown, TypeOK
      <3> QED BY <3>2, <3>4, <3>5, <3>6 DEF MembersInformed
    <2>3. ASSUME NEW r \in RoomIds, JoinRoom(s, r) PROVE Informed'
      <3>0. s < next
        <4>1. s \in Requesters
          BY <2>3 DEF JoinRoom
        <4> QED BY <4>1, RequesterIssued
      <3>1. JoinOutcome(s, r)
        BY <2>3, JoinEffect
      <3>2. UNCHANGED <<next, live, asked, told>> /\ inroom' = Answered(inroom, s, r)
        BY <2>3 DEF JoinRoom
      <3>3. \A x \in Sessions : inroom'[x] = IF x = s /\ x \in live THEN {r} ELSE inroom[x]
        BY <3>2 DEF Answered, TypeOK
      <3>4. Fresh'
        BY <3>0, <3>1, <3>2, <3>3 DEF JoinOutcome, Fresh
      <3>5. ASSUME NEW x \in live PROVE inroom'[x] = IsSessionidExisted(x)'
        <4>1. x \in Sessions /\ inroom[x] = {q \in DOMAIN rooms : rooms[q].sessionids[x] > 0}
          BY DEF TypeOK, MembersInformed, IsSessionidExisted
        <4>2. CASE x = s
          BY <3>1, <3>3, <4>1, <4>2 DEF JoinOutcome, IsSessionidExisted
        <4>3. CASE x # s
          BY <3>1, <3>3, <4>1, <4>3 DEF JoinOutcome, IsSessionidExisted
        <4> QED BY <4>2, <4>3
      <3> QED BY <3>1, <3>2, <3>4, <3>5 DEF MembersInformed, RoomsKnown, JoinOutcome
    <2>4. CASE HttpLeaveRoom(s)
      <3>1. /\ LeaveRoom(s)
            /\ told' = NotifyDelete(told, ClosedBy(s))
            /\ UNCHANGED <<next, live, asked>>
        BY <2>4 DEF HttpLeaveRoom
      <3>2. Fresh'
        BY <3>1, LeaveFresh DEF Fresh
      <3>3. MembersInformed'
        BY <3>1, LeaveInformed DEF MembersInformed, TypeOK
      <3>4. \A x \in asked : told'[x] = told[x] \ ClosedBy(s)
        BY <3>1 DEF NotifyDelete, TypeOK
      <3>5. RoomsKnown'
        BY <3>1, <3>4, LeaveKnown DEF RoomsKnown
      <3> QED BY <3>2, <3>3, <3>5
    <2>5. CASE QueryRooms(s)
      BY <2>5 DEF QueryRooms, TypeOK, Fresh, MembersInformed, RoomsKnown, IsSessionidExisted
    <2> QED BY <1>3, <2>1, <2>2, <2>3, <2>4, <2>5 DEF Request
  <1>4. ASSUME NEW r \in RoomIds, CloseRoom(r) PROVE Informed'
    <2>1. CloseOutcome(r)
      BY <1>4, CloseRoomEffect
    <2>2. /\ UNCHANGED <<next, live, asked>>
          /\ told' = [x \in Sessions |-> told[x] \ {r}]
          /\ inroom' = [x \in Sessions |-> inroom[x] \ {r}]
      BY <1>4 DEF CloseRoom, NotifyDelete
    <2>3. Fresh'
      BY <2>1, <2>2 DEF CloseOutcome, Fresh
    <2>4. ASSUME NEW x \in live PROVE inroom'[x] = IsSessionidExisted(x)'
      <3>1. x \in Sessions /\ inroom[x] = {q \in DOMAIN rooms : rooms[q].sessionids[x] > 0}
        BY DEF TypeOK, MembersInformed, IsSessionidExisted
      <3> QED BY <2>1, <2>2, <3>1 DEF CloseOutcome, IsSessionidExisted
    <2> QED BY <2>1, <2>2, <2>3, <2>4 DEF CloseOutcome, MembersInformed, RoomsKnown, TypeOK
  <1>5. CASE UNCHANGED vars
    BY <1>5 DEF vars, Fresh, MembersInformed, RoomsKnown, IsSessionidExisted
  <1> QED BY <1>1, <1>2, <1>3, <1>4, <1>5 DEF Next

LEMMA InformedHolds == Spec => []Informed
  <1>1. Deadlines => Issued
    BY DEF Deadlines
  <1> QED BY <1>1, InitInformed, StepInformed, TypeCorrect, MembershipUnique,
             DeadlinesHold, PTL DEF Spec

\* A connected session is in exactly the room the server's last answer and the
\* notifications since then put it in.
THEOREM MembersAreInformed == Spec => []MembersInformed
  <1>1. Informed => MembersInformed
    BY DEF Informed
  <1> QED BY <1>1, InformedHolds, PTL

\* The notifications keep every session that once asked for the rooms up to
\* date, whichever way rooms appear and vanish.
THEOREM RoomsAreKnown == Spec => []RoomsKnown
  <1>1. Informed => RoomsKnown
    BY DEF Informed
  <1> QED BY <1>1, InformedHolds, PTL

-----------------------------------------------------------------------------

LEMMA StepConnected ==
  ASSUME ~LateRequests
  PROVE  TypeOK /\ MembersConnected /\ [Next]_vars => MembersConnected'
  <1> SUFFICES ASSUME TypeOK, MembersConnected, [Next]_vars PROVE MembersConnected'
    OBVIOUS
  <1>1. CASE OnOpen
    BY <1>1 DEF OnOpen, MembersConnected
  <1>2. ASSUME NEW c \in Sessions, CloseConnectionAndTimer(c) PROVE MembersConnected'
    <2>1. CASE c \in live
      <3>1. LeaveRoom(c) /\ live' = live \ {c}
        BY <1>2, <2>1 DEF CloseConnectionAndTimer
      <3>2. LeaveOutcome(c)
        BY <3>1, LeaveEffect
      <3> QED BY <3>1, <3>2 DEF LeaveOutcome, MembersConnected
    <2>2. CASE c \notin live
      BY <1>2, <2>2 DEF CloseConnectionAndTimer, MembersConnected
    <2> QED BY <2>1, <2>2
  <1>3. ASSUME NEW c \in Sessions, Connection(c) PROVE MembersConnected'
    <2>1. CASE UNCHANGED <<live, rooms>>
      BY <2>1 DEF MembersConnected
    <2> QED BY <1>2, <1>3, <2>1 DEF Connection, Heartbeat, Expire, SetClientPingTimeout,
                                    EraseTimer, OnCloseOrError, FallSilent
  <1>4. ASSUME NEW s \in Sessions, Request(s) PROVE MembersConnected'
    <2>1. ASSUME NEW r \in RoomIds, NEW type \in RoomTypes, NEW force \in BOOLEAN,
                 OpenRoom(s, r, type, force)
          PROVE  MembersConnected'
      <3>1. OpenOutcome(s, r) /\ s \in live /\ live' = live
        BY <2>1, OpenEffect DEF OpenRoom, Requesters
      <3> QED BY <3>1 DEF OpenOutcome, MembersConnected
    <2>2. ASSUME NEW r \in RoomIds, JoinRoom(s, r) PROVE MembersConnected'
      <3>1. JoinOutcome(s, r) /\ s \in live /\ live' = live
        BY <2>2, JoinEffect DEF JoinRoom, Requesters
      <3> QED BY <3>1 DEF JoinOutcome, MembersConnected
    <2>3. CASE HttpLeaveRoom(s)
      <3>1. LeaveOutcome(s) /\ live' = live
        BY <2>3, LeaveEffect DEF HttpLeaveRoom
      <3> QED BY <3>1 DEF LeaveOutcome, MembersConnected
    <2>4. CASE RefuseInRoom(s) \/ QueryRooms(s)
      BY <2>4 DEF RefuseInRoom, QueryRooms, MembersConnected
    <2> QED BY <1>4, <2>1, <2>2, <2>3, <2>4 DEF Request
  <1>5. ASSUME NEW r \in RoomIds, CloseRoom(r) PROVE MembersConnected'
    <2>1. CloseOutcome(r) /\ live' = live
      BY <1>5, CloseRoomEffect DEF CloseRoom
    <2> QED BY <2>1 DEF CloseOutcome, MembersConnected
  <1>6. CASE UNCHANGED vars
    BY <1>6 DEF vars, MembersConnected
  <1> QED BY <1>1, <1>3, <1>4, <1>5, <1>6 DEF Next

\* The rooms stay sound, whatever requests, heartbeats, expiries and
\* disconnections come in whatever order.
THEOREM RoomsAreSound == Spec => []RoomsSound
  BY MembershipUnique, RoomsAreInhabited, RoomsAreKnown, SessionsHaveDeadlines, PTL
     DEF RoomsSound

\* Were session numbers in requests looked up among the connected sessions, no
\* room would ever hold a session that is gone.
THEOREM MembersAreConnected == ~LateRequests => (Spec => []MembersConnected)
  <1> SUFFICES ASSUME ~LateRequests PROVE Spec => []MembersConnected
    OBVIOUS
  <1>1. Init => MembersConnected
    BY DEF Init, MembersConnected
  <1>2. TypeOK /\ MembersConnected /\ [Next]_vars => MembersConnected'
    BY StepConnected
  <1> QED BY <1>1, <1>2, TypeCorrect, PTL DEF Spec

=============================================================================
