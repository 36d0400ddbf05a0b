-------------------------- MODULE PeerConnections --------------------------
(***************************************************************************)
(* The peer connections of an agent: the part of RtcConnectionManager that  *)
(* keeps remotesessionid_rtcconn_map_, and RtcConnection                    *)
(* (vtsrtc/src/rtc_connection_manager.cpp, rtc_connection.cpp).             *)
(*                                                                          *)
(* WebRTC's signaling thread reports events of a connection; each report is *)
(* posted to the logic thread (queue), which keeps the map and runs the     *)
(* application's handlers.  A report names the remote session, not the      *)
(* connection, and a connection that has left the map still reports: the    *)
(* callback on_P2P_state_changed_ holds a reference to its own connection,  *)
(* which therefore is never destroyed.                                      *)
(*                                                                          *)
(* External: WebRTC, the remote peers, and the signaling connection, which  *)
(* is only up or down here (module SessionClient).                          *)
(***************************************************************************)
EXTENDS Naturals, Sequences, FiniteSets

CONSTANTS
    Remotes,      \* remote session ids
    MaxConns,     \* bound: connections made
    MaxQueue,     \* bound: tasks waiting on the logic thread
    MaxOutages    \* bound: losses of the signaling connection

ASSUME PeerConnectionsConstants ==
    /\ IsFiniteSet(Remotes) /\ Remotes # {}
    /\ {MaxConns, MaxQueue, MaxOutages} \subseteq Nat

VARIABLES
    login,     \* current_sessionid_ and ws_conn_ are set
    outages,
    made,      \* connections made so far; the next one is made + 1
    conn,      \* the connections
    map,       \* remotesessionid_rtcconn_map_; 0 for no entry
    senders,   \* connection whose senders are in rtpsender_priority_map_
    queue,     \* tasks posted to logic_thread_
    peers,     \* RtcSession::connected_peers_
    told,      \* data channel state last given to datachannel_state_handler_
    stats,     \* remotes whose SSRCs statistics_collector_ knows
    clash      \* history: remotes given a connection before the last was closed

peerVars == <<login, outages, made, conn, map, senders, queue, peers, told, stats, clash>>

Conns == 1 .. MaxConns
NoRemote == "none"

Unused == [remote |-> NoRemote, role |-> "none", pc |-> "none", sdp |-> "none",
           ice |-> "new", dc |-> "none", known |-> FALSE, prio |-> FALSE]

Task(t, c, r, x) == [task |-> t, conn |-> c, remote |-> r, arg |-> x]

PeerInit ==
    /\ login = TRUE
    /\ outages = 0
    /\ made = 0
    /\ conn = [c \in Conns |-> Unused]
    /\ map = [r \in Remotes |-> 0]
    /\ senders = 0
    /\ queue = <<>>
    /\ peers = {}
    /\ told = [r \in Remotes |-> "none"]
    /\ stats = {}
    /\ clash = {}

----------------------------------------------------------------------------
(* WebRTC's signaling thread (external): what a connection reports. *)

Live(c) == conn[c].pc = "open"
Room(n) == Len(queue) + n =< MaxQueue
Posts(t, c, x) == queue' = Append(queue, Task(t, c, conn[c].remote, x))

SdpCreated(c) ==
    /\ Live(c) /\ conn[c].sdp = "creating" /\ Room(1)
    /\ conn' = [conn EXCEPT ![c].sdp = "created"]
    /\ Posts("sdp", c, "none")
    /\ UNCHANGED <<login, outages, made, map, senders, peers, told, stats, clash>>

IceMoves(c, from, to, report) ==
    /\ Live(c) /\ conn[c].sdp = "stable" /\ conn[c].ice \in from /\ Room(1)
    /\ conn' = [conn EXCEPT ![c].ice = to]
    /\ Posts("p2p", c, report)
    /\ UNCHANGED <<login, outages, made, map, senders, peers, told, stats, clash>>

IceConnects(c) == IceMoves(c, {"new", "disconnected"}, "connected", "Connected")
IceDisconnects(c) == IceMoves(c, {"connected"}, "disconnected", "Disconnected")
IceFails(c) == IceMoves(c, {"new", "disconnected"}, "failed", "Failed")

\* The offering side made the channel; the other side is told of it open.
ChannelOpens(c) ==
    /\ Live(c) /\ conn[c].ice = "connected" /\ conn[c].dc = "connecting" /\ Room(1)
    /\ conn' = [conn EXCEPT ![c].dc = "open"]
    /\ Posts(IF conn[c].role = "offer" THEN "channel" ELSE "newchannel", c, "none")
    /\ UNCHANGED <<login, outages, made, map, senders, peers, told, stats, clash>>

\* The remote side, or its end of the transport, closes the channel.
ChannelCloses(c) ==
    /\ Live(c) /\ conn[c].dc = "open" /\ Room(1)
    /\ conn' = [conn EXCEPT ![c].dc = "closed"]
    /\ IF conn[c].known THEN Posts("channel", c, "none") ELSE UNCHANGED queue
    /\ UNCHANGED <<login, outages, made, map, senders, peers, told, stats, clash>>

\* forward_offer, forward_answer and take_candidate from a remote session; an
\* answer follows an offer of ours.
RemoteOffers(r, x) ==
    /\ login /\ made < MaxConns /\ Room(1)
    /\ queue' = Append(queue, Task("offer", 0, r, x))
    /\ UNCHANGED <<login, outages, made, conn, map, senders, peers, told, stats, clash>>

RemoteAnswers(c, x) ==
    /\ login /\ conn[c].role = "offer" /\ conn[c].sdp = "sent" /\ Room(1)
    /\ conn' = [conn EXCEPT ![c].sdp = "answered"]
    /\ queue' = Append(queue, Task("answer", 0, conn[c].remote, x))
    /\ UNCHANGED <<login, outages, made, map, senders, peers, told, stats, clash>>

\* ReconnectWebsocket forgets session and connection and posts the outage.
SignalingLost ==
    /\ login /\ outages < MaxOutages /\ Room(1)
    /\ login' = FALSE
    /\ outages' = outages + 1
    /\ queue' = Append(queue, Task("outage", 0, NoRemote, "none"))
    /\ UNCHANGED <<made, conn, map, senders, peers, told, stats, clash>>

SignalingBack ==
    /\ ~login
    /\ login' = TRUE
    /\ UNCHANGED <<outages, made, conn, map, senders, queue, peers, told, stats, clash>>

----------------------------------------------------------------------------
(* The logic thread. *)

Runs(t) == queue # <<>> /\ Head(queue).task = t
This == Head(queue)

\* Mutant: the entries are dropped and the connections left as they are.
ForgetPeers(victims, m, q) ==
    /\ map' = [r \in Remotes |-> IF r \in victims THEN 0 ELSE m[r]]
    /\ conn' = conn
    /\ stats' = stats
    /\ queue' = q

\* The orders in which reports can come: one connection after the other, and of
\* each the channel's first.
InTurn(reports) ==
    {s \in [1 .. Cardinality(reports) -> reports] :
        /\ \A t \in reports : \E i \in DOMAIN s : s[i] = t
        /\ \A i, j \in DOMAIN s : i < j /\ s[i].conn = s[j].conn
              => j = i + 1 /\ s[i].task = "channel"}

\* DestroyPeerConnection for the remotes in victims, of which m is the map and q the
\* tasks left: what is in the map is closed and dropped.  Closing a connection
\* closes its channel, whose observer reports that, and may report Closed.  The
\* statistics of the remotes are dropped (all of them, when all are destroyed).
DestroyPeers(victims, m, q) ==
    LET hit == {m[r] : r \in victims} \ {0}
        heard == {c \in hit : conn[c].known /\ conn[c].dc \in {"connecting", "open"}}
        ends == {Task("channel", c, conn[c].remote, "none") : c \in heard}
        closes == {Task("p2p", c, conn[c].remote, "Closed") : c \in hit}
    IN  /\ map' = [r \in Remotes |-> IF r \in victims THEN 0 ELSE m[r]]
        /\ conn' = [c \in Conns |->
                      IF c \notin hit THEN conn[c]
                      ELSE [conn[c] EXCEPT !.pc = "closed", !.ice = "closed",
                              !.dc = IF @ = "none" THEN @ ELSE "closed"]]
        /\ stats' = stats \ victims
        /\ \E reports \in {ends, ends \cup closes} :
             \E s \in InTurn(reports) : queue' = q \o s

\* A connection that InteractRemotePeer makes, in the role it plays.  The
\* channels that the offering side makes are there for both.
Fresh(r, role) ==
    [Unused EXCEPT !.remote = r, !.role = role, !.pc = "open", !.sdp = "creating",
                   !.dc = "connecting"]

\* AddDataChannel of every label: made, kept and observed.
AddDataChannel(c) == [c EXCEPT !.known = TRUE]

\* AddVideoTrack2PeerConnection: the senders of the connection before are
\* forgotten first.
AddVideoTrack(c) == senders' = c

\* Priority and bitrate limits, for the senders that were added last.
SetRtpSendersPriority(cs, newest) ==
    [c \in Conns |-> [cs[c] EXCEPT !.prio = @ \/ c = newest]]

\* InteractRemotePeer when there is a session and a PeerConnection: an entry
\* of the same remote is overwritten, and its connection left open.
Interact(r, role) ==
    /\ made < MaxConns
    /\ made' = made + 1
    /\ AddVideoTrack(made + 1)
    /\ LET fresh == Fresh(r, role)
       IN conn' = IF role = "offer"
                  THEN [conn EXCEPT ![made + 1] = AddDataChannel(fresh)]
                  ELSE SetRtpSendersPriority([conn EXCEPT ![made + 1] = fresh], made + 1)
    /\ map' = [map EXCEPT ![r] = made + 1]
    /\ clash' = IF \E c \in 1 .. made : conn[c].remote = r /\
                      (Live(c) \/ \E i \in DOMAIN queue : queue[i].conn = c)
                THEN clash \cup {r} ELSE clash

\* InteractRemotePeer without a session reports Closed, without a
\* PeerConnection Failed; the map is left alone.
InteractRefused(r) ==
    /\ peers' = peers \ {r}
    /\ UNCHANGED <<made, conn, map, senders, clash>>

\* forward_offer.
RunOffer ==
    /\ Runs("offer")
    /\ queue' = Tail(queue)
    /\ \/ ~login /\ InteractRefused(This.remote)
       \/ login /\ This.arg = "refused" /\ InteractRefused(This.remote)
       \/ \* an SDP that does not parse: the connection stays, outside the map
          /\ login /\ This.arg = "bad" /\ made < MaxConns
          /\ made' = made + 1
          /\ AddVideoTrack(made + 1)
          /\ conn' = [conn EXCEPT ![made + 1] =
                        [Fresh(This.remote, "answer") EXCEPT !.sdp = "none"]]
          /\ UNCHANGED <<map, peers, clash>>
       \/ login /\ This.arg = "good" /\ Interact(This.remote, "answer") /\ UNCHANGED peers
       \/ made = MaxConns /\ UNCHANGED <<made, conn, map, senders, peers, clash>>
    /\ UNCHANGED <<login, outages, told, stats>>

\* JoinRoom, after the server's OK: an offer to each remote of the room.
JoinRoom(r) ==
    /\ login /\ Interact(r, "offer")
    /\ UNCHANGED <<login, outages, queue, peers, told, stats>>

\* LeaveRoom, after the server's OK.
LeaveRoom ==
    /\ login /\ \E r \in Remotes : map[r] # 0
    /\ Room(2 * Cardinality(Remotes))
    /\ DestroyPeers(Remotes, map, queue)
    /\ UNCHANGED <<login, outages, made, senders, peers, told, clash>>

RunOutage ==
    /\ Runs("outage")
    /\ DestroyPeers(Remotes, map, Tail(queue))
    /\ peers' = {}
    /\ UNCHANGED <<login, outages, made, senders, told, clash>>

\* The created description is set and sent while the connection is there and
\* the signaling connection is up; an answer completes the negotiation.
RunSdp ==
    /\ Runs("sdp")
    /\ conn' = IF ~Live(This.conn) THEN conn
               ELSE [conn EXCEPT ![This.conn].sdp =
                       IF ~login THEN "lost"
                       ELSE IF conn[This.conn].role = "offer" THEN "sent" ELSE "stable"]
    /\ queue' = Tail(queue)
    /\ UNCHANGED <<login, outages, made, map, senders, peers, told, stats, clash>>

\* AckRemotePeerSdp: the answer goes to whatever connection the map holds for
\* the remote, the priorities to whatever senders were added last.
RunAnswer ==
    /\ Runs("answer")
    /\ IF map[This.remote] = 0
       THEN queue' = Tail(queue) /\ UNCHANGED <<conn, map, stats>>
       ELSE IF This.arg = "bad"
       THEN DestroyPeers({This.remote}, map, Tail(queue))
       ELSE /\ LET c == map[This.remote]
               IN conn' = SetRtpSendersPriority(
                            [conn EXCEPT ![c].sdp =
                               IF conn[c].role = "offer" /\ @ \in {"sent", "answered", "lost"}
                               THEN "stable" ELSE @],
                            senders)
            /\ queue' = Tail(queue)
            /\ UNCHANGED <<map, stats>>
    /\ UNCHANGED <<login, outages, made, senders, peers, told, clash>>

FailureDestroys(r, q) == DestroyPeers({r}, map, q)

\* HandleP2PStateChanged and on_P2P_state_changed_.
RunP2PState ==
    /\ Runs("p2p")
    /\ peers' = IF This.arg = "Connected" THEN peers \cup {This.remote}
                ELSE peers \ {This.remote}
    /\ IF This.arg = "Failed"
       THEN FailureDestroys(This.remote, Tail(queue))
       ELSE /\ queue' = Tail(queue)
            /\ stats' = IF This.arg = "Connected" /\ login /\ Live(This.conn)
                        THEN stats \cup {This.remote} ELSE stats
            /\ UNCHANGED <<conn, map>>
    /\ UNCHANGED <<login, outages, made, senders, told, clash>>

\* on_dc_state_changed_: a closed channel closes the connection of its remote,
\* then the application is told.
ChannelState(c, q) ==
    /\ told' = [told EXCEPT ![conn[c].remote] = conn[c].dc]
    /\ IF conn[c].dc = "closed"
       THEN DestroyPeers({conn[c].remote}, map, q)
       ELSE queue' = q /\ UNCHANGED <<conn, map, stats>>

\* The state is read when the task runs, not when it was posted.
RunChannelState ==
    /\ Runs("channel")
    /\ ChannelState(This.conn, Tail(queue))
    /\ UNCHANGED <<login, outages, made, senders, peers, clash>>

\* on_datachannel_: the channel enters the connection's map and gets its
\* observer, then its state is reported as it is now.
RunNewChannel ==
    /\ Runs("newchannel")
    /\ LET c == This.conn
           r == This.remote
       IN IF conn[c].known
          THEN queue' = Tail(queue) /\ UNCHANGED <<conn, map, told, stats>>
          ELSE /\ told' = [told EXCEPT ![r] = conn[c].dc]
               /\ IF conn[c].dc = "closed" /\ map[r] # 0
                  THEN DestroyPeers({r}, map, Tail(queue))
                  ELSE /\ conn' = [conn EXCEPT ![c].known = TRUE]
                       /\ queue' = Tail(queue)
                       /\ UNCHANGED <<map, stats>>
    /\ UNCHANGED <<login, outages, made, senders, peers, clash>>

----------------------------------------------------------------------------

WebRtc(c) ==
    \/ SdpCreated(c) \/ IceConnects(c) \/ IceDisconnects(c) \/ IceFails(c)
    \/ ChannelOpens(c) \/ ChannelCloses(c)

Remote ==
    \/ \E r \in Remotes, x \in {"good", "bad", "refused"} : RemoteOffers(r, x)
    \/ \E c \in Conns, x \in {"good", "bad"} : RemoteAnswers(c, x)

LogicThread ==
    \/ RunOffer \/ RunOutage \/ RunSdp \/ RunAnswer
    \/ RunP2PState \/ RunChannelState \/ RunNewChannel

PeerNext ==
    \/ \E c \in Conns : WebRtc(c)
    \/ Remote
    \/ SignalingLost \/ SignalingBack
    \/ LogicThread
    \/ \E r \in Remotes : JoinRoom(r)
    \/ LeaveRoom

PeerSpec == PeerInit /\ [][PeerNext]_peerVars

----------------------------------------------------------------------------

\* The map never leads to a connection of another remote or to one that is
\* closed, and every connection that is open but cannot be reached through the
\* map was replaced while it was open or never entered the map (its offer did
\* not parse): destroying, in whatever order events arrive, loses none.
NoLostConnection ==
    /\ \A r \in Remotes : map[r] # 0 => Live(map[r]) /\ conn[map[r]].remote = r
    /\ \A c \in Conns : Live(c) /\ conn[c].sdp # "none" /\ conn[c].remote \notin clash
          => map[conn[c].remote] = c

\* With no task waiting, an application that was last told the channel to a
\* remote is open can send on it, unless the remote was given a new connection
\* before everything of the last one had been handled.
OpenMeansUsable ==
    \A r \in Remotes :
       queue = <<>> /\ told[r] = "open" /\ r \notin clash =>
          map[r] # 0 /\ conn[map[r]].dc = "open"

\* The statistics keep no SSRC of a remote whose connection is gone, however
\* late the report that it was connected is handled (replaced ones excepted).
StatsOfLive == \A r \in stats \ clash : map[r] # 0

\* A connection that is negotiated has its bitrate limits, whatever other
\* answers came before its own, when no later one has added tracks since.
NewestLimited == \A c \in Conns : conn[c].sdp = "stable" /\ senders = c => conn[c].prio

\* The map, what the application was told, the statistics and the limits agree
\* with the connections there are, however late a task of the signaling thread
\* runs.
PeersConsistent == NoLostConnection /\ OpenMeansUsable /\ StatsOfLive /\ NewestLimited
=============================================================================
