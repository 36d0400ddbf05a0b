----------------------------- MODULE Statistics -----------------------------
(***************************************************************************)
(* How the console comes to the receiving delays it shows: RtcStatistics   *)
(* of the agent (vtsrtc/src/statistics) and the console's net_stats_.      *)
(*                                                                         *)
(* A timer asks the connection of every remote session for its statistics; *)
(* the answers are posted to the logic thread, where the mean delays over  *)
(* the frames since the report before are worked out.  By then the         *)
(* connection may be gone, or its remote may have another.  Two callbacks  *)
(* bring a delay to the console, whose UI thread may clear its table in    *)
(* between.  Which events drop a connection is in module PeerConnections:  *)
(* here one may be dropped between any two tasks of the logic thread.      *)
(*                                                                         *)
(* The SSRC of a stream is its connection and its source, and a mean is    *)
(* the frames it is over.  Left out: what is sent, audio, the round-trip   *)
(* time, and the counters of bytes, frames and losses kept by source alone.*)
(***************************************************************************)
EXTENDS Naturals, Sequences

CONSTANTS
  Vehicles,   \* remote session ids
  Sources,    \* source ids, the same for every vehicle
  Parts,      \* what a delay is made of: a VideoDelayWindow each
  MaxDials,   \* bound: connections made
  MaxFrames,  \* bound: frames counted
  MaxAnswers  \* bound: answers to GetStats

ASSUME StatisticsConstants ==
  /\ Parts \subseteq {"buffer", "decode"}
  /\ {MaxDials, MaxFrames, MaxAnswers} \subseteq Nat

VARIABLES
  link,      \* the connections made: whose each is, and whether it is open
  listed,    \* remotesessionid_rtcconn_map_: a vehicle's connection, or 0
  replaced,  \* history: vehicles given a connection while one was listed
  count,     \* of each stream, the frames that left the buffer and were decoded
  counted,   \* frames counted so far
  polling,   \* the timer runs
  asked,     \* connections that have not answered GetStats
  answers,   \* how often one has
  arrived,   \* reports posted to the logic thread
  mapped,    \* session_receiver_media_id_vs_ssrc_: a connection, or 0
  windows,   \* video_delay_windows_: the counts of the last report
  telling,   \* callbacks still to come of the report being handled
  rows,      \* net_stats_ of the console: the delays of each row there is
  reported   \* history: the counts of each stream in the reports handled

dialVars == <<link, listed, replaced>>
countVars == <<count, counted>>
pollVars == <<polling, asked, answers>>
delayVars == <<mapped, windows, reported>>
statsVars == <<dialVars, countVars, pollVars, arrived, delayVars, telling, rows>>

Dials == 1 .. MaxDials
StreamIds == Dials \X Sources

-----------------------------------------------------------------------------
(* Connections and their frames (external; module PeerConnections).        *)

(* InteractRemotePeer: the entry there was is overwritten, its connection  *)
(* stays open.                                                             *)
Dial(v) ==
  /\ telling = {} /\ Len(link) < MaxDials
  /\ link' = Append(link, [of |-> v, open |-> TRUE])
  /\ replaced' = IF listed[v] = 0 THEN replaced ELSE replaced \cup {v}
  /\ listed' = [listed EXCEPT ![v] = Len(link) + 1]
  /\ UNCHANGED <<countVars, pollVars, arrived, delayVars, telling, rows>>

FrameCounted(c, s, p) ==
  /\ link[c].open /\ counted < MaxFrames
  /\ counted' = counted + 1
  /\ count' = [count EXCEPT ![<<c, s>>][p] = @ + 1]
  /\ UNCHANGED <<dialVars, pollVars, arrived, delayVars, telling, rows>>

-----------------------------------------------------------------------------
(* The statistics timer and WebRTC's answers.                              *)

TimerFires ==
  /\ polling
  /\ asked' = asked \cup {listed[v] : v \in {w \in Vehicles : listed[w] # 0}}
  /\ UNCHANGED <<dialVars, countVars, polling, answers, arrived, delayVars, telling, rows>>

(* GetStats delivers what is there now: nothing of a closed connection.    *)
Answer(c) ==
  /\ c \in asked /\ answers < MaxAnswers
  /\ answers' = answers + 1
  /\ asked' = asked \ {c}
  /\ arrived' = Append(arrived,
                  [conn |-> c,
                   counts |-> [s \in Sources |-> IF link[c].open THEN {count[<<c, s>>]} ELSE {}]])
  /\ UNCHANGED <<dialVars, countVars, polling, delayVars, telling, rows>>

-----------------------------------------------------------------------------
(* The logic thread.                                                       *)

(* on_P2P_state_changed_ of a connection that is Connected, possibly an    *)
(* old one: AddSessionReceiversMediaSsrcVsId of each of its receivers.     *)
Connected(c) ==
  /\ telling = {} /\ link[c].open
  /\ polling' = TRUE
  /\ mapped' = [mapped EXCEPT ![link[c].of] = [s \in Sources |-> c]]
  /\ UNCHANGED <<dialVars, countVars, asked, answers, arrived, windows, reported, telling, rows>>

(* Mutant of WindowOf: windows kept by source. *)
WindowOfSource(c, s) == <<1, s>>

(* The window of a stream: the key is the session and the SSRC, of which   *)
(* the connection is part.                                                 *)
WindowOf(c, s) == <<c, s>>

(* DestroyPeerConnection and DestroyAllPeerConnection of the listed        *)
(* connections of `gone`: RemoveSessionMediaSsrcVsId, and Reset when it is *)
(* all of them.                                                            *)
Destroy(gone) ==
  /\ telling = {} /\ \E v \in gone : listed[v] # 0
  /\ link' = [c \in DOMAIN link |->
                [link[c] EXCEPT !.open = @ /\ \A v \in gone : listed[v] # c]]
  /\ LET left == IF gone = Vehicles THEN gone ELSE {v \in gone : listed[v] # 0}
     IN /\ mapped' = [v \in Vehicles |-> IF v \in left THEN [s \in Sources |-> 0] ELSE mapped[v]]
        /\ windows' = [w \in StreamIds |->
                         IF w[1] \in DOMAIN link /\ link[w[1]].of \in left THEN {} ELSE windows[w]]
  /\ listed' = [v \in Vehicles |-> IF v \in gone THEN 0 ELSE listed[v]]
  /\ UNCHANGED <<replaced, countVars, pollVars, arrived, reported, telling, rows>>

(* VideoDelayWindow.Update of both windows: a mean over the new frames, if *)
(* there is an earlier report and there are any.                           *)
Means(c, old, new) ==
  [p \in Parts |-> {[conn |-> c, from |-> o[p], to |-> new[p]] : o \in {w \in old : w[p] < new[p]}}]

(* OnStatisticsReport: the streams registered for the session, as far as   *)
(* the report has them.                                                    *)
RunReport ==
  /\ telling = {} /\ arrived # <<>>
  /\ LET r == Head(arrived)
         v == link[r.conn].of
         new(s) == CHOOSE n \in r.counts[s] : TRUE
         here == {s \in Sources : r.counts[s] # {} /\ mapped[v][s] = r.conn}
     IN /\ windows' = [w \in StreamIds |->
                         IF w \in {WindowOf(r.conn, s) : s \in here} THEN {new(w[2])}
                         ELSE windows[w]]
        /\ telling' = {[of |-> v, source |-> s, row |-> FALSE,
                        delay |-> Means(r.conn, windows[WindowOf(r.conn, s)], new(s))] : s \in here}
        /\ reported' = [w \in StreamIds |->
                          IF w[1] = r.conn /\ r.counts[w[2]] # {}
                          THEN Append(reported[w], new(w[2])) ELSE reported[w]]
  /\ arrived' = Tail(arrived)
  /\ UNCHANGED <<dialVars, countVars, pollVars, mapped, rows>>

NoDelay == [p \in Parts |-> {}]

(* OnChannelNetworkStats of the console: the row anew, without a delay.    *)
TellRow(t) ==
  /\ \A u \in telling : ~u.row
  /\ rows' = [rows EXCEPT ![<<t.of, t.source>>] = {NoDelay}]
  /\ telling' = (telling \ {t}) \cup {[t EXCEPT !.row = TRUE]}
  /\ UNCHANGED <<dialVars, countVars, pollVars, arrived, delayVars>>

(* ReportVideoDelay and OnVideoDelayStats: its delay, if the row is there. *)
TellDelay(t) ==
  /\ t.row
  /\ rows' = IF rows[<<t.of, t.source>>] = {} THEN rows
             ELSE [rows EXCEPT ![<<t.of, t.source>>] = {t.delay}]
  /\ telling' = telling \ {t}
  /\ UNCHANGED <<dialVars, countVars, pollVars, arrived, delayVars>>

-----------------------------------------------------------------------------
(* ResetSessionStateOnUi of the console, as far as the table goes. *)
RowsCleared ==
  /\ rows' = [w \in Vehicles \X Sources |-> {}]
  /\ UNCHANGED <<dialVars, countVars, pollVars, arrived, delayVars, telling>>

StatisticsInit ==
  /\ link = <<>> /\ listed = [v \in Vehicles |-> 0] /\ replaced = {}
  /\ count = [w \in StreamIds |-> [p \in Parts |-> 0]] /\ counted = 0
  /\ polling = FALSE /\ asked = {} /\ answers = 0
  /\ arrived = <<>> /\ telling = {}
  /\ mapped = [v \in Vehicles |-> [s \in Sources |-> 0]]
  /\ windows = [w \in StreamIds |-> {}]
  /\ reported = [w \in StreamIds |-> <<>>]
  /\ rows = [w \in Vehicles \X Sources |-> {}]

StatisticsNext ==
  \/ \E v \in Vehicles : Dial(v) \/ Destroy({v})
  \/ Destroy(Vehicles)
  \/ \E c \in DOMAIN link : Connected(c) \/ Answer(c)
  \/ \E c \in DOMAIN link, s \in Sources, p \in Parts : FrameCounted(c, s, p)
  \/ TimerFires
  \/ RunReport
  \/ \E t \in telling : TellRow(t) \/ TellDelay(t)
  \/ RowsCleared

StatisticsSpec == StatisticsInit /\ [][StatisticsNext]_statsVars

-----------------------------------------------------------------------------
(* A delay in the console's table is of a stream of the row's own vehicle  *)
(* and source, and the mean over the frames between two reports of that    *)
(* stream: adjacent ones, unless the vehicle was given a connection over   *)
(* one that was listed, whose reports may go unheard in between.  However  *)
(* late a report is handled, whatever connection the vehicle has then, and *)
(* whenever the table is cleared.                                          *)
DelaysAreMeans ==
  \A v \in Vehicles, s \in Sources :
    \A row \in rows[<<v, s>>], p \in Parts :
      \A m \in row[p] :
        /\ link[m.conn].of = v
        /\ \E i, j \in DOMAIN reported[<<m.conn, s>>] :
             /\ i < j /\ (v \notin replaced => j = i + 1)
             /\ m.from = reported[<<m.conn, s>>][i][p]
             /\ m.to = reported[<<m.conn, s>>][j][p]
             /\ m.from < m.to
=============================================================================
