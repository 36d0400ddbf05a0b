---------------------------- MODULE ConsoleViews ----------------------------
(***************************************************************************)
(* The console's pictures and the boxes drawn on them: frames arrive on a  *)
(* decoder thread, the local YOLO worker (or the edge, which sends what it *)
(* found) detects objects in them, the edge tells its vehicle's state, the *)
(* UI thread draws, switches views and resets everything when a room is    *)
(* closed or left or the server is lost.  Closing a room is a request to   *)
(* the server only: the peer connection stays and goes on sending.  What   *)
(* an edge sends is posted to the logic thread and may run after its       *)
(* connection was dropped.  One remote session, whose connections are      *)
(* numbered.                                                               *)
(***************************************************************************)
EXTENDS Integers

CONSTANTS
  Streams,      \* source ids the remote sends
  MaxReceived,  \* bound: frames received
  MaxEpochs,    \* bound: connections
  MaxClears     \* bound: resets of the console asked for

ASSUME ViewsConstants == Streams \subseteq {"stereo", "surround_grid", "front"}

VARIABLES
  yoloMode,   \* yolo_mode_: who detects
  feedback,   \* edge_feedback_by_session_: the connection it was told over, or 0
  peerNo,     \* number of the present or last connection
  peerAt,     \* it is "up", "failing" (its handler runs) or "down"
  inbox,      \* what it sent and the logic thread has not run yet
  closing,    \* its Closed state has not been reported yet
  recv,       \* OnRecvFrame between submitting its frame and storing it
  received,   \* frames received so far
  frameSeq,   \* remote_video_frame_seq_
  stored,     \* remote_video_frames_by_source_
  viewMode,   \* video_view_state_
  threshold,  \* video_view_frame_thresholds_
  displayed,  \* displayed_video_sessions_: streams of the last full picture
  yPending,   \* LocalYolo::pending_: the generation of each frame
  generation, \* LocalYolo::generation_
  infer,      \* the frame the worker infers on, and its generation
  overlays,   \* vision_detections_by_source_: where each overlay is from, the
              \* generation of its frame or the connection that told it
  uiReset,    \* where ResetSessionStateOnUi stands
  uiDue       \* pending_reset_session_state_

peerVarsOfView == <<peerNo, peerAt, inbox, closing>>
recvVars == <<recv, received, frameSeq>>
drawVars == <<viewMode, threshold, displayed>>
yoloVars == <<yPending, generation, infer>>
uiThread == <<uiReset, uiDue>>
viewVars == <<yoloMode, feedback, peerVarsOfView, recvVars, stored, drawVars, yoloVars,
              overlays, uiThread>>

None == -1
Nothing == [at |-> 0, seq |-> 0]
NoRecv == [key |-> "none", at |-> 0, seq |-> 0]
NoInfer == [key |-> "none", at |-> None, gen |-> None]
Modes == {"Binocular", "Surround", "SurroundFront"}

-----------------------------------------------------------------------------
(* The decoder thread: OnRecvFrame. *)

(* LocalYolo::Submit keeps the newest frame of each stream, when the       *)
(* console is the one that detects.                                        *)
YoloSubmit(key) ==
  yPending' = IF yoloMode = "console" THEN [yPending EXCEPT ![key] = generation]
              ELSE yPending

RecvSubmits(key) ==
  /\ peerAt # "down" /\ recv = NoRecv /\ received < MaxReceived
  /\ received' = received + 1
  /\ frameSeq' = frameSeq + 1
  /\ YoloSubmit(key)
  /\ recv' = [key |-> key, at |-> peerNo, seq |-> frameSeq + 1]
  /\ UNCHANGED <<yoloMode, feedback, peerVarsOfView, stored, drawVars, generation, infer,
                 overlays, uiThread>>

RecvStores ==
  /\ recv # NoRecv
  /\ stored' = [stored EXCEPT ![recv.key] = [at |-> recv.at, seq |-> recv.seq]]
  /\ recv' = NoRecv
  /\ UNCHANGED <<yoloMode, feedback, peerVarsOfView, received, frameSeq, drawVars,
                 yoloVars, overlays, uiThread>>

-----------------------------------------------------------------------------
(* The YOLO worker. *)

WorkerTakes(key) ==
  /\ infer = NoInfer /\ yPending[key] # None
  /\ infer' = [key |-> key, at |-> yPending[key], gen |-> generation]
  /\ yPending' = [yPending EXCEPT ![key] = None]
  /\ UNCHANGED <<yoloMode, feedback, peerVarsOfView, recvVars, stored, drawVars,
                 generation, overlays, uiThread>>

(* Mutant of ResultWanted: a result is stored whatever happened meanwhile. *)
ResultAlways == TRUE

(* The test after inference: Clear did not run in between. *)
ResultWanted == infer.gen = generation

(* A result, or an inference error that is only logged; Clear waits for     *)
(* the test and what follows it.                                            *)
WorkerReports ==
  /\ infer # NoInfer
  /\ \/ /\ ResultWanted
        /\ overlays' = [overlays EXCEPT ![infer.key] = infer.at]
     \/ UNCHANGED overlays
  /\ infer' = NoInfer
  /\ UNCHANGED <<yoloMode, feedback, peerVarsOfView, recvVars, stored, drawVars, yPending,
                 generation, uiThread>>

-----------------------------------------------------------------------------
(* The edge's messages: vehicle states, and detections of a stream, which  *)
(* a console that detects itself ignores.                                  *)

Heard(m) == m = "state" \/ yoloMode = "edge"

MessagePosted(m) ==
  /\ peerAt # "down" /\ Heard(m)
  /\ inbox' = inbox \cup {m}
  /\ UNCHANGED <<yoloMode, feedback, peerNo, peerAt, closing, recvVars, stored, drawVars,
                 yoloVars, overlays, uiThread>>

(* OnRecvMessage on the logic thread: HandleVehicleStateMessage of a       *)
(* VehicleState, HandleVisionDetectionMessage of a FrameDetections.  There *)
(* may be another message like it behind it.                               *)
MessageRuns(m) ==
  /\ m \in inbox /\ peerAt # "failing"
  /\ inbox' \in {inbox, inbox \ {m}}
  /\ feedback' = IF m = "state" THEN peerNo ELSE feedback
  /\ overlays' = IF m = "state" THEN overlays ELSE [overlays EXCEPT ![m] = peerNo]
  /\ UNCHANGED <<yoloMode, peerNo, peerAt, closing, recvVars, stored, drawVars, yoloVars,
                 uiThread>>

-----------------------------------------------------------------------------
(* Connections.                                                            *)

(* A new one is made by tasks of the logic thread, behind those of the last. *)
PeerConnects ==
  /\ peerAt = "down" /\ ~closing /\ inbox = {} /\ peerNo < MaxEpochs
  /\ peerNo' = peerNo + 1 /\ peerAt' = "up"
  /\ UNCHANGED <<yoloMode, feedback, inbox, closing, recvVars, stored, drawVars, yoloVars,
                 overlays, uiThread>>

(* OnP2PState Disconnected, Failed or Closed: the session's frames, its    *)
(* view and its feedback are forgotten, what was detected in its frames is *)
(* not.                                                                    *)
Forgets ==
  /\ stored' = [k \in Streams |-> Nothing]
  /\ viewMode' = "Binocular"
  /\ feedback' = 0

(* Failed is reported, and the connection then closed in the same task.    *)
PeerDisconnects ==
  /\ peerAt = "up"
  /\ peerAt' \in {"up", "failing"}
  /\ Forgets
  /\ UNCHANGED <<yoloMode, peerNo, inbox, closing, recvVars, threshold, displayed,
                 yoloVars, overlays, uiThread>>

(* Closing a connection waits for its decoder thread and posts its report. *)
Dropped ==
  /\ recv = NoRecv
  /\ peerAt' = "down"
  /\ closing' = (closing \/ peerAt # "down")

(* DestroyPeerConnection: it failed, or a data channel was closed. *)
PeerGone ==
  /\ peerAt # "down"
  /\ Dropped
  /\ UNCHANGED <<yoloMode, feedback, peerNo, inbox, recvVars, stored, drawVars, yoloVars,
                 overlays, uiThread>>

ClosedReported ==
  /\ closing /\ inbox = {} /\ closing' = FALSE
  /\ Forgets
  /\ UNCHANGED <<yoloMode, peerNo, peerAt, inbox, recvVars, threshold, displayed, yoloVars,
                 overlays, uiThread>>

(* The agent lost the server: it drops its peers and tells             *)
(* OnServerConnectionState.                                            *)
LosesServer ==
  /\ peerAt # "failing" /\ generation < MaxClears
  /\ Dropped
  /\ uiDue' = TRUE
  /\ UNCHANGED <<yoloMode, feedback, peerNo, inbox, recvVars, stored, drawVars, yoloVars,
                 overlays, uiReset>>

-----------------------------------------------------------------------------
(* The UI thread. *)

(* The connection page: RtcLeaveRoom drops the peers, RtcCloseRoom only     *)
(* asks the server; then the resets.                                        *)
LeavesRoom(drops) ==
  /\ uiReset = "no" /\ peerAt # "failing" /\ generation < MaxClears
  /\ IF drops THEN Dropped ELSE UNCHANGED <<recv, peerAt, closing>>
  /\ uiReset' = "yolo"
  /\ viewMode' = "Binocular"
  /\ UNCHANGED <<yoloMode, feedback, peerNo, inbox, recvVars, stored, threshold, displayed,
                 yoloVars, overlays, uiDue>>

RtcLeaveRoom == LeavesRoom(TRUE)
RtcCloseRoom == LeavesRoom(FALSE)

(* ApplyPendingUiActions. *)
UiApplies ==
  /\ uiReset = "no" /\ uiDue
  /\ uiDue' = FALSE
  /\ uiReset' = "yolo"
  /\ UNCHANGED <<yoloMode, feedback, peerVarsOfView, recvVars, stored, drawVars, yoloVars,
                 overlays>>

(* ResetSessionStateOnUi: LocalYolo::Clear, the frames, the overlays and   *)
(* the feedback, the counter.  The view thresholds stay.                   *)
ResetYolo ==
  /\ uiReset = "yolo" /\ uiReset' = "frames"
  /\ generation' = generation + 1
  /\ yPending' = [k \in Streams |-> None]
  /\ UNCHANGED <<yoloMode, feedback, peerVarsOfView, recvVars, stored, drawVars, infer,
                 overlays, uiDue>>

ResetFrames ==
  /\ uiReset = "frames" /\ uiReset' = "overlays"
  /\ stored' = [k \in Streams |-> Nothing]
  /\ UNCHANGED <<yoloMode, feedback, peerVarsOfView, recvVars, drawVars, yoloVars,
                 overlays, uiDue>>

ResetOverlays ==
  /\ uiReset = "overlays" /\ uiReset' = "no"
  /\ overlays' = [k \in Streams |-> None]
  /\ feedback' = 0
  /\ frameSeq' = 0
  /\ UNCHANGED <<yoloMode, peerVarsOfView, recv, received, stored, drawVars, yoloVars,
                 uiDue>>

(* SendVideoViewControl, its message sent. *)
SwitchesView(m) ==
  /\ uiReset = "no" /\ ~uiDue /\ peerAt = "up"
  /\ viewMode' = m
  /\ threshold' = frameSeq
  /\ UNCHANGED <<yoloMode, feedback, peerVarsOfView, recvVars, stored, displayed, yoloVars,
                 overlays, uiThread>>

(* SnapshotVideoSessions: the streams a view needs, newer than its request; *)
(* until all of them are there the previous full picture stays.            *)
Needs(m) == CASE m = "Binocular" -> {"stereo", "surround_grid"}
              [] m = "Surround" -> {"surround_grid"}
              [] m = "SurroundFront" -> {"front"}
Draws ==
  LET newer == {k \in Streams : stored[k] # Nothing /\ stored[k].seq > threshold} IN
  /\ uiReset = "no" /\ ~uiDue
  /\ displayed' = CASE \A k \in Streams : stored[k] = Nothing -> [k \in Streams |-> Nothing]
                    [] Needs(viewMode) \subseteq newer ->
                         [k \in Streams |-> IF k \in Needs(viewMode) THEN stored[k] ELSE Nothing]
                    [] OTHER -> displayed
  /\ UNCHANGED <<yoloMode, feedback, peerVarsOfView, recvVars, stored, viewMode, threshold,
                 yoloVars, overlays, uiThread>>

-----------------------------------------------------------------------------
ViewsInit ==
  /\ yoloMode \in {"console", "edge"} /\ feedback = 0
  /\ peerNo = 0 /\ peerAt = "down" /\ inbox = {} /\ closing = FALSE
  /\ recv = NoRecv /\ received = 0 /\ frameSeq = 0
  /\ stored = [k \in Streams |-> Nothing]
  /\ viewMode = "Binocular" /\ threshold = 0
  /\ displayed = [k \in Streams |-> Nothing]
  /\ yPending = [k \in Streams |-> None] /\ generation = 0 /\ infer = NoInfer
  /\ overlays = [k \in Streams |-> None]
  /\ uiReset = "no" /\ uiDue = FALSE

ViewsNext ==
  \/ \E k \in Streams : RecvSubmits(k) \/ WorkerTakes(k)
  \/ \E m \in Streams \cup {"state"} : MessagePosted(m) \/ MessageRuns(m)
  \/ RecvStores \/ WorkerReports
  \/ PeerConnects \/ PeerDisconnects \/ PeerGone \/ ClosedReported \/ LosesServer
  \/ RtcLeaveRoom \/ RtcCloseRoom
  \/ UiApplies \/ ResetYolo \/ ResetFrames \/ ResetOverlays
  \/ \E m \in Modes : SwitchesView(m)
  \/ Draws

ViewsSpec == ViewsInit /\ [][ViewsNext]_viewVars

-----------------------------------------------------------------------------
(* What the console forgets stays forgotten.  Of the console's own worker:  *)
(* once the UI thread is through with its reset, no frame that waits and no *)
(* overlay is older than that reset, wherever the decoder thread and the    *)
(* worker stood when LocalYolo::Clear ran, and though the old room's frames *)
(* may still arrive.  Of a dropped connection: when its Closed report has   *)
(* run, no frame and no vehicle state of it is left or comes back, whatever *)
(* it had posted and whoever else was resetting; a frame or vehicle state   *)
(* there is has come over the connection that is up.                        *)
OldSessionForgotten ==
  /\ uiReset = "no" /\ yoloMode = "console" =>
       \A k \in Streams : {yPending[k], overlays[k]} \subseteq {None, generation}
  /\ ~closing =>
       LET here == IF peerAt = "down" THEN {0} ELSE {0, peerNo} IN
       feedback \in here /\ \A k \in Streams : stored[k].at \in here
=============================================================================
