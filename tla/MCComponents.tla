---------------------------- MODULE MCComponents ----------------------------
(***************************************************************************)
(* The components with safety properties only that share no state with one *)
(* another, side by side: a behaviour picks one of them in its first state *)
(* and is a behaviour of that one, the others resting.                     *)
(***************************************************************************)
EXTENDS JetsonSession, RaspEncoder, AudioDevices, Vision, PeerConnections, Statistics,
        ConsoleTakeover, ConsoleViews

VARIABLE running

encoderVars == <<jetVars, raspVars>>
senseVars == <<audioVars, visionVars>>
agentVars == <<peerVars, statsVars>>
consoleVars == <<takeoverVars, viewVars>>
componentVars == <<running, encoderVars, senseVars, agentVars, consoleVars>>

\* A resting console has devices of one kind and detects itself.
ComponentsInit ==
  /\ running \in {"jetson", "rasp", "capture", "playback", "playout", "vision",
                  "peers", "statistics", "takeover", "views"}
  /\ JetInit /\ RaspInit /\ AudioInit /\ VisionInit
  /\ PeerInit /\ StatisticsInit /\ TakeoverInit /\ ViewsInit
  /\ running # "takeover" => \A s \in Edges : device[s] = "car_1"
  /\ running # "views" => yoloMode = "console"

EncoderStep ==
  \/ running = "jetson" /\ JetNext /\ UNCHANGED raspVars
  \/ running = "rasp" /\ RaspNext /\ UNCHANGED jetVars

SenseStep ==
  \/ /\ \/ running = "capture" /\ CaptureNext
        \/ running = "playback" /\ PlaybackNext
        \/ running = "playout" /\ AdmNext
     /\ UNCHANGED visionVars
  \/ running = "vision" /\ VisionNext /\ UNCHANGED audioVars

AgentStep ==
  \/ running = "peers" /\ PeerNext /\ UNCHANGED statsVars
  \/ running = "statistics" /\ StatisticsNext /\ UNCHANGED peerVars

ConsoleStep ==
  \/ running = "takeover" /\ TakeoverNext /\ UNCHANGED viewVars
  \/ running = "views" /\ ViewsNext /\ UNCHANGED takeoverVars

ComponentsNext ==
  /\ \/ EncoderStep /\ UNCHANGED <<senseVars, agentVars, consoleVars>>
     \/ SenseStep /\ UNCHANGED <<encoderVars, agentVars, consoleVars>>
     \/ AgentStep /\ UNCHANGED <<encoderVars, senseVars, consoleVars>>
     \/ ConsoleStep /\ UNCHANGED <<encoderVars, senseVars, agentVars>>
  /\ UNCHANGED running

ComponentsSpec == ComponentsInit /\ [][ComponentsNext]_componentVars
=============================================================================
