---------------------------- MODULE Console_proofs ----------------------------
(***************************************************************************)
(* Proofs about the console, for every number of streams, connections,     *)
(* devices and links: what it has forgotten stays forgotten (ConsoleViews), *)
(* and which device a command goes to (ConsoleTakeover).                    *)
(***************************************************************************)
EXTENDS ConsoleTakeover, ConsoleViews, TLAPS

-----------------------------------------------------------------------------
(* What is forgotten stays forgotten.                                       *)

ViewsTypes ==
  /\ generation \in Nat /\ infer.gen \in Int /\ infer.gen =< generation
  /\ uiReset \in {"no", "yolo", "frames", "overlays"}
  /\ \A k \in Streams : yPending[k] \in Int
  /\ DOMAIN yPending = Streams /\ yPending = [k \in Streams |-> yPending[k]]
  /\ DOMAIN stored = Streams /\ stored = [k \in Streams |-> stored[k]]
  /\ DOMAIN overlays = Streams /\ overlays = [k \in Streams |-> overlays[k]]

\* Over which connection it came: the last one, and nothing of that is left or can
\* still come when it is down and its Closed report has run.
From(S) == feedback \in S /\ \A k \in Streams : stored[k].at \in S

Connected ==
  /\ From({0, peerNo})
  /\ recv # NoRecv => peerAt # "down" /\ recv.at = peerNo
  /\ peerAt = "down" /\ ~closing => From({0}) /\ inbox = {}

\* Since which Clear it came: a frame that waits, a result that will be taken and,
\* until a reset begins, an overlay are of the present generation; in the middle of
\* the reset older overlays are about to be cleared.
Cleared ==
  yoloMode = "console" =>
    /\ \A k \in Streams : yPending[k] \in {None, generation}
    /\ infer.gen = generation => infer.at = generation
    /\ uiReset \in {"no", "yolo"} => \A k \in Streams : overlays[k] \in {None, generation}
    /\ inbox \subseteq {"state"}

Views == ViewsTypes /\ Connected /\ Cleared

LEMMA ViewsBegin == ViewsInit => Views
BY DEF ViewsInit, Views, ViewsTypes, Connected, Cleared, From, Nothing, NoInfer, NoRecv, None

\* A map changed at one stream, and one with the same value for all.
LEMMA OneStream ==
  ASSUME NEW f, NEW k, NEW y, DOMAIN f = Streams
  PROVE  /\ DOMAIN [f EXCEPT ![k] = y] = Streams
         /\ [f EXCEPT ![k] = y] = [j \in Streams |-> [f EXCEPT ![k] = y][j]]
         /\ \A j \in Streams : [f EXCEPT ![k] = y][j] = IF j = k THEN y ELSE f[j]
OBVIOUS

LEMMA AllStreams ==
  ASSUME NEW f, NEW y, f = [j \in Streams |-> y]
  PROVE  DOMAIN f = Streams /\ f = [j \in Streams |-> f[j]] /\ \A j \in Streams : f[j] = y
OBVIOUS

\* The session's pictures and its vehicle state are forgotten.
LEMMA ForgetsAll ==
  ASSUME Forgets
  PROVE  /\ DOMAIN stored' = Streams /\ stored' = [k \in Streams |-> stored'[k]]
         /\ feedback' = 0 /\ \A k \in Streams : stored'[k].at = 0
BY AllStreams DEF Forgets, Nothing

\* The connection is dropped, or was down: nothing is being received, and its
\* report is still to come unless it had run.
LEMMA DropKeeps ==
  ASSUME Connected, Dropped, UNCHANGED <<feedback, stored, peerNo, inbox, recv>>
  PROVE  Connected'
<1>1. recv' = NoRecv /\ peerAt' = "down" /\ (~closing' => ~closing /\ peerAt = "down")
  BY DEF Dropped
<1> QED BY <1>1 DEF Connected, From

LEMMA ViewsStep == Views /\ [ViewsNext]_viewVars => Views'
<1> SUFFICES ASSUME Views, [ViewsNext]_viewVars PROVE Views'
  OBVIOUS
<1>i. ViewsTypes /\ Connected /\ Cleared
  BY DEF Views
<1> USE DEF peerVarsOfView, recvVars, drawVars, yoloVars, uiThread
<1>1. ASSUME NEW k \in Streams, RecvSubmits(k) PROVE Views'
  <2>1. \/ yPending' = yPending
        \/ yPending' = [yPending EXCEPT ![k] = generation]
    BY <1>1 DEF RecvSubmits, YoloSubmit
  <2>2. /\ DOMAIN yPending' = Streams /\ yPending' = [j \in Streams |-> yPending'[j]]
        /\ \A j \in Streams : yPending'[j] \in {generation, yPending[j]}
    BY <1>i, <2>1, OneStream DEF ViewsTypes
  <2>3. /\ UNCHANGED <<yoloMode, feedback, peerNo, peerAt, inbox, closing, stored, generation, infer,
                       overlays, uiReset>>
        /\ peerAt # "down" /\ recv'.at = peerNo
    BY <1>1 DEF RecvSubmits
  <2>4. ViewsTypes'
    BY <1>i, <2>2, <2>3 DEF ViewsTypes
  <2>5. Connected'
    BY <1>i, <2>3 DEF Connected, From
  <2>6. Cleared'
    BY <1>i, <2>2, <2>3 DEF Cleared
  <2> QED BY <2>4, <2>5, <2>6 DEF Views
<1>2. ASSUME NEW k \in Streams, WorkerTakes(k) PROVE Views'
  <2>1. yPending' = [yPending EXCEPT ![k] = None]
    BY <1>2 DEF WorkerTakes
  <2>2. /\ DOMAIN yPending' = Streams /\ yPending' = [j \in Streams |-> yPending'[j]]
        /\ \A j \in Streams : yPending'[j] \in {None, yPending[j]}
    BY <1>i, <2>1, OneStream DEF ViewsTypes
  <2>3. /\ UNCHANGED <<yoloMode, feedback, peerNo, peerAt, inbox, closing, recv, stored, generation,
                       overlays, uiReset>>
        /\ infer'.at = yPending[k] /\ infer'.gen = generation /\ yPending[k] # None
    BY <1>2 DEF WorkerTakes
  <2>4. ViewsTypes'
    BY <1>i, <2>2, <2>3 DEF ViewsTypes, None
  <2>5. Connected'
    BY <1>i, <2>3 DEF Connected, From
  <2>6. Cleared'
    BY <1>i, <2>2, <2>3 DEF Cleared
  <2> QED BY <2>4, <2>5, <2>6 DEF Views
<1>3. ASSUME NEW m \in Streams \cup {"state"}, MessagePosted(m) PROVE Views'
  <2>1. /\ UNCHANGED <<yoloMode, feedback, peerNo, peerAt, closing, recv, stored, generation, infer,
                       yPending, overlays, uiReset>>
        /\ peerAt # "down" /\ inbox' = inbox \cup {m} /\ (m = "state" \/ yoloMode = "edge")
    BY <1>3 DEF MessagePosted, Heard
  <2>2. ViewsTypes' /\ Connected'
    BY <1>i, <2>1 DEF ViewsTypes, Connected, From
  <2>3. Cleared'
    BY <1>i, <2>1 DEF Cleared
  <2> QED BY <2>2, <2>3 DEF Views
<1>4. ASSUME NEW m \in Streams \cup {"state"}, MessageRuns(m) PROVE Views'
  <2>1. /\ UNCHANGED <<yoloMode, peerNo, peerAt, closing, recv, stored, generation, infer, yPending,
                       uiReset>>
        /\ feedback' \in {feedback, peerNo} /\ inbox # {} /\ inbox' \subseteq inbox /\ m \in inbox
        /\ \/ m = "state" /\ overlays' = overlays
           \/ m # "state" /\ overlays' = [overlays EXCEPT ![m] = peerNo]
    BY <1>4 DEF MessageRuns
  <2>2. /\ DOMAIN overlays' = Streams /\ overlays' = [j \in Streams |-> overlays'[j]]
    BY <1>i, <2>1, OneStream DEF ViewsTypes
  <2>3. ViewsTypes'
    BY <1>i, <2>1, <2>2 DEF ViewsTypes
  <2>4. Connected'
    BY <1>i, <2>1 DEF Connected, From
  <2>5. Cleared'
    BY <1>i, <2>1 DEF Cleared
  <2> QED BY <2>3, <2>4, <2>5 DEF Views
<1>5. CASE RecvStores
  <2>1. stored' = [stored EXCEPT ![recv.key] = [at |-> recv.at, seq |-> recv.seq]]
    BY <1>5 DEF RecvStores
  <2>2. /\ DOMAIN stored' = Streams /\ stored' = [j \in Streams |-> stored'[j]]
        /\ \A j \in Streams : stored'[j].at \in {recv.at, stored[j].at}
    BY <1>i, <2>1, OneStream DEF ViewsTypes
  <2>3. /\ UNCHANGED <<yoloMode, feedback, peerNo, peerAt, inbox, closing, overlays, generation, infer,
                       yPending, uiReset>>
        /\ recv # NoRecv /\ recv' = NoRecv
    BY <1>5 DEF RecvStores
  <2>4. ViewsTypes'
    BY <1>i, <2>2, <2>3 DEF ViewsTypes
  <2>5. Connected'
    BY <1>i, <2>2, <2>3 DEF Connected, From
  <2>6. Cleared'
    BY <1>i, <2>3 DEF Cleared
  <2> QED BY <2>4, <2>5, <2>6 DEF Views
<1>6. CASE WorkerReports
  <2>1. /\ UNCHANGED <<yoloMode, feedback, peerNo, peerAt, inbox, closing, recv, stored, generation,
                       yPending, uiReset>>
        /\ infer'.gen = None
    BY <1>6 DEF WorkerReports, NoInfer
  <2>2. /\ DOMAIN overlays' = Streams /\ overlays' = [j \in Streams |-> overlays'[j]]
        /\ \A j \in Streams : \/ overlays'[j] = overlays[j]
                              \/ infer.gen = generation /\ overlays'[j] = infer.at
    BY <1>i, <1>6, OneStream DEF WorkerReports, ResultWanted, ViewsTypes
  <2>3. ViewsTypes'
    BY <1>i, <2>1, <2>2 DEF ViewsTypes, None
  <2>4. Connected'
    BY <1>i, <2>1 DEF Connected, From
  <2>5. infer'.gen # generation
    BY <1>i, <2>1 DEF ViewsTypes, None
  <2>6. Cleared'
    BY <1>i, <2>1, <2>2, <2>5 DEF Cleared
  <2> QED BY <2>3, <2>4, <2>6 DEF Views
<1>7. CASE PeerConnects
  <2>1. /\ UNCHANGED <<yoloMode, feedback, inbox, closing, recv, stored, generation, infer, yPending,
                       overlays, uiReset>>
        /\ peerAt = "down" /\ peerAt' = "up" /\ ~closing /\ peerNo' = peerNo + 1
    BY <1>7 DEF PeerConnects
  <2>2. ViewsTypes' /\ Cleared'
    BY <1>i, <2>1 DEF ViewsTypes, Cleared
  <2>3. Connected'
    BY <1>i, <2>1 DEF Connected, From
  <2> QED BY <2>2, <2>3 DEF Views
<1>8. CASE PeerDisconnects \/ ClosedReported
  <2>1. /\ UNCHANGED <<yoloMode, peerNo, inbox, recv, generation, infer, yPending, overlays, uiReset>>
        /\ \/ peerAt = "up" /\ peerAt' # "down"
           \/ inbox = {} /\ UNCHANGED peerAt
    BY <1>8 DEF PeerDisconnects, ClosedReported
  <2>2. /\ DOMAIN stored' = Streams /\ stored' = [k \in Streams |-> stored'[k]]
        /\ feedback' = 0 /\ \A k \in Streams : stored'[k].at = 0
    BY <1>8, ForgetsAll DEF PeerDisconnects, ClosedReported
  <2>3. ViewsTypes' /\ Cleared'
    BY <1>i, <2>1, <2>2 DEF ViewsTypes, Cleared
  <2>4. Connected'
    BY <1>i, <2>1, <2>2 DEF Connected, From
  <2> QED BY <2>3, <2>4 DEF Views
<1>9. CASE PeerGone \/ LosesServer \/ RtcLeaveRoom \/ RtcCloseRoom
  <2>1. /\ UNCHANGED <<yoloMode, feedback, peerNo, inbox, recv, stored, generation, infer, yPending,
                       overlays>>
        /\ uiReset' \in {uiReset, "yolo"} /\ (uiReset' # uiReset => uiReset = "no")
    BY <1>9 DEF PeerGone, LosesServer, RtcLeaveRoom, RtcCloseRoom, LeavesRoom
  <2>2. ViewsTypes' /\ Cleared'
    BY <1>i, <2>1 DEF ViewsTypes, Cleared
  <2>3. ASSUME Dropped PROVE Connected'
    BY <1>i, <2>1, <2>3, DropKeeps
  <2>4. ASSUME UNCHANGED <<recv, peerAt, closing>> PROVE Connected'
    BY <1>i, <2>1, <2>4 DEF Connected, From
  <2>5. Connected'
    BY <1>9, <2>3, <2>4 DEF PeerGone, LosesServer, RtcLeaveRoom, RtcCloseRoom, LeavesRoom
  <2> QED BY <2>2, <2>5 DEF Views
<1>10. CASE ResetYolo
  <2>1. /\ UNCHANGED <<yoloMode, feedback, peerNo, peerAt, inbox, closing, recv, stored, infer, overlays>>
        /\ uiReset' = "frames" /\ generation' = generation + 1
        /\ yPending' = [k \in Streams |-> None]
    BY <1>10 DEF ResetYolo
  <2>2. /\ DOMAIN yPending' = Streams /\ yPending' = [k \in Streams |-> yPending'[k]]
        /\ \A k \in Streams : yPending'[k] = None
    BY <2>1, AllStreams
  <2>3. generation' \in Nat /\ infer'.gen < generation'
    BY <1>i, <2>1 DEF ViewsTypes
  <2>4. ViewsTypes'
    BY <1>i, <2>1, <2>2, <2>3 DEF ViewsTypes, None
  <2>5. Connected'
    BY <1>i, <2>1 DEF Connected, From
  <2>6. infer'.gen # generation' /\ uiReset' \notin {"no", "yolo"}
    BY <1>i, <2>1, <2>3 DEF ViewsTypes
  <2>7. Cleared'
    BY <1>i, <2>1, <2>2, <2>6 DEF Cleared
  <2> QED BY <2>4, <2>5, <2>7 DEF Views
<1>11. CASE ResetFrames
  <2>1. /\ UNCHANGED <<yoloMode, feedback, peerNo, peerAt, inbox, closing, recv, generation, infer,
                       yPending, overlays>>
        /\ uiReset' = "overlays" /\ stored' = [k \in Streams |-> Nothing]
    BY <1>11 DEF ResetFrames
  <2>2. /\ DOMAIN stored' = Streams /\ stored' = [k \in Streams |-> stored'[k]]
        /\ \A k \in Streams : stored'[k].at = 0
    BY <2>1, AllStreams DEF Nothing
  <2>3. ViewsTypes' /\ Cleared'
    BY <1>i, <2>1, <2>2 DEF ViewsTypes, Cleared
  <2>4. Connected'
    BY <1>i, <2>1, <2>2 DEF Connected, From
  <2> QED BY <2>3, <2>4 DEF Views
<1>12. CASE ResetOverlays
  <2>1. /\ UNCHANGED <<yoloMode, peerNo, peerAt, inbox, closing, recv, stored, generation, infer,
                       yPending>>
        /\ uiReset' = "no" /\ overlays' = [k \in Streams |-> None] /\ feedback' = 0
    BY <1>12 DEF ResetOverlays
  <2>2. /\ DOMAIN overlays' = Streams /\ overlays' = [k \in Streams |-> overlays'[k]]
        /\ \A k \in Streams : overlays'[k] = None
    BY <2>1, AllStreams
  <2>3. ViewsTypes' /\ Cleared'
    BY <1>i, <2>1, <2>2 DEF ViewsTypes, Cleared
  <2>4. Connected'
    BY <1>i, <2>1 DEF Connected, From
  <2> QED BY <2>3, <2>4 DEF Views
<1>13. CASE \/ \E m \in Modes : SwitchesView(m)
            \/ UiApplies \/ Draws \/ UNCHANGED viewVars
  <2>1. /\ UNCHANGED <<yoloMode, feedback, peerNo, peerAt, inbox, closing, recv, stored, generation,
                       infer, yPending, overlays>>
        /\ uiReset' \in {uiReset, "yolo"} /\ (uiReset' # uiReset => uiReset = "no")
    BY <1>13 DEF SwitchesView, UiApplies, Draws, viewVars
  <2> QED BY <1>i, <2>1 DEF Views, ViewsTypes, Connected, Cleared, From
<1> QED BY <1>1, <1>2, <1>3, <1>4, <1>5, <1>6, <1>7, <1>8, <1>9, <1>10, <1>11, <1>12, <1>13
    DEF ViewsNext

\* apps/rtc_console/main.cpp ResetSessionStateOnUi and OnP2PState with
\* LocalYolo::Clear: after a reset no waiting frame and no overlay of the console's
\* worker is older than it, wherever the decoder thread and the worker stood; after
\* a dropped connection's Closed report no frame and no vehicle state of it is left
\* or comes back, whatever it had posted to the logic thread.
THEOREM ForgottenStaysForgotten == ViewsSpec => []OldSessionForgotten
<1>1. Views => OldSessionForgotten
  <2> SUFFICES ASSUME Views PROVE OldSessionForgotten
    OBVIOUS
  <2>1. Connected /\ Cleared
    BY DEF Views
  <2> QED BY <2>1 DEF OldSessionForgotten, Connected, Cleared, From
<1> QED BY <1>1, ViewsBegin, ViewsStep, PTL DEF ViewsSpec

-----------------------------------------------------------------------------
(* What the console commands.                                               *)

TakeoverTypes ==
  /\ p2p = [s \in Edges |-> p2p[s]]
  /\ targets = [s \in Edges |-> targets[s]]
  /\ upCount.of = [s \in Edges |-> upCount.of[s]]
  /\ upCount = [count |-> upCount.count, of |-> upCount.of]
  /\ selected \in Edges \cup {0} /\ viewed \in Edges \cup {0} /\ identities \subseteq Edges

\* The links: a device is known over the link it has, and after the server is
\* lost none has one until the UI thread has reset what it commands.
Links ==
  /\ \A s \in identities : p2p[s] = "connected"
  /\ sessionReset => resetDue /\ \A s \in Edges : p2p[s] # "connected"

\* The takeover is of the viewed device, or its link is gone and nothing is
\* selected; while it can be commanded its link is that of the takeover.
Taken ==
  /\ sending => takeover
  /\ takeover => /\ selected \in {0, viewed} /\ driving
                 /\ selected # 0 /\ ~sessionReset =>
                      p2p[selected] = "connected" /\ takenLink = upCount.of[selected]

\* The keys: no movement is asked for at the end of a frame but by a key held in
\* it, and only the driving page looks at keys.
Pages == (uiStep = "keys" => driving) /\ (uiStep = "panel" => ~driving)
Keyed ==
  /\ Pages
  /\ uiStep = "tick" /\ takeover /\ driveInput = "move" => held = "move"

Driven == TakeoverTypes /\ Links /\ Taken /\ Keyed /\ DrivesWhatIsSeen

\* A command that went out went to the selected device, and what it says.
LEMMA SendDriveOf ==
  ASSUME NEW in, NEW g, SendDrive(in, g)
  PROVE  /\ sent'.gear = g
         /\ sent'.what = "move" => /\ sent'.to = selected /\ in = "move"
                                   /\ selected \in identities
BY DEF SendDrive, NoCommand, MakeVehicleDriveCommand, IsBoundSession, BoundIn

\* The selected device of a takeover, as long as it is known.
LEMMA SelectedIsTaken ==
  ASSUME Links, Taken, takeover, selected \in identities, selected \in Edges, 0 \notin Edges
  PROVE  viewed = selected /\ takenLink = upCount.of[selected]
<1>1. p2p[selected] = "connected" /\ ~sessionReset
  BY DEF Links
<1> QED BY <1>1 DEF Taken

\* A gear request goes to the device taken over.
LEMMA GearOf ==
  ASSUME NEW g \in SendVehicleGear, g # 0, Links, Taken
  PROVE  takeover /\ g = selected /\ viewed = g /\ takenLink = upCount.of[g]
<1>1. takeover /\ g = selected /\ g \in Edges /\ g \in identities
  BY DEF SendVehicleGear, IsBoundSession, BoundIn
<1> QED BY <1>1, SelectedIsTaken, TakeoverConstants DEF TakeoverConstants

\* Nothing is sent.
LEMMA SentNothing == sent' = NoCommand => DrivesWhatIsSeen'
BY DEF NoCommand, DrivesWhatIsSeen

LEMMA DrivenBegins == TakeoverInit => Driven
BY DEF TakeoverInit, Driven, TakeoverTypes, Links, Taken, Keyed, Pages, DrivesWhatIsSeen, NoCommand

\* A callback: the links change, the console's state but the selection does not.
LEMMA CallbacksKeep ==
  ASSUME Driven,
         \/ \E s \in Edges : \/ LinkUp(s) \/ ChannelChanges(s) \/ Identified(s)
                             \/ \E to \in {"disconnected", "none"} : LinkDown(s, to)
         \/ ServerLost
  PROVE  Driven'
<1>i. Driven
  OBVIOUS
<1> USE DEF linkVars, uiVars
<1>1. ASSUME NEW s \in Edges, LinkUp(s) PROVE Driven'
  <2>1. /\ p2p' = [p2p EXCEPT ![s] = "connected"] /\ p2p[s] # "connected" /\ ~sessionReset
        /\ upCount' = [upCount EXCEPT !.count = @ + 1, !.of[s] = upCount.count + 1]
        /\ targets' = [targets EXCEPT ![s] = [@ EXCEPT !.connected = TRUE]]
        /\ UNCHANGED selected
    BY <1>1 DEF LinkUp, SetP2PConnected
  <2>2. /\ UNCHANGED <<identities, viewed, takeover, sending, keyboard, kbActive, driveInput, driving,
                       uiStep, held, takenLink, sessionReset>>
        /\ sent' = NoCommand
    BY <1>1 DEF LinkUp
  <2>3. /\ p2p' = [r \in Edges |-> p2p'[r]] /\ p2p'[s] = "connected"
        /\ \A r \in Edges \ {s} : p2p'[r] = p2p[r]
    BY <1>i, <2>1 DEF Driven, TakeoverTypes
  <2>4. /\ upCount' = [count |-> upCount'.count, of |-> upCount'.of]
        /\ upCount'.of = [r \in Edges |-> upCount'.of[r]]
        /\ \A r \in Edges \ {s} : upCount'.of[r] = upCount.of[r]
    <3> DEFINE n == upCount.count  m == upCount.of
    <3>1. upCount = [count |-> n, of |-> m] /\ m = [r \in Edges |-> m[r]]
      BY <1>i DEF Driven, TakeoverTypes
    <3>2. upCount' = [count |-> n + 1, of |-> [m EXCEPT ![s] = n + 1]]
      BY <2>1, <3>1
    <3> HIDE DEF n, m
    <3> QED BY <3>1, <3>2
  <2>5. targets' = [r \in Edges |-> targets'[r]]
    BY <1>i, <2>1 DEF Driven, TakeoverTypes
  <2>6. \A r \in identities : p2p'[r] = "connected"
    BY <1>i, <2>1 DEF Driven, Links
  <2>7. takeover => selected # s
    BY <1>i, <2>1, <2>2, TakeoverConstants DEF Driven, Taken, TakeoverConstants
  <2>8. DrivesWhatIsSeen' /\ TakeoverTypes'
    <3>1. UNCHANGED <<selected, viewed, identities>>
      BY <2>1, <2>2
    <3> QED BY <1>i, <2>2, <2>3, <2>4, <2>5, <3>1, SentNothing DEF Driven, TakeoverTypes
  <2>9. Links'
    BY <2>1, <2>2, <2>6 DEF Links
  <2>10. Taken'
    <3>1. takeover /\ selected # 0 => p2p'[selected] = "connected" /\ upCount'.of[selected] = upCount.of[selected]
      <4> SUFFICES ASSUME takeover, selected # 0
                   PROVE  p2p'[selected] = "connected" /\ upCount'.of[selected] = upCount.of[selected]
        OBVIOUS
      <4>1. p2p[selected] = "connected" /\ selected \in Edges
        BY <1>i, <2>1 DEF Driven, TakeoverTypes, Taken
      <4> QED BY <2>3, <2>4, <2>7, <4>1
    <3> QED BY <1>i, <2>1, <2>2, <3>1 DEF Driven, Taken
  <2>11. Keyed'
    BY <1>i, <2>2 DEF Driven, Keyed, Pages
  <2> QED BY <2>8, <2>9, <2>10, <2>11 DEF Driven
<1>2. ASSUME NEW s \in Edges, NEW to \in {"disconnected", "none"}, LinkDown(s, to) PROVE Driven'
  <2>1. /\ p2p' = [p2p EXCEPT ![s] = to]
        /\ targets' = [targets EXCEPT ![s] = Unknown]
        /\ identities' = identities \ {s}
        /\ selected' = IF selected = s THEN 0 ELSE selected
        /\ resetDue => resetDue'
    BY <1>2 DEF LinkDown, SetP2PConnected
  <2>2. /\ UNCHANGED <<upCount, viewed, takeover, sending, keyboard, kbActive, driveInput, driving,
                       uiStep, held, takenLink, sessionReset>>
        /\ sent' = NoCommand
    BY <1>2 DEF LinkDown
  <2>3. /\ p2p' = [r \in Edges |-> p2p'[r]] /\ p2p'[s] = to /\ to # "connected"
        /\ \A r \in Edges \ {s} : p2p'[r] = p2p[r]
    BY <1>i, <2>1 DEF Driven, TakeoverTypes
  <2>4. targets' = [r \in Edges |-> targets'[r]]
    BY <1>i, <2>1 DEF Driven, TakeoverTypes
  <2>5. DrivesWhatIsSeen' /\ TakeoverTypes'
    <3>1. selected' \in Edges \cup {0} /\ identities' \subseteq Edges
      BY <1>i, <2>1 DEF Driven, TakeoverTypes
    <3> QED BY <1>i, <2>2, <2>3, <2>4, <3>1, SentNothing DEF Driven, TakeoverTypes
  <2>6. Links'
    <3>1. \A r \in identities' : p2p'[r] = "connected"
      BY <1>i, <2>1, <2>3 DEF Driven, Links, TakeoverTypes
    <3>2. sessionReset => \A r \in Edges : p2p'[r] # "connected"
      BY <1>i, <2>3 DEF Driven, Links
    <3> QED BY <1>i, <2>1, <2>2, <3>1, <3>2 DEF Driven, Links
  <2>7. Taken'
    <3>1. CASE selected = s
      BY <1>i, <2>1, <2>2, <3>1 DEF Driven, Taken
    <3>2. CASE selected # s
      <4>1. selected' = selected /\ (selected # 0 => p2p'[selected] = p2p[selected])
        BY <1>i, <2>1, <2>3, <3>2 DEF Driven, TakeoverTypes
      <4> QED BY <1>i, <2>2, <4>1 DEF Driven, Taken
    <3> QED BY <3>1, <3>2
  <2>8. Keyed'
    BY <1>i, <2>2 DEF Driven, Keyed, Pages
  <2> QED BY <2>5, <2>6, <2>7, <2>8 DEF Driven
<1>3. ASSUME NEW s \in Edges, ChannelChanges(s) PROVE Driven'
  <2>1. /\ UNCHANGED <<p2p, upCount, identities, resetDue, sessionReset, uiVars>>
        /\ targets' = [targets EXCEPT ![s].open = ~opened[s]] /\ sent' = NoCommand
    BY <1>3 DEF ChannelChanges
  <2>2. targets' = [r \in Edges |-> targets'[r]]
    BY <1>i, <2>1 DEF Driven, TakeoverTypes
  <2>3. DrivesWhatIsSeen' /\ TakeoverTypes'
    BY <1>i, <2>1, <2>2, SentNothing DEF Driven, TakeoverTypes
  <2> QED BY <1>i, <2>1, <2>3 DEF Driven, Links, Taken, Keyed, Pages
<1>4. ASSUME NEW s \in Edges, Identified(s) PROVE Driven'
  <2>1. /\ UNCHANGED <<p2p, upCount, targets, sessionReset, uiVars>> /\ identities' = identities \cup {s}
        /\ p2p[s] = "connected" /\ (resetDue => resetDue') /\ sent' = NoCommand
    BY <1>4 DEF Identified
  <2>2. DrivesWhatIsSeen' /\ TakeoverTypes'
    BY <1>i, <2>1, SentNothing DEF Driven, TakeoverTypes
  <2>3. Links'
    BY <1>i, <2>1 DEF Driven, Links
  <2> QED BY <1>i, <2>1, <2>2, <2>3 DEF Driven, Taken, Keyed, Pages
<1>5. CASE ServerLost
  <2>1. /\ UNCHANGED <<upCount, targets, uiVars>> /\ identities' = {} /\ p2p' = [s \in Edges |-> "none"]
        /\ resetDue' = TRUE /\ sessionReset' = TRUE /\ sent' = NoCommand
    BY <1>5 DEF ServerLost, PeersDropped
  <2>2. DrivesWhatIsSeen' /\ TakeoverTypes'
    BY <1>i, <2>1, SentNothing DEF Driven, TakeoverTypes
  <2>3. Links'
    BY <2>1 DEF Links
  <2> QED BY <1>i, <2>1, <2>2, <2>3 DEF Driven, Taken, Keyed, Pages
<1> QED BY <1>1, <1>2, <1>3, <1>4, <1>5

\* A step of the UI thread that ends the takeover.
LEMMA ClearedKeeps ==
  ASSUME Driven, ClearInput, TakeoverTypes', Links', DrivesWhatIsSeen', Pages'
  PROVE  Driven'
BY DEF Driven, ClearInput, Taken, Keyed

\* A step of the UI thread that leaves the links alone.
LinksStand == UNCHANGED <<p2p, upCount, identities, targets, resetDue, sessionReset>>

LEMMA LinksStandKeeps ==
  ASSUME Driven, LinksStand, selected' \in Edges \cup {0}, viewed' \in Edges \cup {0}
  PROVE  TakeoverTypes' /\ Links'
BY DEF Driven, LinksStand, TakeoverTypes, Links

LEMMA UiApplyKeeps == Driven /\ UiApply => Driven'
<1> SUFFICES ASSUME Driven, UiApply PROVE Driven'
  OBVIOUS
<1>i. Driven
  OBVIOUS
<1>1. /\ UNCHANGED <<p2p, upCount, identities, targets, selected, driving, held, takenLink>>
      /\ resetDue' = FALSE /\ sessionReset' = FALSE /\ sent' = NoCommand /\ uiStep' = "page"
      /\ viewed' \in {0, viewed}
  BY DEF UiApply, linkVars
<1>2. \/ ClearInput
      \/ /\ viewed' = viewed /\ ~resetDue
         /\ UNCHANGED <<takeover, sending, keyboard, kbActive, driveInput>>
  BY DEF UiApply
<1>3. TakeoverTypes' /\ DrivesWhatIsSeen'
  BY <1>i, <1>1, SentNothing DEF Driven, TakeoverTypes
<1>4. Links'
  BY <1>i, <1>1 DEF Driven, Links
<1>p. Pages'
  BY <1>1 DEF Pages
<1>5. CASE ClearInput
  BY <1>p, <1>i, <1>1, <1>3, <1>4, <1>5, ClearedKeeps
<1>6. CASE /\ viewed' = viewed /\ ~resetDue
           /\ UNCHANGED <<takeover, sending, keyboard, kbActive, driveInput>>
  <2>1. ~sessionReset
    BY <1>i, <1>6 DEF Driven, Links
  <2>2. Taken'
    BY <1>i, <1>1, <1>6, <2>1 DEF Driven, Taken
  <2>3. Keyed'
    BY <1>1, <1>p DEF Keyed
  <2> QED BY <1>3, <1>4, <2>2, <2>3 DEF Driven
<1> QED BY <1>2, <1>5, <1>6

LEMMA UiPageKeeps == Driven /\ UiPage => Driven'
<1> SUFFICES ASSUME Driven, UiPage PROVE Driven'
  OBVIOUS
<1>i. Driven
  OBVIOUS
<1>1. /\ LinksStand /\ UNCHANGED <<selected, viewed, takenLink>>
      /\ held' = "none" /\ uiStep' = IF driving' THEN "keys" ELSE "panel"
  BY DEF UiPage, linkVars, LinksStand
<1>2. \/ /\ driving' = driving \/ driving'
         /\ sent' = NoCommand /\ UNCHANGED <<takeover, sending, keyboard, kbActive, driveInput>>
      \/ StopAndRelease(0)
  BY DEF UiPage
<1>3. TakeoverTypes' /\ Links'
  BY <1>i, <1>1, LinksStandKeeps DEF Driven, TakeoverTypes
<1>p. Pages'
  BY <1>1 DEF Pages
<1>4. CASE StopAndRelease(0)
  <2>1. ClearInput /\ sent'.gear = 0 /\ sent'.what # "move"
    BY <1>4, SendDriveOf DEF StopAndRelease
  <2>2. DrivesWhatIsSeen'
    BY <2>1 DEF DrivesWhatIsSeen
  <2> QED BY <1>i, <1>p, <1>3, <2>1, <2>2, ClearedKeeps
<1>5. CASE /\ driving' = driving \/ driving'
           /\ sent' = NoCommand /\ UNCHANGED <<takeover, sending, keyboard, kbActive, driveInput>>
  <2>1. DrivesWhatIsSeen'
    BY <1>5, SentNothing
  <2>2. Taken'
    BY <1>i, <1>1, <1>5 DEF Driven, Taken, LinksStand
  <2>3. Keyed'
    BY <1>1, <1>p DEF Keyed
  <2> QED BY <1>3, <2>1, <2>2, <2>3 DEF Driven
<1> QED BY <1>2, <1>4, <1>5

LEMMA UiPanelKeeps == Driven /\ UiPanel => Driven'
<1> SUFFICES ASSUME Driven, UiPanel PROVE Driven'
  OBVIOUS
<1>i. Driven
  OBVIOUS
<1>1. /\ UNCHANGED <<resetDue, sessionReset, driving, held, takenLink>>
      /\ sent' = NoCommand /\ uiStep' = "tick" /\ uiStep = "panel"
  BY DEF UiPanel
<1>2. DrivesWhatIsSeen'
  BY <1>1, SentNothing
<1>p. Pages' /\ ~driving
  BY <1>i, <1>1 DEF Pages, Driven, Keyed
<1>3. CASE /\ PeersDropped \/ LinksKept
           /\ viewed' = 0 /\ selected' = 0
           /\ targets' = [s \in Edges |-> Unknown]
           /\ ClearInput
  <2>1. p2p' \in {p2p, [s \in Edges |-> "none"]} /\ identities' = {} /\ UNCHANGED upCount
    BY <1>3 DEF PeersDropped, LinksKept, linkVars
  <2>2. TakeoverTypes' /\ Links'
    BY <1>i, <1>1, <1>3, <2>1 DEF Driven, TakeoverTypes, Links
  <2> QED BY <1>i, <1>p, <1>2, <1>3, <2>2, ClearedKeeps
<1>4. CASE UNCHANGED <<linkVars, identities, viewed, selected, targets, takeover,
                       sending, keyboard, kbActive, driveInput>>
  <2>1. LinksStand
    BY <1>1, <1>4 DEF LinksStand, linkVars
  <2>2. TakeoverTypes' /\ Links'
    BY <1>i, <1>4, <2>1, LinksStandKeeps DEF Driven, TakeoverTypes
  <2>3. Taken'
    BY <1>i, <1>1, <1>4, <2>1 DEF Driven, Taken, LinksStand
  <2>4. ~takeover'
    BY <1>i, <1>p, <1>4 DEF Driven, Taken
  <2>5. Keyed'
    BY <1>p, <2>4 DEF Keyed
  <2> QED BY <1>2, <2>2, <2>3, <2>5 DEF Driven
<1> QED BY <1>3, <1>4 DEF UiPanel

LEMMA UiKeysKeeps == Driven /\ UiKeys => Driven'
<1> SUFFICES ASSUME Driven, UiKeys PROVE Driven'
  OBVIOUS
<1>i. Driven
  OBVIOUS
<1>1. LinksStand /\ UNCHANGED driving /\ uiStep = "keys" /\ uiStep' = "tick"
  BY DEF UiKeys, linkVars, LinksStand
<1>p. Pages' /\ driving
  BY <1>i, <1>1 DEF Driven, Keyed, Pages
<1>2. ASSUME NEW s \in Edges, KeySelect(s) PROVE Driven'
  <2>1. s \in Edges /\ viewed' \in {0, s, viewed} /\ UNCHANGED <<selected, takenLink, held>>
    BY <1>2 DEF KeySelect
  <2>2. TakeoverTypes' /\ Links'
    BY <1>i, <1>1, <2>1, LinksStandKeeps DEF Driven, TakeoverTypes
  <2>3. CASE StopAndRelease(0)
    <3>1. ClearInput /\ sent'.gear = 0 /\ sent'.what # "move"
      BY <2>3, SendDriveOf DEF StopAndRelease
    <3>2. DrivesWhatIsSeen'
      BY <3>1 DEF DrivesWhatIsSeen
    <3> QED BY <1>i, <1>p, <2>2, <3>1, <3>2, ClearedKeeps
  <2>4. CASE ~takeover /\ sent' = NoCommand /\ UNCHANGED <<takeover, sending, keyboard, kbActive, driveInput>>
    <3>1. ~takeover' /\ ~sending'
      BY <1>i, <2>4 DEF Driven, Taken
    <3> QED BY <1>p, <2>2, <2>4, <3>1, SentNothing DEF Driven, Taken, Keyed
  <2> QED BY <1>2, <2>3, <2>4 DEF KeySelect
<1>3. CASE KeyRelease
  <2>1. PICK g \in SendVehicleGear : takeover /\ StopAndRelease(g) /\ UNCHANGED <<viewed, selected, takenLink, held>>
    BY <1>3 DEF KeyRelease
  <2>2. ClearInput /\ sent'.gear = g /\ sent'.what # "move"
    BY <2>1, SendDriveOf DEF StopAndRelease
  <2>3. TakeoverTypes' /\ Links'
    BY <1>i, <1>1, <2>1, LinksStandKeeps DEF Driven, TakeoverTypes
  <2>4. g # 0 => g = viewed /\ takenLink = upCount.of[g]
    BY <1>i, GearOf DEF Driven
  <2>5. DrivesWhatIsSeen'
    BY <1>1, <2>1, <2>2, <2>4 DEF DrivesWhatIsSeen, LinksStand
  <2> QED BY <1>i, <1>p, <2>2, <2>3, <2>5, ClearedKeeps
<1>4. ASSUME NEW in \in {"none", "brake"}, KeyTakeover(in) PROVE Driven'
  <2>1. /\ ~takeover /\ viewed # 0 /\ viewed \in identities /\ selected' = viewed /\ viewed' = viewed
        /\ driveInput' = in
        /\ \/ /\ sent' = [to |-> viewed, what |-> MakeVehicleDriveCommand(in), gear |-> 0]
              /\ takeover' = TRUE /\ sending' = TRUE /\ takenLink' = upCount.of[viewed]
           \/ sent' = NoCommand /\ UNCHANGED <<takeover, sending, takenLink>>
    BY <1>4 DEF KeyTakeover, IsBoundSession, BoundIn
  <2>2. TakeoverTypes' /\ Links'
    BY <1>i, <1>1, <2>1, LinksStandKeeps DEF Driven, TakeoverTypes
  <2>3. DrivesWhatIsSeen'
    BY <2>1, SentNothing DEF DrivesWhatIsSeen, MakeVehicleDriveCommand
  <2>4. Taken'
    <3>1. p2p[viewed] = "connected"
      BY <1>i, <2>1 DEF Driven, Links
    <3>2. ~sending
      BY <1>i, <2>1 DEF Driven, Taken
    <3> QED BY <1>1, <1>p, <2>1, <3>1, <3>2 DEF Taken, LinksStand
  <2>5. Keyed'
    BY <1>p, <2>1 DEF Keyed
  <2> QED BY <2>2, <2>3, <2>4, <2>5 DEF Driven
<1>5. ASSUME NEW keys \in {"none", "move", "brake", "opposed"}, NEW g \in SendVehicleGear, KeysHeld(keys, g)
      PROVE  Driven'
  <2>1. /\ takeover /\ UNCHANGED <<viewed, selected, takeover, takenLink>> /\ held' = keys
        /\ driveInput' = "move" => keys = "move"
    BY <1>5 DEF KeysHeld, MergeVehicleInputs
  <2>2. sent'.gear = g /\ sent'.what # "move"
    BY <1>5, SendDriveOf DEF KeysHeld, NoCommand
  <2>3. TakeoverTypes' /\ Links'
    BY <1>i, <1>1, <2>1, LinksStandKeeps DEF Driven, TakeoverTypes
  <2>4. g # 0 => g = viewed /\ takenLink = upCount.of[g]
    BY <1>i, GearOf DEF Driven
  <2>5. DrivesWhatIsSeen'
    BY <1>1, <2>1, <2>2, <2>4 DEF DrivesWhatIsSeen, LinksStand
  <2>6. Taken'
    BY <1>i, <1>1, <2>1 DEF Driven, Taken, LinksStand
  <2>7. Keyed'
    BY <1>p, <2>1 DEF Keyed
  <2> QED BY <2>3, <2>5, <2>6, <2>7 DEF Driven
<1>6. CASE KeysTyped \/ KeysIdle
  <2>1. /\ sent' = NoCommand /\ UNCHANGED <<viewed, selected, takeover, sending, takenLink>>
        /\ driveInput' = "none" \/ ~takeover
    BY <1>6 DEF KeysTyped, KeysIdle
  <2>2. TakeoverTypes' /\ Links'
    BY <1>i, <1>1, <2>1, LinksStandKeeps DEF Driven, TakeoverTypes
  <2>3. Taken'
    BY <1>i, <1>1, <2>1 DEF Driven, Taken, LinksStand
  <2>4. Keyed'
    BY <1>p, <2>1 DEF Keyed
  <2> QED BY <2>1, <2>2, <2>3, <2>4, SentNothing DEF Driven
<1> QED BY <1>2, <1>3, <1>4, <1>5, <1>6 DEF UiKeys

LEMMA UiTickKeeps == Driven /\ UiTick => Driven'
<1> SUFFICES ASSUME Driven, UiTick PROVE Driven'
  OBVIOUS
<1>i. Driven
  OBVIOUS
<1>1. /\ LinksStand /\ UNCHANGED <<selected, viewed, driving, held, takenLink>>
      /\ uiStep = "tick" /\ uiStep' = "apply"
  BY DEF UiTick, linkVars, LinksStand
<1>2. TakeoverTypes' /\ Links' /\ Pages'
  BY <1>i, <1>1, LinksStandKeeps DEF Driven, TakeoverTypes, Pages
<1>3. CASE ClearInput /\ sent' = NoCommand
  BY <1>i, <1>2, <1>3, ClearedKeeps, SentNothing
<1>4. CASE /\ UNCHANGED <<takeover, sending, keyboard, kbActive, driveInput>>
           /\ sent' = NoCommand \/ ((sending \/ takeover) /\ SendDrive(driveInput, 0))
  <2>1. Taken' /\ Keyed'
    BY <1>i, <1>1, <1>2, <1>4 DEF Driven, Taken, Keyed, LinksStand
  <2>2. DrivesWhatIsSeen'
    <3>1. CASE sent' = NoCommand
      BY <3>1, SentNothing
    <3>2. CASE (sending \/ takeover) /\ SendDrive(driveInput, 0)
      <4>1. takeover /\ sent'.gear = 0
        BY <1>i, <3>2, SendDriveOf DEF Driven, Taken
      <4>2. ASSUME sent'.what = "move" PROVE sent'.to = viewed /\ held = "move" /\ takenLink = upCount.of[sent'.to]
        <5>1. sent'.to = selected /\ driveInput = "move" /\ selected \in identities
          BY <3>2, <4>2, SendDriveOf
        <5>2. held = "move"
          BY <1>i, <1>1, <4>1, <5>1 DEF Driven, Keyed
        <5>3. selected \in Edges
          BY <1>i, <5>1 DEF Driven, TakeoverTypes
        <5>4. viewed = selected /\ takenLink = upCount.of[selected]
          BY <1>i, <4>1, <5>1, <5>3, SelectedIsTaken, TakeoverConstants DEF Driven, TakeoverConstants
        <5> QED BY <5>1, <5>2, <5>4
      <4> QED BY <1>1, <4>1, <4>2 DEF DrivesWhatIsSeen, LinksStand
    <3> QED BY <1>4, <3>1, <3>2
  <2> QED BY <1>2, <2>1, <2>2 DEF Driven
<1> QED BY <1>3, <1>4 DEF UiTick

LEMMA DrivenStep == Driven /\ [TakeoverNext]_takeoverVars => Driven'
<1> SUFFICES ASSUME Driven, [TakeoverNext]_takeoverVars PROVE Driven'
  OBVIOUS
<1>1. CASE UNCHANGED takeoverVars
  BY <1>1 DEF takeoverVars, linkVars, uiVars, Driven, TakeoverTypes, Links, Taken, Keyed, Pages,
     DrivesWhatIsSeen
<1>2. CASE TakeoverNext
  BY <1>2, CallbacksKeep, UiApplyKeeps, UiPageKeeps, UiPanelKeeps, UiKeysKeeps, UiTickKeeps
     DEF TakeoverNext
<1> QED BY <1>1, <1>2

\* apps/rtc_console/main.cpp, the driving page with the callbacks of the RTC
\* threads: a command to move or a gear request goes only to the viewed device,
\* over the link it was taken over on, and a movement only while its key is held,
\* for every number of devices, links lost and come back, and keys.
THEOREM CommandsGoWhereSeen == TakeoverSpec => []DrivesWhatIsSeen
<1>1. Driven => DrivesWhatIsSeen
  BY DEF Driven
<1> QED BY <1>1, DrivenBegins, DrivenStep, PTL DEF TakeoverSpec
=============================================================================
