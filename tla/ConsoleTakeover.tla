--------------------------- MODULE ConsoleTakeover ---------------------------
(***************************************************************************)
(* Driving from the console: which devices it knows, which one the         *)
(* operator looks at, takes over and commands.  Callbacks of the RTC       *)
(* threads (P2P state, channel state, identities, server state) run        *)
(* between the steps of the UI thread's frame: apply pending resets, the   *)
(* page, the keys, the drive tick.  UpdateVehicleInputFromGamepad has no   *)
(* caller, so the gamepad's input stays empty and is left out.             *)
(***************************************************************************)
EXTENDS Integers, FiniteSets

CONSTANTS
  Edges,       \* session ids of the peers in the room
  SlotDevices, \* device ids bound to the four positions
  MaxLinks     \* bound: times a P2P link comes up

ASSUME TakeoverConstants == 0 \notin Edges /\ MaxLinks \in Nat

VARIABLES
  device,     \* the device each session belongs to
  p2p,        \* P2P state of each session as WebRTC has it
  opened,     \* its control and identity channels are open
  toldId,     \* its device id was sent since they opened
  upCount,    \* links that came up, and which one each session has
  identities, \* device_slots_: sessions that told their device id
  targets,    \* vehicle_control_targets_: connected and channel open
  selected,   \* selected_target_, 0 for none
  viewed,     \* viewed_session_
  takeover,   \* vehicle_takeover_active_
  sending,    \* vehicle_control_enabled_
  keyboard,   \* vehicle_keyboard_input_: "none", "move", "brake", or "opposed"
              \* for two keys that cancel each other
  kbActive,   \* vehicle_keyboard_active_
  driveInput, \* vehicle_input_
  driving,    \* the driving page is shown
  resetDue,   \* pending_reset_vehicle_control_
  sessionReset, \* pending_reset_session_state_
  uiStep,     \* the UI frame's next step
  held,       \* the movement or brake keys held in this frame
  takenLink,  \* the link under which the takeover began
  sent        \* what this step sent: a drive command, its target and kind, and
              \* the target of a gear request

linkVars == <<device, p2p, opened, toldId, upCount>>
uiVars == <<selected, viewed, takeover, sending, keyboard, kbActive, driveInput,
            driving, uiStep, held, takenLink>>
takeoverVars == <<linkVars, identities, targets, resetDue, sessionReset, uiVars, sent>>

NoCommand == [to |-> 0, what |-> "none", gear |-> 0]
Unknown == [connected |-> FALSE, open |-> FALSE]

(* DeviceSlotRegistry::Snapshot and IsBoundSession: the session alone      *)
(* claims a device that has a position.                                    *)
BoundIn(ids, s) ==
  /\ s \in ids /\ device[s] \in SlotDevices
  /\ \A r \in ids \ {s} : device[r] # device[s]
IsBoundSession(s) == BoundIn(identities, s)

(* AvailableTargets, and selected_target_ready of a session. *)
Available(s) == s # 0 /\ targets[s].connected /\ targets[s].open

-----------------------------------------------------------------------------
(* Callbacks. *)

(* Mutant of SetP2PConnected: a lost link leaves the selection. *)
SetP2PConnectedOnly(s, up) ==
  /\ targets' = [targets EXCEPT ![s] = IF up THEN [@ EXCEPT !.connected = TRUE]
                                         ELSE Unknown]
  /\ UNCHANGED <<selected, resetDue>>

(* VehicleControlTargetRegistry::SetP2PConnected and the reset OnP2PState  *)
(* asks the UI thread for when it returns true.                            *)
SetP2PConnected(s, up) ==
  /\ targets' = [targets EXCEPT ![s] = IF up THEN [@ EXCEPT !.connected = TRUE]
                                         ELSE Unknown]
  /\ selected' = IF ~up /\ selected = s THEN 0 ELSE selected
  /\ resetDue' = (resetDue \/ (~up /\ selected = s))

(* WebRTC reports a link up: a new one, or one that ICE had lost.  After   *)
(* the server was lost that takes a login, a room and an ICE exchange,     *)
(* longer than the UI thread's frame.                                      *)
LinkUp(s) ==
  /\ p2p[s] \in {"none", "disconnected"} /\ upCount.count < MaxLinks /\ ~sessionReset
  /\ p2p' = [p2p EXCEPT ![s] = "connected"]
  /\ upCount' = [upCount EXCEPT !.count = @ + 1, !.of[s] = upCount.count + 1]
  /\ SetP2PConnected(s, TRUE)
  /\ sent' = NoCommand
  /\ UNCHANGED <<device, opened, toldId, identities, viewed, takeover, sending, keyboard,
                 kbActive, driveInput, driving, uiStep, held, takenLink, sessionReset>>

(* OnP2PState with Disconnected (ICE lost it, the peer connection lives    *)
(* on) or with Closed or Failed (it is gone, and its channels with it).    *)
LinkDown(s, to) ==
  /\ p2p[s] = "connected" \/ (p2p[s] = "disconnected" /\ to = "none")
  /\ p2p' = [p2p EXCEPT ![s] = to]
  /\ opened' = [opened EXCEPT ![s] = @ /\ to = "disconnected"]
  /\ toldId' = [toldId EXCEPT ![s] = @ /\ to = "disconnected"]
  /\ identities' = identities \ {s}
  /\ SetP2PConnected(s, FALSE)
  /\ sent' = NoCommand
  /\ UNCHANGED <<device, upCount, viewed, takeover, sending, keyboard, kbActive,
                 driveInput, driving, uiStep, held, takenLink, sessionReset>>

(* OnDataChannelState for the control channel, opening or closing. *)
ChannelChanges(s) ==
  /\ p2p[s] = "connected"
  /\ opened' = [opened EXCEPT ![s] = ~@]
  /\ toldId' = [toldId EXCEPT ![s] = FALSE]
  /\ targets' = [targets EXCEPT ![s].open = ~opened[s]]
  /\ sent' = NoCommand
  /\ UNCHANGED <<device, p2p, upCount, identities, resetDue, sessionReset, uiVars>>

(* OnRecvMessage on the identity channel: the edge tells its device id     *)
(* once when the channel opens.  A selected device that this leaves        *)
(* without a position of its own is stopped being commanded.               *)
Identified(s) ==
  /\ p2p[s] = "connected" /\ opened[s] /\ ~toldId[s]
  /\ toldId' = [toldId EXCEPT ![s] = TRUE]
  /\ identities' = identities \cup {s}
  /\ resetDue' = (resetDue \/ (selected # 0 /\ ~BoundIn(identities', selected)))
  /\ sent' = NoCommand
  /\ UNCHANGED <<device, p2p, opened, upCount, targets, sessionReset, uiVars>>

(* The agent dropped every peer connection: it lost the server, or left    *)
(* its room.                                                               *)
PeersDropped ==
  /\ p2p' = [s \in Edges |-> "none"]
  /\ opened' = [s \in Edges |-> FALSE] /\ toldId' = [s \in Edges |-> FALSE]
  /\ identities' = {}
  /\ UNCHANGED <<device, upCount>>

(* OnServerConnectionState other than Logined. *)
ServerLost ==
  /\ PeersDropped
  /\ resetDue' = TRUE /\ sessionReset' = TRUE
  /\ sent' = NoCommand
  /\ UNCHANGED <<targets, uiVars>>

-----------------------------------------------------------------------------
(* The UI thread. *)

(* The brake wins over everything; keys count while one is held. *)
MergeVehicleInputs(kb, active) ==
  IF kb = "brake" THEN "brake" ELSE IF active THEN kb ELSE "none"

(* Forward with reverse, or left with right, ask for nothing. *)
MakeVehicleDriveCommand(in) == IF in = "opposed" THEN "none" ELSE in

(* SendVehicleDriveCommand of what `in` asks for, after a gear request to  *)
(* g: no target, a target that is not ready, or a send the agent refuses   *)
(* leaves no command sent.                                                 *)
SendDrive(in, g) ==
  \/ sent' = [NoCommand EXCEPT !.gear = g]
  \/ /\ selected # 0 /\ IsBoundSession(selected) /\ Available(selected)
     /\ sent' = [to |-> selected, what |-> MakeVehicleDriveCommand(in), gear |-> g]

(* SendVehicleGear, whose send may fail, or no gear key: the session that  *)
(* gets the request, or 0.                                                 *)
SendVehicleGear ==
  {0} \cup {s \in Edges : takeover /\ s = selected /\ IsBoundSession(s) /\ Available(s)}

(* ClearVehicleInput with vehicle_control_enabled_ off. *)
ClearInput ==
  /\ takeover' = FALSE /\ sending' = FALSE
  /\ keyboard' = "none" /\ kbActive' = FALSE /\ driveInput' = "none"

(* ApplyPendingUiActions: the viewed or the commanded session is no longer *)
(* bound, or a callback asked for a reset.                                 *)
UiApply ==
  LET unbound == \/ viewed # 0 /\ ~IsBoundSession(viewed)
                 \/ takeover /\ ~IsBoundSession(selected)
  IN
  /\ uiStep = "apply"
  /\ uiStep' = "page"
  /\ viewed' = IF unbound THEN 0 ELSE viewed
  /\ IF unbound \/ resetDue THEN ClearInput
     ELSE UNCHANGED <<takeover, sending, keyboard, kbActive, driveInput>>
  /\ resetDue' = FALSE /\ sessionReset' = FALSE
  /\ sent' = NoCommand
  /\ UNCHANGED <<linkVars, identities, targets, selected, driving, held, takenLink>>

(* SetVehicleEmergencyStop, a last command, ClearVehicleInput: what leaving *)
(* the page, releasing the takeover and both stop keys do.                 *)
StopAndRelease(g) == SendDrive("brake", g) /\ ClearInput

(* The page tabs of DrawUi: leaving the driving page stops the device.     *)
(* Only the driving page reads the keys.                                   *)
UiPage ==
  /\ uiStep = "page"
  /\ \/ /\ driving' = driving /\ sent' = NoCommand
        /\ UNCHANGED <<takeover, sending, keyboard, kbActive, driveInput>>
     \/ driving /\ driving' = FALSE /\ StopAndRelease(0)
     \/ /\ ~driving /\ driving' = TRUE /\ sent' = NoCommand
        /\ UNCHANGED <<takeover, sending, keyboard, kbActive, driveInput>>
  /\ uiStep' = IF driving' THEN "keys" ELSE "panel"
  /\ held' = "none"
  /\ UNCHANGED <<linkVars, identities, targets, resetDue, sessionReset, selected, viewed, takenLink>>

(* RtcCloseRoom only asks the server: the links and their channels stay,   *)
(* the console forgets the identities that came over them.                 *)
LinksKept == identities' = {} /\ UNCHANGED linkVars

(* The connection page: leaving or closing the room forgets the targets    *)
(* (ResetVehicleControlOnUi(true)).                                        *)
UiPanel ==
  /\ uiStep = "panel"
  /\ uiStep' = "tick"
  /\ \/ /\ PeersDropped \/ LinksKept
        /\ viewed' = 0 /\ selected' = 0
        /\ targets' = [s \in Edges |-> Unknown]
        /\ ClearInput
     \/ UNCHANGED <<linkVars, identities, viewed, selected, targets, takeover,
                    sending, keyboard, kbActive, driveInput>>
  /\ sent' = NoCommand
  /\ UNCHANGED <<resetDue, sessionReset, driving, held, takenLink>>

(* A number key: select a position's device, or unselect it.  Under a      *)
(* takeover the device is stopped first, and a stop that could not be sent *)
(* to a ready device cancels the change.                                   *)
KeySelect(s) ==
  /\ IsBoundSession(s)
  /\ IF takeover THEN StopAndRelease(0)
     ELSE sent' = NoCommand /\ UNCHANGED <<takeover, sending, keyboard, kbActive, driveInput>>
  /\ viewed' = IF takeover /\ Available(selected) /\ sent' = NoCommand THEN viewed
               ELSE IF viewed = s THEN 0 ELSE s
  /\ UNCHANGED <<selected, takenLink, held>>

(* Release, or stop and release, which comes after the gear keys. *)
KeyRelease ==
  /\ takeover
  /\ \E g \in SendVehicleGear : StopAndRelease(g)
  /\ UNCHANGED <<viewed, selected, takenLink, held>>

(* Takeover of the viewed device, with the brake held or not: the first    *)
(* command must go out.                                                    *)
KeyTakeover(in) ==
  /\ ~takeover
  /\ viewed # 0 /\ IsBoundSession(viewed) /\ Available(viewed)
  /\ selected' = viewed
  /\ keyboard' = in /\ kbActive' = (in = "brake") /\ driveInput' = in
  /\ \/ /\ sent' = [to |-> viewed, what |-> MakeVehicleDriveCommand(in), gear |-> 0]
        /\ takeover' = TRUE /\ sending' = TRUE
        /\ takenLink' = upCount.of[viewed]
     \/ sent' = NoCommand /\ UNCHANGED <<takeover, sending, takenLink>>
  /\ held' = in
  /\ UNCHANGED viewed

(* The gear, movement and brake keys under a takeover, and the input that  *)
(* results.  Letting go of them sends the stop at once.                    *)
KeysHeld(keys, g) ==
  /\ takeover
  /\ held' = keys
  /\ keyboard' = IF keys # "none" \/ kbActive THEN keys ELSE keyboard
  /\ kbActive' = (keys # "none")
  /\ driveInput' = MergeVehicleInputs(keyboard', kbActive')
  /\ IF keys # "none" THEN sending' = TRUE /\ sent' = [NoCommand EXCEPT !.gear = g]
     ELSE IF kbActive THEN sending' = FALSE /\ SendDrive("none", g)
     ELSE UNCHANGED sending /\ sent' = [NoCommand EXCEPT !.gear = g]
  /\ UNCHANGED <<viewed, selected, takeover, takenLink>>

(* A text field has the focus: movement keys are not the operator's. *)
KeysTyped ==
  /\ takeover
  /\ held' = "none"
  /\ keyboard' = "none" /\ kbActive' = FALSE /\ driveInput' = "none"
  /\ sent' = NoCommand
  /\ UNCHANGED <<viewed, selected, takeover, sending, takenLink>>

(* No key, and no takeover. *)
KeysIdle ==
  /\ ~takeover
  /\ driveInput' = MergeVehicleInputs(keyboard, kbActive)
  /\ sent' = NoCommand
  /\ UNCHANGED <<viewed, selected, takeover, sending, keyboard, kbActive, held, takenLink>>

(* UpdateVehicleInputFromKeyboard and MergeVehicleInputs. *)
UiKeys ==
  /\ uiStep = "keys"
  /\ uiStep' = "tick"
  /\ \/ \E s \in Edges : KeySelect(s)
     \/ KeyRelease
     \/ \E in \in {"none", "brake"} : KeyTakeover(in)
     \/ \E keys \in {"none", "move", "brake", "opposed"}, g \in SendVehicleGear :
          KeysHeld(keys, g)
     \/ KeysTyped
     \/ KeysIdle
  /\ UNCHANGED <<linkVars, identities, targets, resetDue, sessionReset, driving>>

(* TickVehicleControl: a takeover whose device is not ready ends here; the *)
(* command goes out when its interval has passed.                          *)
UiTick ==
  /\ uiStep = "tick"
  /\ uiStep' = "apply"
  /\ IF takeover /\ ~Available(selected)
     THEN ClearInput /\ sent' = NoCommand
     ELSE /\ UNCHANGED <<takeover, sending, keyboard, kbActive, driveInput>>
          /\ IF (sending \/ takeover) /\ Available(selected)
             THEN SendDrive(driveInput, 0) ELSE sent' = NoCommand
  /\ UNCHANGED <<linkVars, identities, targets, resetDue, sessionReset, selected, viewed,
                 driving, held, takenLink>>

-----------------------------------------------------------------------------
TakeoverInit ==
  /\ device \in [Edges -> SlotDevices]
  /\ p2p = [s \in Edges |-> "none"]
  /\ opened = [s \in Edges |-> FALSE] /\ toldId = [s \in Edges |-> FALSE]
  /\ upCount = [count |-> 0, of |-> [s \in Edges |-> 0]]
  /\ identities = {} /\ targets = [s \in Edges |-> Unknown]
  /\ selected = 0 /\ viewed = 0
  /\ takeover = FALSE /\ sending = FALSE
  /\ keyboard = "none" /\ kbActive = FALSE /\ driveInput = "none"
  /\ driving = TRUE /\ resetDue = FALSE /\ sessionReset = FALSE
  /\ uiStep = "apply" /\ held = "none" /\ takenLink = 0 /\ sent = NoCommand

TakeoverNext ==
  \/ \E s \in Edges :
       \/ LinkUp(s) \/ ChannelChanges(s) \/ Identified(s)
       \/ \E to \in {"disconnected", "none"} : LinkDown(s, to)
  \/ ServerLost
  \/ UiApply \/ UiPage \/ UiPanel \/ UiKeys \/ UiTick

TakeoverSpec == TakeoverInit /\ [][TakeoverNext]_takeoverVars

-----------------------------------------------------------------------------
(* A command to move or a gear request goes only to the device on the      *)
(* operator's screen, a command to move only in a frame in which the       *)
(* operator holds a movement key, and either only over the link under      *)
(* which that device was taken over: losing the link and getting it back   *)
(* between two steps of the UI thread never carries a takeover over, nor   *)
(* does a key let go of, a page left or a device unselected leave a moving *)
(* command behind.                                                         *)
DrivesWhatIsSeen ==
  /\ sent.what = "move" => /\ sent.to = viewed
                           /\ held = "move"
                           /\ takenLink = upCount.of[sent.to]
  /\ sent.gear # 0 => /\ sent.gear = viewed
                      /\ takenLink = upCount.of[sent.gear]

(* README of the client: a device that went offline is back in its         *)
(* position after it reconnected.  A device whose link is up and which told *)
(* its id over the channels it still has is known by that id.              *)
BackInItsPosition ==
  \A s \in Edges : p2p[s] = "connected" /\ opened[s] /\ toldId[s] => s \in identities
=============================================================================
