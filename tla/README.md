# rtc-framework: TLA+ models, model checking and proofs

rtc-framework drives vehicles and robot dogs over WebRTC. A console (the remote
driver) and an edge device (on the vehicle) meet in a room of a signaling
server, set up a peer-to-peer connection and exchange video, audio and control
messages. This directory holds TLA+ models of the program's own logic on both
sides and in the server, the TLC runs that check them on small instances, and
TLAPS proofs, for every instance, of every safety invariant the runs check and of
the refinement of the camera's subscriptions.

    tlc   -workers 2 -config control_drive.cfg MCControlScenes
    tlapm VehicleControl_proofs.tla

## 1. Inventory of the system

Paths are relative to `src/`.

| Part | State it keeps | Operations | Hard because |
|---|---|---|---|
| Drive command gate (`client/protocols/vehicle`) | active, last sequence, time of last command, stopped flag | Start, Stop, Accept, PollWatchdog | lossy, unordered channel; limits compared at equality |
| Vehicle control module (`client/modules/vehicle`) | session in control, latches, gear, two watchdogs, queue of events, pending dog goals | Enqueue* (callbacks), Tick, Start, Shutdown | callbacks against the main loop; several reasons to stop that overlap; a queue that overflows |
| Dog command forwarder (`client/modules/dog`) | WebSocket to the robot, generation, write queue, goals with timers | Start, Close, SendVelocity, SendStop, behaviour goals | two threads, reconnects, late timers, cancelled handlers that are already queued |
| Signaling server (`signaling-server`) | sessions, ping timers, rooms | WebSocket open, message, close, error; HTTP open, join, leave, close, query | two channels with one session number; timers against heartbeats |
| RTC connection manager (`vtsrtc/src/rtc_connection_manager.cpp`) | WebSocket to the server, session number, peer connections by remote session | connect, reconnect, room calls, offers and answers | callbacks of connections already replaced; blocking HTTP calls with a session that has changed |
| Peer connection (`vtsrtc/src/rtc_connection.cpp`) | one libwebrtc connection, channels, tracks | create, offer, answer, close | callbacks from libwebrtc threads, posted to the logic thread |
| Session runtime (`client/modules/runtime`) | server state, joined flag, retry flag, connected peers | Init, Tick, callbacks, Shutdown | a blocking room call whose result overwrites a later event |
| Edge application (`client/apps/rtc_edge`) | selected view, send plan, workers | main loop, callbacks, shutdown | two threads refresh one plan; an order of stopping |
| Console (`client/apps/rtc_console`) | positions of the devices, control targets, takeover, views, overlays | callbacks, UI frame, local detector | callbacks between the steps of a UI frame; results of an earlier room |
| Camera (`client/modules/camera`, `edge`) | driver buffers, subscriptions, converter slots | capture, publish, take, convert, send, stop | buffers held in four places by three threads; failures of one of them |
| Vision (`client/modules/vision`) | tracks, identities | detect, fuse, stabilize, send | identities over time, limits of a message |
| Audio (`client/modules/audio`, `vtsrtc/src/rtc_external_audio_device.h`) | streams, threads | capture, play, start, stop | backlog dropped in the middle of a frame; start against push and stop |
| Hardware encoders (`vtsrtc/src/video/encode`) | sessions, buffers, tasks, callback lease, rates | init, encode, rates, release, destroy | resolution changes in place, a standby session, deferred release, refused rates |
| Statistics (`vtsrtc/src/statistics`) | streams of each remote session, counts of the last report | register, forget, report | reports handled after their connection is gone or replaced |
| Packetizer, depacketizer (`vtsrtc/src/packet`) | partial messages | split, resend, reassemble | switched off (`rtc_connection.h:79`) |
| C API, configuration, logging | | | formatting, wrappers |

Interactions. The signaling server forwards offers, answers and candidates and
announces rooms; the connection manager turns them into peer connections and
reports states to the session runtime; the edge application hands peer events
and control messages to `VehicleControlModule`, whose `Tick` its main loop
calls, and view selections to the camera workers, which send through the session
runtime into the encoders; the control module calls the vehicle interface, for a
robot dog the `DogCommandForwarder`, which reports finished goals back into the
module's queue. The console receives pictures, detections and vehicle states and
sends drive commands to the device it has taken over.

What makes each part correct:

* gate and control module: the vehicle moves only for the session in control, on
  a command that is new and recent; every doubt ends in a stop, and hard stops
  are only released by a new session; the peer learns the state; an
  acknowledgement reaches the request it is about, or nobody;
* forwarder: a stop is never overtaken by an older motion, a new connection
  begins with zero velocity, every goal is reported once, Close returns;
* signaling server: a session is in one room at most, rooms do not outlive the
  people in them, clients learn every change, dead clients are found out;
* connection manager and runtime: an outage is reported once and overcome, a
  client is in its room when it says so and gets back into it, no callback of a
  closed connection damages the map of connections;
* edge and camera: what is selected is what is sent, capture never starves, a
  subscription delivers the newest frames in order, everything stops;
* encoders: no buffer is lost, a new resolution starts with an image that can be
  decoded, encoded packets keep their frame's timestamp unless their own pipeline
  lost one, WebRTC's callback is not used
  after Release, hardware is freed, rates arrive;
* console: only the device on the screen is driven, and only over the link under
  which it was taken over; what it forgets of a session or a connection stays
  forgotten; a delay is of the stream it is shown for;
* audio, vision: a frame of sound is sound as it was, identities are unique.

`PROJECT.json` lists every part under "components", and the places where the
code is hard to test, line by line, under "hazards".

## 2. Modules

### DriveCommandGate and VehicleControl

`DriveCommandGate` models the class of the same name as operators on a record
(`GateStart`, `GateStop`, `Accept`, `PollGate`). `VehicleControl` EXTENDS it.

State and code: `gate`, `stopSent`, `awaitingFirstDrive`,
`recoverableStopPending`, `safetyLatched`, `dogLateralActive`,
`dogLateralWatchdogStopped`, `activeGear`, `activeSession`, `started`,
`stateDirty`, `pendingDogActions`, `nextCompletionId`, `pendingEvents` and
`pendingOverflow` are the members with those names. `pc` and `batch` say where
the current Tick stands: `TickBegin` swaps the queue out, then `TickOverflow`,
one step per event of the batch, `TickDriveWatchdog`, `TickLateralWatchdog` and
`MaybeSendState` follow in the order of the code, and callbacks can run between
any two of them. `vehicle`, `inFlight`, `reported`, `drives` and `lastAck` are
the environment or history.

Time: `Tick` reads the clock once and only compares differences with limits, so
the model keeps ages, advanced by `TickBegin(elapsed)`. An age is counted up to
its limit only, since the code distinguishes nothing beyond it.

The vehicle interface is external: it may take a command, refuse it or fail.
Messages may be lost, repeated and reordered: a peer may deliver any message of
the constant set `Messages` at any time.

### DogForwarder

`io` is the data of the io thread; each method of `Impl` is an operator from io
to io, because the methods call each other (`HandleConnectionFailure` calls
`FailPendingBehaviorGoals`, and so on). `ready` is the queue of handlers, oldest
first: what the main thread posted and what sockets and timers completed. One
action (`Run...`) runs one handler to its end. The main thread has `Start`,
`Stop`, `StopJoins`, `ForwardMove`, `ForwardStop`, `ForwardDogBehaviorGoal`. The
environment completes operations, with success or error, lets timers expire and
executes what the robot receives.

Assumptions: asio runs ready handlers in order; a frame the kernel took is
executed by the robot; goal ids are distinct (the code draws a random suffix);
the test of `connected` and the post that follows it are one step; the io thread
does not die of an exception.

### SignalingServer

All handlers run on the one io_context thread, so a handler is one step. `live`
is the key set of `sessionid_conn_map_`, `timer`, `due` and `erasing` describe
`conn_pingtimer_map_` (no entry, waiting or idle; expired with the handler
queued; erasure posted), `rooms` is `rooms_`. The vector of members is kept as
the number of occurrences of each session, because the code only searches,
counts and removes. `OnOpen` runs once per connection and numbers are never
reused, so connections are named by their session number. The loop of
`LeaveRoom` treats every room that holds the session, independently of the
order, so it is one operator over that set.

`asked`, `told`, `inroom` and the field `opened_by` are history: what the
server has told each connected session, in the order of sending.
`LateRequests` says whether HTTP requests may name sessions already closed. The
code never checks that, so TRUE is the server as it is in any network; FALSE
describes clients that never have a request on the way when they are
disconnected.

Offers, answers and candidates are forwarded without any state in the server.
Requests that are refused
without telling the client anything about its room (unknown room, room exists,
malformed body) change nothing and have no action.

### SessionClient

The client's way into a room. The websocket thread runs the completions of one
io_context in order (`io`), owns `ws` (connection, session number, timers, the
flag `network_disconnected_notified_`) and posts tasks to the logic thread
(`queue`), which runs `RtcSession`'s callbacks; the main thread runs `Tick` and
blocks while the logic thread performs its room request (`call`). The connection
in use is "cur", every earlier one "old". The server (`srv`) is reduced to one
room and its members, as `SignalingServer` would keep them. A
request on the way keeps the session number it was made with, so it becomes an
"old" one's when the client dials again. `late` is history: a
`Tick` has stored `room_joined_` over a reset that came while it waited.

### PeerConnections

The map from remote sessions to connections, and the connections. WebRTC's
signaling thread posts reports (`queue`); a report names the remote session, not
the connection, so one of a replaced connection is handled as its successor's.
`clash` remembers the remotes this can have happened to: what is promised for the
others is not promised for them. `senders` is the connection whose senders are in
`rtpsender_priority_map_`. When several connections are destroyed at once, their
reports come one connection after the other, in any order (`InTurn`).

### CameraPipeline, LatestFrames

`CameraPipeline` has the capture thread, the worker, the YOLO thread and the
caller of Start and Stop of one streaming module (single camera, stereo, stereo
with YOLO, YUV file), the subscriptions between them and the converter with its
slots and the frames CUDA still reads. Free driver buffers are not a variable:
they are what no holder has. `LatestFrames` is the abstract specification of a
subscription, with no threads and no queue: of the `depth` newest frames the
consumer gets the oldest it has not had. Both subscriptions of `CameraPipeline`
are shown to implement it (`RtcFrames`, `YoloFrames`: INSTANCE ... WITH, checked as
`SubscriptionsDeliverLatest`).

### EdgeCameras

`RefreshVideoSendPlan` on the main and on the logic thread (compute under one
lock, apply under another), one worker per camera, the composed grid, worker
errors, and the start and shutdown of the application with control module,
session and audio module.

### JetsonSession, JetsonLifecycle, RaspEncoder, EncoderRates

`JetsonSession` is one hardware session: encoder thread, capture thread, device;
buffers, tasks, `Reconfigure`. `JetsonLifecycle` is the encoder WebRTC sees: its
sessions (active, standby, retired) as a rank of resolution each, the callback
lease, the standby worker and the deferred release. `RaspEncoder` is the GStreamer
encoder with its pending frames and packets: packets are paired with descriptions
by order, so a sample that cannot be used and a description dropped at the list's
limit shift all that follow, until a new pipeline begins with an empty list
(`skewed` is history that says such a thing happened, `began` the first frame of the
pipeline). `EncoderRates` has the rates of
both, where the code keeps them apart from everything else.

### Statistics

How a receiving delay comes into the console's table: the timer that asks every
listed connection, the answers posted to the logic thread, `OnStatisticsReport`'s
receiving half with one `VideoDelayWindow` for each part of a delay, and the two
callbacks that write the console's row. A stream is a connection and a source (the
SSRC, taken to be unique to them), a mean is the pair of counts it was taken over.
Connections are made, replaced and dropped between any two tasks, as
`PeerConnections` has it in detail. `reported` is history: the counts each stream had
in the reports handled; `replaced` the vehicles given a connection over a listed one.

### AudioDevices, Vision

Blocks of samples between the microphone and the callback, the
playback stream and WebRTC's playout thread; boxes as positions, fused into pairs
and followed by tracks. The passes of `Vision` over boxes and tracks are recursive
functions of the turn (`StabilizeBoxes`, `AppendHeld`, `PruneStaleTracks`, `Fuse`),
each with its turn as an operator where that is more than a line.

### ConsoleTakeover, ConsoleViews

`ConsoleTakeover`: callbacks run between the steps of the UI thread's frame
(`uiStep`: pending resets, page, keys, drive tick). `takenLink` and `upCount` are
history that tells one link of a session from the next. `ConsoleViews`: frames on
the decoder thread, the local detector's worker, the edge's messages, the UI's
reset. Connections are numbered, and frames and messages carry the number of theirs;
what the local detector has carries its generation, the number of resets. Messages
wait on the logic thread (`inbox`) and run there even when their connection has been
dropped, and before its Closed report. `RtcLeaveRoom` drops the connection, `RtcCloseRoom`
only asks the server and leaves it up.

### MCControlScenes, MCMedia, MCComponents

`MCControlScenes` chooses in the first state which kinds of messages occur
together. `MCMedia` and `MCComponents` hold components that share no state with
one another: a behaviour picks one of them (`running`) and is a behaviour of that
one, while the others rest; every property is about one component's variables,
so a resting component neither helps nor hurts it. Each module keeps its own
specification (`CamSpec`, `JetSpec`, ...), under which it can be used alone.

## 3. Runs

| Run | Module | Checks | Shows |
|---|---|---|---|
| control_drive | MCControlScenes | MotionGuarded, WatchdogBound, NoReplay, AcksSound, HardLatch | two sessions, drive frames in any order with repetition, among malformed messages or gear changes, or drive frames and lateral motion in turn, or goals with the same request numbers that complete late: motion is guarded and fresh, numbers only increase, hard stops hold, acknowledgements are about their request |
| control_dog | MCControlScenes | PeerInformed, SilenceStops | driving, lateral motion and goals mixed, or driving, gears and malformed messages: the peer learns the state; a silent peer leaves a standing vehicle |
| dog_velocity | DogForwarder | FirstFrameIsZero, StopHolds, CleanShutdownStops, VelocityInOrder | motions and stops against failures, reconnects, pings, shutdown |
| dog_goals | DogForwarder | AnsweredOnce, GoalsAnswered, CloseReturns | result, timeout, lost connection and shutdown race for a goal; the network may stall for ever |
| dog_goal_frames | DogForwarder | GoalFramesKept (violated) | finding 1 |
| signaling_rooms | MCSignalingServer | RoomsSound, MembersInformed, GhostsUnanswered | three sessions, two rooms, both room types, forced opens, requests for closed sessions; heartbeats against expiry, queued timeouts and posted erasures |
| signaling_silent | SignalingServer | SilentFreeRooms | a vanished client frees its rooms |
| signaling_creator | SignalingServer | CreatorPresent (violated) | finding 2 |
| session_client | SessionClient | OneOutageReport, JoinedTruthful, Relogin, Rejoin | outages, mute connections, late answers, failed requests and rooms that come and go, for each room action |
| media | MCMedia | CameraFrames, CallbackLease, SubscriptionsDeliverLatest, PlanCatchesUp, MediaStops, GraceKept, HardwareFreed, RatesReachHardware | the edge's media threads: safety, the refinement of LatestFrames, and that they get on and stop |
| components | MCComponents | BuffersAccounted, PacketMatchesFrame, FramesUnbroken, AudioThreadsApart, IdentitiesUnique, PeersConsistent, DelaysAreMeans, DrivesWhatIsSeen, OldSessionForgotten, SwitchesDecodable | safety of the encoders, audio, vision, peer connections, delays and the console |
| console_reconnect | ConsoleTakeover | BackInItsPosition (violated) | finding 3 |

Each property of a passing run has a mutant of a modelled definition, kept next
to that definition and marked "Mutant", under which TLC finds the property
violated. A property that is a conjunction (RoomsSound, AcksSound, CameraFrames,
MediaStops, AudioThreadsApart, PeersConsistent) names its parts; they are stated
one by one in the modules.

### Bounds

* `WatchdogMs` 2, `MaxElapsed` 2: a Tick can come before, exactly at and after the
  limit, and a command can be renewed in between.
* `MaxPendingEvents` 2: the queue overflows, also with one more event from another
  session. `MaxOverlap` 0 or 1: events that arrive while a batch is worked off.
  control_dog uses 1; the run with two sessions uses 0 (an event of that kind
  waits for the next Tick); the proofs cover every value, and both values of the
  two recovery switches, which the runs set to TRUE.
* `MCScenes`: with two sessions (control_drive) drive frames meet malformed
  messages and gear changes in one scene each, drive frames of one number meet
  lateral motion in a third, and goals have a scene of their own. With one session (control_dog) driving, lateral motion and goals are
  together in one scene, driving, gears and malformed messages in the other.
* `MaxDogActions` 3: two goals with the same request number of two sessions
  and one more.
* sequence numbers {1, 2}: new, repeated, older. The code's own wrap-around
  handling does not exist (a session that reaches 2^32 - 1 stops accepting).
* `MaxCommands`, `MaxGoals`, `MaxGenerations`, `MaxPings`: motion, stop, motion
  across reconnects, with a pong between; two goals.
* signaling: three sessions (the broadcaster, one member, one bystander or late
  arrival), two rooms (moving from one to the other, forced reopening); one room
  and two sessions for liveness.
* session_client: two faults, so that an outage can meet another one or a lost
  answer; the room opened and closed once by the other party; two completions
  waiting at once.
* camera: four buffers, four frames (a queue of one or two, one frame in the
  converter, one in the worker's hand), one switch of the view; one surround
  camera beside the stereo one, two selections; encoder: two hardware sessions
  at a time, two sizes, streams with and without a standby session, and three
  calls: two frames in one life, so that two sessions' threads meet at the
  callback, or a second life beside one frame; rates: two ranks, a cap, two refusals.
* components: two input buffers and three sizes; a pipeline that can hold three
  more frames than the list of two descriptions, six frames and one fault, so that
  the list overflows, a sample is lost and another pipeline follows; two links, two
  devices in two positions. Delays: two vehicles with one source, two connections
  (of the two, or one after the other, dropped or replaced), two counted frames,
  three answers to the timer: a first report, one with new frames and one without, or
  of the other connection. One part of a delay, since the windows of the two parts never meet;
  the theorem has both. Views: two connections, two frames and one reset, which meets
  a frame and an inference of before, messages that wait, and what comes after.

Symmetry is declared for the sessions of `MCVehicleControl` and the rooms of
`MCSignalingServer`, in safety runs without liveness properties only. Deadlock is
checked in the control runs. In the others the system rightly stops: a closed
forwarder, a server whose sessions are used up and gone, a program that has shut
down, a component whose bound of frames or faults is used up.

### Fairness

* `VehicleControl`: weak fairness of Tick. The edge's main loop calls it for
  ever. Nothing is assumed of peers, of the interface or of the network.
* `DogForwarder`: weak fairness of the io thread (it runs what is ready), of the
  join in Close, and of the timers. Nothing is assumed of reads, writes and
  handshakes: they may never complete.
* `SignalingServer`: weak fairness of timer expiry and of queued timeout
  handlers. Nothing is assumed of clients.
* `SessionClient`: weak fairness of each thread and of timers that are not early.
  Faults of the network are bounded by `MaxFaults`; after the last one it answers
  within the timeouts, without which no retry could be promised to succeed.
* camera and edge: weak fairness of the capture thread, the worker, the YOLO
  thread and the stopping caller (a poll ends with its timeout, an inference
  ends), of the main loop and of the seconds it waits for. The console is not
  assumed to select anything.
* encoder: weak fairness of the hardware sessions' threads, the standby worker,
  the grace period and an encoder queue that is inside a call; WebRTC is not
  assumed to call. Rates: frames keep coming, which is when the code asks again.

## 4. Proofs

A component's proofs are in a module of their own, or beside those of related
components: `VehicleControl_proofs`, `DogForwarder_proofs`, `SignalingServer_proofs`,
`Session_proofs` (SessionClient), `Agent_proofs` (AudioDevices, Statistics,
PeerConnections), `Camera_proofs` (Vision, CameraPipeline, EdgeCameras),
`Encoders_proofs` (RaspEncoder, JetsonSession, JetsonLifecycle, EncoderRates) and
`Console_proofs` (ConsoleViews,
ConsoleTakeover). All constants are arbitrary within the assumptions of the module
that declares them. A theorem follows from an inductive invariant: what it adds to
the property, and why, is said here. The runs check the property itself on small
instances.

`VehicleControl_proofs`:

* `TypeCorrect`: `TypeOK` needs `IdsBelowNext` (completion ids in use are below
  the next one) to be inductive.
* `MotionIsGuarded`, `MotionIsFresh`: `MotionGuarded` is not inductive alone. The
  invariant is `LatchConsistent` (what a latch, a closed gate and `stopSent` say
  of each other), `MotionGuarded`, `AgesAgree` (the module's ages are the ages
  of the vehicle's motion), `DriveWatchdogPolled` (past that point of a Tick an
  expired command has been stopped) and `WatchdogBound`.
* `HardLatchHolds`: an action property from the same invariant.
* `DrivesIncrease`: `NoReplay` with `DrivesSeen`, which ties the numbers forwarded
  to the gate's last sequence.
* `AcksAreSound`: `GoalsKnown` follows a goal through its three places, the
  interface, the queue and the batch: a completion id that is still remembered is
  remembered for the goal it was given to. It survives the emptied queue and the
  session's end because both only forget ids, and ids are never reused.
* `PeerIsInformed`: the invariant `StateKnown` is stronger than the property, which
  speaks of the time between Ticks: at every step the state is marked for
  sending or is what was last sent.

`DogForwarder_proofs`. The methods are operators on `io` that call each other, so
there is a lemma for each method (what it does to the queue, the goals and the
connection), and a handler's proof cites those of the methods it calls:

* `ForwarderTypes`, `ConnectionsBeginStanding`: the invariant `Base` says how
  operations, generation, socket and connection fit together: no operation is
  outstanding twice, what is outstanding or has just completed belongs to the open
  socket or is ignored, before the connection counts nothing is queued and one
  step of the handshake is under way, once it counts the robot has had its zero.
* `StopsHold`, `CleanShutdownStands`: `Ends` looks at the last velocity on the way,
  among the ready handlers, in the queue or in the active frame: after a stop it
  is a stop, or the robot stands already; once the shutdown has begun the last
  one is its zero.
* `VelocitiesArriveInOrder`: an action property from `Order`: what the robot had
  last, what is queued on the connection and what waits among the handlers are
  in the order of the commands, in this order.
* `GoalsAnsweredOnce`: `Goals`: an accepted goal is in one place at most (remembered,
  or its handler ready) and unanswered while it is there.
* `GoalsAreAccounted`: the other side of it, an action property from `Goals` and
  `Awake`: `Settled` says of every method, and so of every handler, that the goals
  it forgets are the goals it reports.
* `ForwarderStaysAwake`: the invariant `Awake` is the three things promised (a goal
  that waits has its timer, an open forwarder reads or is about to dial, a Close that
  joins has a bounded shutdown before it) and `Phases`, which ties the main thread's
  place to running, stopping, finished and the shutdown timer. "Has its timer" means
  armed or its handler ready: a timer that has expired becomes a handler that
  cancelling no longer reaches.

`SignalingServer_proofs` (any number of sessions and rooms, both values of
`LateRequests`):

* `LeaveOutcome`, `OpenOutcome`, `JoinOutcome`, `CloseOutcome` say what the four
  operations make of members and rooms; `RoomStep` says nothing else changes
  rooms.
* `MembershipUnique` and `RoomsAreInhabited` follow from these and the types.
* `SessionsHaveDeadlines` and `GhostsAreUnanswered`: the invariant `Deadlines` adds
  that a timer entry about to be erased belongs to a closed session, and that
  only issued numbers are in use.
* `MembersAreInformed` and `RoomsAreKnown`: the invariant `Informed` adds `Fresh`
  (unissued numbers are in no room, closed sessions have no history) and uses
  the unique membership.
* `RoomsAreSound` joins four of these into the property the run checks.
* `MembersAreConnected`: under `~LateRequests`.

`Session_proofs`:

* `OutagesReportedOnce`: `Reports`: every report waiting comes when none is due, and
  at the end of the queue none is due while the websocket thread has not notified
  the outage. The queue is what makes it an invariant: the flag belongs to one
  thread and the count to another.
* `JoinedIsTrue`: `Truth` adds `Following` (logins of earlier connections come before
  the opening of the present one, in the completions and in what RtcSession
  hears) and `Heard` (once RtcSession has heard of the connection, what it asks is
  asked with this connection's session). It needs that a request keeps the
  session it was made with.
* `ClientStaysAwake`: `Watched`, what will wake the websocket thread, is inductive with
  the types: whoever consumes a timer or the outcome of a dial arms the next one.
* `LoginsAreHeard`: `Logins`: a login comes after the opening of its connection; the
  session's number is stored after that opening was run and forgotten before another
  dial; and while the client has it, the login is the last thing RtcSession is to
  hear, or has been heard (`LoginTold`).

`Agent_proofs`:

* `AudioThreadsStayApart`: `Playing` orders `running_` against the mutex in Start, Stop
  and Push; `Joining` says whose playout thread is joined by whom.
* `CapturedSoundIsUnbroken`: `Taking` and `Given`: stream, backlog and the frame being
  filled are runs of consecutive blocks, the last of them the latest recorded.
* `DelaysAreOfTheirStream`: `WindowsRight` (a window holds the counts of a report of its
  own stream, the last one unless the vehicle's connection was replaced) needs
  `Listing` (a vehicle never given a connection over another has no other one open,
  and its streams are registered for that one); `DelayRight` says of a delay on its way
  what the property says of one in the table, and a history that only grows keeps it.
* `PeersStayConsistent`: `Waiting` (a task waiting names the remote of its
  connection, which was negotiated), `ToldOpen` (a channel the application was told
  is open is open, or its end is still to be told) and `Negotiated`.

`Camera_proofs`:

* `IdentitiesAreUnique`: the invariant numbers the tracks: identities issued, one
  to a track, of singles and pairs together. The pass over the boxes keeps that
  boxes put out belong to tracks that have their box of this frame (`Work`); the
  walk over the others adds boxes of tracks it has reached (`WalkAt`); pruning only
  removes. The loops are recursive functions, and that a recursive function is
  what its equation says is proved here too: `Reaches` is induction on the natural
  numbers from the well-foundedness of `<`, `LoopRuns` gives the function, and
  `AlongLoop` what its turns preserve.
* `SubscriptionsImplementLatest`: every step of capture, worker, YOLO thread and
  caller is a step of LatestFrames or a stutter for either subscription. `Row` is
  the mapping's core: a queue holds the newest frames published, in a row. The
  invariant also ties Push's snapshot of the subscriptions to the list it was
  taken from.
* `FramesAccountedFor`, `CameraFramesKept`: `Kept` says which buffers each holder can
  have at each of its steps. That capture is never starved by a view that is off
  needs `EnoughBuffers`: more than three where there is a YOLO thread or a stereo
  queue, more than two otherwise. The default `buffer_count` is four
  (`edge_options.h:19`); see the limits in section 5.
* `SessionOutlivesCameras`, `NoCameraDiesUnseen`, `ViewsNeverMix`: one invariant of the
  edge, `EdgeInv`. Only Start makes workers and only their joins let go of the session
  (`SessionFirst`); a worker ends after a stop, which in the main loop is another
  worker's error (`StopsHaveReasons`, `CamerasAlive`); a send plan, a stale one as
  well, was made of one view (`PlansOfViews`), and the grid holds frames of the view
  selected (`GridOfView`).

`Encoders_proofs`:

* `PacketsKeepTheirFrames`: `Paired`: the packets pulled and the frames in the pipeline,
  oldest first, are the pending frames, one for one, until the pipeline loses a sample
  or a description; whatever it lost, all of these are frames of this pipeline
  (`RaspTypes`, `Fresh`), because a new one empties the lists. Nothing is assumed of
  the pipeline's size.
* `BuffersKept`: `Account` knows what the capture thread owes while it matches an
  image with its task, and when the session begins with all buffers.
* `SwitchesKeepDecoding`: from before a new size is set until its first image is
  accepted the session awaits it (`AwaitsFirst`), and tasks are of the present size
  (`SizesOfTasks`), because a switch waits until there is none.
* `OneInTheCallback`: `Lease`: the threads inside are those `callback_inflight_` counts,
  and they have the callback registered now or Release waits for them.
* `HardwareOutlivesGrace`: `Graced`: the order of a release carries its number, none
  exceeds the present one, and what the worker took it took after the grace
  period unless a later Release has moved the number on.
* `SessionsHaveOneOwner`: `OwnedInv`: the four places a session can be in (`Owners`: in
  use, standing by, retired, in the worker's hands) partition the sessions that
  run, at each step of the application's calls and of the worker.
* `RatesStayLimited`, `FramesRepairRates`: `JetRatesInv`: every rate kept anywhere is
  within the limit, and the session in use is one that was made. `PipelineAtRate`:
  `RaspRatesInv`: a pipeline is built with, or told, what was last asked for.

`Console_proofs`:

* `ForgottenStaysForgotten`: `Connected` follows a connection (a frame being received
  is of one that is up, since closing waits for the decoder thread; before its Closed
  report has run its messages have) and `Cleared` the local detector (what waits, a
  result that will be taken and an overlay are of the present generation until a reset
  begins, and older overlays only in the middle of one).
* `CommandsGoWhereSeen`: `Links` (a device is known over the link it has), `Taken`
  (a takeover is of the viewed device and its link, or nothing can be commanded)
  and `Keyed` (movement is asked for by keys of the same frame only).

Only model-checked: the liveness properties (fairness and ENABLED are out of the
proof system's reach). What each of them needs at every step is safety, and is proved
where there is such a thing to say:

| liveness, checked | its safety side, proved |
|---|---|
| SilenceStops | MotionIsFresh |
| GoalsAnswered, CloseReturns | ForwarderStaysAwake, GoalsAreAccounted, GoalsAnsweredOnce |
| SilentFreeRooms | SessionsHaveDeadlines |
| Relogin | ClientStaysAwake, LoginsAreHeard |
| MediaStops | SessionOutlivesCameras, NoCameraDiesUnseen |
| HardwareFreed | SessionsHaveOneOwner, HardwareOutlivesGrace |
| RatesReachHardware | FramesRepairRates, PipelineAtRate |
| PlanCatchesUp | ViewsNeverMix; that a stale plan is replaced rests on the main loop's refresh alone |
| Rejoin | none: it rests on the periodic Tick alone |

The theorems without a run's property (their names stand in no cfg) were checked by
TLC on the bounds of the runs before they were proved.

## 5. Findings

1. `dog_goal_frames`: a queued behaviour goal is replaced by the next motion (and
   cleared by a stop) while an earlier frame is being written, against the
   comment in `dog_command_forwarder.cpp:971` that goals must never be merged
   with velocity frames.
2. `signaling_creator`: the creator of a conference room leaves or disconnects and
   the room stays, against `docs/signaling_protocol.md:120`.
3. `console_reconnect`: a transient ICE disconnection erases the device's identity
   and its open channel on the console (`main.cpp:4268`); the connection comes
   back with its channels, nothing sends the identity again, and the device is
   not back in its position, against `client/README.md:54`.

Known limits, seen while modelling. The properties are stated so that they do not
promise these. The models have them, unless it says that they are not modelled:

* an HTTP open request handled after its session was closed leaves a room whose
  creator is gone (`http_controller.cpp:143`), against
  `docs/signaling_protocol.md:244`; `LateRequests` is TRUE in signaling_rooms, and
  `MembersAreConnected` needs it FALSE;
* a room request that returns after a reset of `room_joined_` stores TRUE over it
  (`rtc_session.cpp:380`); the session then stays out of its room until the next
  event. The console's `auto_room_opened_` has the same pattern
  (`main.cpp:837`, not modelled);
* a report of a replaced peer connection acts on its successor
  (`rtc_connection_manager.cpp:1788`), and only the newest connection's senders
  are limited (`:1536`);
* the configuration accepts a `buffer_count` of two (`edge_options.cpp:332`, `:371`).
  With three or fewer and a YOLO thread or a stereo queue, with two otherwise,
  a view that is off keeps all buffers and the capture thread gets none until it is
  selected again: `CaptureNotStarved` fails there, and holds above (`EnoughBuffers`);
* a sample of the Raspberry Pi encoder without a usable buffer
  (`rasp_h264_encoder_impl.cpp:692`), and a list of pending frames at its limit
  (`:445`), give every later packet of that pipeline another frame's timestamp;
* `RtcCloseRoom` asks the server and destroys no peer connection
  (`rtc_connection_manager.cpp:785`). `docs/yolo.md:54` says that closing a room drops
  the frames that wait and the results of the old session. The frames waiting and the
  inference running at `Clear` are dropped, but the old peer's frames, detections and
  vehicle states go on arriving and are shown, until the connection ends. The console
  has by then forgotten the device's identity and its targets, which are only told
  when a channel opens, so it cannot be taken over. `OldSessionForgotten` promises
  only what is older than the reset;
* with the edge detecting, a detection that waits on the logic thread while a room is
  left is stored after the reset, and nothing erases it but another reset or a later
  detection of the stream; it is drawn for two seconds at most (`main.cpp:3476`).
  What the local detector found in a session's frames also stays when its peer is gone;
* receiving delays: after a connection over a listed one, a mean may span more than
  one interval, because reports of the other connection go unheard. Not modelled: the
  counters of bytes, frames and losses are kept by source alone
  (`rtc_statistics.cpp:778`), so the rates of two vehicles with the same source mix,
  against `client/README.md:120`; rows of peers that are gone stay in the console's
  table until its next reset;
* a frame encoded before Release can go to the callback registered after it when
  its thread enters late (`jetsonh264_encoder_impl.cpp:290`);
* two goals of the dog in the same second could draw the same random suffix
  (`dog_command_forwarder.cpp:1362`); a velocity is tested against `connected`
  before it is posted (`:918`), one step in the model; a new session is told the
  last drive number of the previous one (`vehicle_control_module.cpp:573`);
* view thresholds of the console are never cleared (`main.cpp:2360`), while a reset
  starts the frame counter anew. Not modelled: the keyframe request of the Raspberry
  Pi encoder does nothing (`rasp_h264_encoder_impl.cpp:852`).

## 6. Plan

Modelled so far: the control chain on the vehicle, the signaling server, the
client's session and peer connections, the edge's cameras and encoders, audio,
vision, receiving delays and the console's takeover and views. Next:

1. Proofs: type invariants of the components whose proofs keep theirs inside the
   inductive invariant, as theorems of their own.
2. `SessionClient` composed with `SignalingServer` for two clients, one of them
   evicted by a forced open.
3. `VehicleControl` over an abstract forwarder that `DogForwarder` implements.

## 7. Not modelled

Media, SDP contents, candidates and congestion control (libwebrtc); publishing
to and playing from SRS; decoders, the desktop NVIDIA encoder and the vendor
classes of the Jetson multimedia API; inference, colour conversion and box
geometry (numeric); drawing, layout and the log panel of the console; nanopb
encoding (generated code; its outcome is a message kind here); the packetizer and
depacketizer (switched off: `bPacked_` is false, `rtc_connection.h:79`, and nothing sets
it); what is sent in the statistics, and their counters; configuration and logging
(formatting); the C and C++ API (wrappers around the
connection manager). Code without a caller in the program: the gamepad input
(`UpdateVehicleInputFromGamepad`, `GamepadDogActionState`), the acknowledgement
tracker of the console, the one-shot `ConvertToI420`, `SendEOS`.
