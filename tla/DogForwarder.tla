---------------------------- MODULE DogForwarder ----------------------------
(***************************************************************************)
(* The robot-dog command forwarder (class DogCommandForwarder): the main   *)
(* thread hands velocity commands and behaviour goals to an io thread,     *)
(* which keeps a WebSocket to the robot's rosbridge, writes one frame at a *)
(* time, reconnects after every failure and reports the outcome of goals.  *)
(*                                                                         *)
(* The io thread runs handlers to completion, in the order in which they   *)
(* became ready: `ready' holds what the main thread posted and what the    *)
(* kernel and the timers completed.  Its data is the record `io', and each *)
(* method of Impl an operator from io to io, so that methods that call     *)
(* each other compose; one action runs one handler.                        *)
(*                                                                         *)
(* CloseSocket and timer cancellation make pending handlers ready with an  *)
(* error.  All of those return at once (every caller has moved on to a new *)
(* generation), so the model drops the operation instead.  A handler that  *)
(* is already ready cannot be cancelled and stays.                         *)
(***************************************************************************)
EXTENDS Naturals, Sequences, FiniteSets

CONSTANTS
    MaxCommands,       \* bound: velocity commands
    MaxGoals,          \* bound: behaviour goals
    MaxGenerations,    \* bound: no reconnect at this generation
    MaxPings           \* bound: pings of the server

ASSUME ForwarderAssumption ==
    /\ MaxCommands \in Nat /\ MaxGoals \in Nat
    /\ MaxGenerations \in Nat /\ MaxPings \in Nat

VARIABLES
    main,         \* where the main thread stands
    running,      \* written by the main thread, read by both
    io,           \* the io thread's data
    ready,        \* handlers the io thread will run, oldest first
    lastSent,     \* last_vx, last_vy, last_wz: was the last velocity a motion
    commands,     \* history: velocity commands so far
    lastCommand,  \* history: the last velocity the caller may rely on
    goals,        \* history: goals accepted so far
    pings,        \* external: pings received so far
    robot         \* external: the robot at the other end

vars == <<main, running, io, ready, lastSent, commands, lastCommand, goals, pings, robot>>

\* Frames.  n is the number of the command or goal the frame carries.
FrameKinds == {"move", "stop", "zero", "subscribe", "bootUp", "goal", "pong"}
Frame == [kind : FrameKinds, n : Nat]
FrameOf(kind) == [kind |-> kind, n |-> 0]
NoFrame == [kind |-> "none", n |-> 0]

Ops == {"handshake", "stopWrite", "write", "read"}
Timers == [timer : {"operation", "reconnect", "shutdown", "goal"}, n : Nat]
Operation(gen) == [timer |-> "operation", n |-> gen]
Reconnect == [timer |-> "reconnect", n |-> 0]
ShutdownTimer == [timer |-> "shutdown", n |-> 0]
GoalTimer(id) == [timer |-> "goal", n |-> id]

\* pending and active are pending_writes and active_write, goals is
\* pending_behavior_goals (goal id to request id), initial what
\* NotifyInitialConnection told Start; answers counts completions per request
\* and exit remembers what led to FinishShutdown.
IoInit == [gen |-> 0, connected |-> FALSE, stopping |-> FALSE, finished |-> FALSE,
           open |-> FALSE, pending |-> <<>>, active |-> NoFrame,
           ops |-> {}, timers |-> {}, goals |-> <<>>, initial |-> "none",
           answers |-> [r \in 1..MaxGoals |-> 0], exit |-> "none"]

Init ==
    /\ main = "closed" /\ running = FALSE
    /\ io = IoInit /\ ready = <<>>
    /\ lastSent = "none" /\ commands = 0 /\ lastCommand = "stop"
    /\ goals = 0 /\ pings = 0
    /\ robot = [motion |-> "stopped", n |-> 0, first |-> "none", todo |-> {}]

-----------------------------------------------------------------------------
(* The methods of the io thread. *)

Answer(x, requests) ==
    [x EXCEPT !.answers = [r \in DOMAIN @ |-> IF r \in requests THEN @[r] + 1 ELSE @[r]]]

WithoutGoalTimers(timers) == {t \in timers : t.timer # "goal"}

\* Mutant: the goals stay in the map.
FailGoalsButKeepThem(x) == Answer(x, {x.goals[id] : id \in DOMAIN x.goals})

FailPendingBehaviorGoals(x) ==
    [Answer(x, {x.goals[id] : id \in DOMAIN x.goals})
        EXCEPT !.goals = <<>>, !.timers = WithoutGoalTimers(@)]

CompleteBehaviorGoal(x, id) ==
    IF id \notin DOMAIN x.goals THEN x
    ELSE [Answer(x, {x.goals[id]})
            EXCEPT !.goals = [i \in DOMAIN @ \ {id} |-> @[i]],
                   !.timers = @ \ {GoalTimer(id)}]

\* The socket and everything that waited for it.
DropConnection(x) ==
    [x EXCEPT !.connected = FALSE, !.open = FALSE, !.ops = {},
              !.pending = <<>>, !.active = NoFrame]

FinishShutdown(x, why) ==
    IF x.finished THEN x
    ELSE [FailPendingBehaviorGoals(DropConnection(x))
            EXCEPT !.finished = TRUE, !.gen = @ + 1, !.timers = @ \ {ShutdownTimer},
                   !.exit = why]

NotifyInitialConnection(x, result) ==
    IF x.initial = "none" THEN [x EXCEPT !.initial = result] ELSE x

\* ScheduleReconnect included.
HandleConnectionFailure(x) ==
    LET lost == NotifyInitialConnection(FailPendingBehaviorGoals(DropConnection(x)), "failed")
        next == [lost EXCEPT !.gen = @ + 1, !.timers = {t \in @ : t.timer # "operation"}]
    IN  IF ~running \/ x.stopping
        THEN FinishShutdown(next, "failure")
        ELSE [next EXCEPT !.timers = @ \cup {Reconnect}]

StartWrite(x) ==
    IF x.active # NoFrame \/ x.pending = <<>> \/ ~x.open THEN x
    ELSE [x EXCEPT !.active = Head(x.pending), !.pending = Tail(x.pending),
                   !.ops = @ \cup {"write"}]

\* Mutant: a stop overtakes the queue instead of replacing it.
QueueStopInFront(x, frame, mode) ==
    IF ~x.open THEN x
    ELSE StartWrite([x EXCEPT !.pending =
        CASE mode \in {"discardPending", "highPriority"} -> <<frame>> \o @
          [] mode = "replaceLatest" /\ @ # <<>>  -> [@ EXCEPT ![Len(@)] = frame]
          [] OTHER -> Append(@, frame)])

\* Mutant: the queue is cleared after the stop is put there, not before.
QueueThenDiscard(x, frame, mode) ==
    IF ~x.open THEN x
    ELSE StartWrite([x EXCEPT !.pending =
        CASE mode = "discardPending" -> <<>>
          [] mode = "highPriority"   -> <<frame>> \o @
          [] mode = "replaceLatest" /\ @ # <<>> -> [@ EXCEPT ![Len(@)] = frame]
          [] OTHER -> Append(@, frame)])

QueueFrameOnIo(x, frame, mode) ==
    IF ~x.open THEN x
    ELSE StartWrite([x EXCEPT !.pending =
        CASE mode = "discardPending" -> <<frame>>
          [] mode = "highPriority"   -> <<frame>> \o @
          [] mode = "replaceLatest" /\ @ # <<>> -> [@ EXCEPT ![Len(@)] = frame]
          [] OTHER -> Append(@, frame)])

DoConnect(x) ==
    IF ~running \/ x.stopping THEN x
    ELSE [DropConnection(x)
            EXCEPT !.gen = @ + 1, !.open = TRUE, !.ops = {"handshake"},
                   !.timers = {t \in @ : t.timer \notin {"operation", "reconnect"}}
                                  \cup {Operation(x.gen + 1)}]

\* The end of SendConnectionStop: the connection counts once its zero velocity is
\* written; the result subscription and the boot-up goal follow it.
Connected(x) ==
    LET up == [x EXCEPT !.connected = TRUE, !.timers = {t \in @ : t.timer # "operation"}]
        subscribed == QueueFrameOnIo(up, FrameOf("subscribe"), "append")
        booted == QueueFrameOnIo(subscribed, FrameOf("bootUp"), "append")
    IN  [NotifyInitialConnection(booted, "connected") EXCEPT !.ops = @ \cup {"read"}]

\* Mutant: no timer bounds the shutdown.
BeginShutdownUntimed(x) ==
    IF x.finished THEN x
    ELSE LET halting == [x EXCEPT !.stopping = TRUE,
                                  !.timers = {t \in @ : t.timer \notin {"operation", "reconnect"}}]
         IN  IF ~x.connected THEN FinishShutdown(halting, "notConnected")
             ELSE StartWrite([halting EXCEPT !.pending = <<FrameOf("zero")>>])

BeginShutdown(x) ==
    IF x.finished THEN x
    ELSE LET halting == [x EXCEPT !.stopping = TRUE,
                                  !.timers = {t \in @ : t.timer \notin {"operation", "reconnect"}}]
         IN  IF ~x.connected THEN FinishShutdown(halting, "notConnected")
             ELSE StartWrite([halting EXCEPT !.pending = <<FrameOf("zero")>>,
                                             !.timers = @ \cup {ShutdownTimer}])

-----------------------------------------------------------------------------
(* The handlers.  Run(h) takes the oldest one. *)

Run(h) == /\ ~io.finished /\ ready # <<>>
          /\ Head(ready).run = h
          /\ ready' = Tail(ready)
          /\ UNCHANGED <<main, running, lastSent, commands, lastCommand, goals, pings, robot>>

\* A completed operation of the current generation; all others are ignored.
RunOp(op) == Run("op") /\ Head(ready).op = op /\ Head(ready).gen = io.gen
Failed == Head(ready).got = "error"

RunStaleOp ==
    /\ Run("op") /\ Head(ready).gen # io.gen
    /\ UNCHANGED io

RunDoConnect == Run("doConnect") /\ io' = DoConnect(io)

\* Mutant: connected as soon as the handshake is done.
RunHandshakeConnecting ==
    /\ RunOp("handshake")
    /\ io' = IF Failed THEN HandleConnectionFailure(io) ELSE Connected(io)

\* The completions of async_connect and of the two handshake steps have the same
\* shape; one stands for all three.
RunHandshake ==
    /\ RunOp("handshake")
    /\ io' = IF Failed THEN HandleConnectionFailure(io)
             ELSE [io EXCEPT !.ops = @ \cup {"stopWrite"}]

RunConnectionStopWritten ==
    /\ RunOp("stopWrite")
    /\ io' = IF Failed THEN HandleConnectionFailure(io) ELSE Connected(io)

\* Mutant: a shutdown does not wait for the rest of the queue.
RunWrittenHasty ==
    /\ RunOp("write")
    /\ io' = IF Failed THEN HandleConnectionFailure(io)
             ELSE LET idle == [io EXCEPT !.active = NoFrame]
                  IN  IF io.stopping THEN FinishShutdown(idle, "written")
                      ELSE StartWrite(idle)

RunWritten ==
    /\ RunOp("write")
    /\ io' = IF Failed THEN HandleConnectionFailure(io)
             ELSE LET idle == [io EXCEPT !.active = NoFrame]
                  IN  IF idle.pending # <<>> THEN StartWrite(idle)
                      ELSE IF io.stopping THEN FinishShutdown(idle, "written")
                      ELSE idle

\* BeginReadFrame goes on reading unless the forwarder stops.
ReadOn(x) == IF x.connected /\ ~x.stopping THEN [x EXCEPT !.ops = @ \cup {"read"}] ELSE x

\* A whole frame of the server: a ping, a goal's result, or (as an error) a
\* close frame, a masked or oversized one, a broken connection.
RunRead ==
    /\ RunOp("read")
    /\ io' = CASE Failed -> HandleConnectionFailure(io)
               [] Head(ready).got = "ping" ->
                    ReadOn(QueueFrameOnIo(io, FrameOf("pong"), "highPriority"))
               [] Head(ready).got = "result" ->
                    ReadOn(CompleteBehaviorGoal(io, Head(ready).id))

\* The task EnqueueVelocityFrame posts.
RunVelocity ==
    /\ Run("velocity")
    /\ LET frame == Head(ready).frame
       IN  io' = IF ~running \/ ~io.connected \/ io.stopping THEN io
                 ELSE QueueFrameOnIo(io, frame, IF frame.kind = "stop" THEN "discardPending"
                                                                       ELSE "replaceLatest")

\* Mutant: no timer bounds the wait for the goal's result.
RunGoalUntimed ==
    /\ Run("goal")
    /\ LET id == Head(ready).id  req == Head(ready).req
       IN  io' = IF ~running \/ ~io.connected \/ io.stopping \/ ~io.open
                 THEN Answer(io, {req})
                 ELSE QueueFrameOnIo(
                        [io EXCEPT !.goals = [i \in DOMAIN @ \cup {id} |->
                                                IF i = id THEN req ELSE @[i]]],
                        [kind |-> "goal", n |-> id], "append")

\* The task EnqueueBehaviorFrame posts.
RunGoal ==
    /\ Run("goal")
    /\ LET id == Head(ready).id  req == Head(ready).req
       IN  io' = IF ~running \/ ~io.connected \/ io.stopping \/ ~io.open
                 THEN Answer(io, {req})
                 ELSE QueueFrameOnIo(
                        [io EXCEPT !.goals = [i \in DOMAIN @ \cup {id} |->
                                                IF i = id THEN req ELSE @[i]],
                                   !.timers = @ \cup {GoalTimer(id)}],
                        [kind |-> "goal", n |-> id], "append")

RunBeginShutdown == Run("beginShutdown") /\ io' = BeginShutdown(io)

RunTimer ==
    /\ Run("timer")
    /\ LET t == Head(ready).timer
       IN  io' = CASE t.timer = "operation" -> IF t.n = io.gen THEN HandleConnectionFailure(io)
                                                               ELSE io
                   [] t.timer = "reconnect" -> DoConnect(io)
                   [] t.timer = "shutdown"  -> FinishShutdown(io, "timeout")
                   [] t.timer = "goal"      -> CompleteBehaviorGoal(io, t.n)

RunHandler ==
    \/ RunStaleOp \/ RunDoConnect \/ RunHandshake \/ RunConnectionStopWritten
    \/ RunWritten \/ RunRead \/ RunVelocity \/ RunGoal \/ RunBeginShutdown \/ RunTimer

-----------------------------------------------------------------------------
(* The main thread.  Reading running and connected and posting the task is one
   step: a failure in between is met by the task's own test, and a thread that
   sleeps there for a whole reconnect interval is not modelled. *)

Post(task) == ready' = Append(ready, task)

\* Start, up to its wait for the first connection.  A new io_context is empty.
Start ==
    /\ main = "closed" /\ main' = "opening"
    /\ io.gen < MaxGenerations
    /\ running' = TRUE
    /\ io' = [io EXCEPT !.initial = "none", !.stopping = FALSE, !.finished = FALSE,
                        !.exit = "none"]
    /\ ready' = <<[run |-> "doConnect"]>>
    /\ UNCHANGED <<lastSent, commands, lastCommand, goals, pings, robot>>

StartSucceeds ==
    /\ main = "opening" /\ io.initial = "connected" /\ main' = "open"
    /\ UNCHANGED <<running, io, ready, lastSent, commands, lastCommand, goals, pings, robot>>

\* Stop, up to its join: from Close, or from a Start whose first connection
\* failed or whose wait timed out.
Stop ==
    /\ \/ main = "open"
       \/ main = "opening" /\ io.initial # "connected"
    /\ main' = "closing" /\ running' = FALSE
    /\ Post([run |-> "beginShutdown"])
    /\ UNCHANGED <<io, lastSent, commands, lastCommand, goals, pings, robot>>

\* The io thread has ended; tasks that it never ran are lost.
StopJoins ==
    /\ main = "closing" /\ io.finished /\ main' = "closed"
    /\ io' = [DropConnection(io) EXCEPT !.timers = {}]
    /\ ready' = <<>>
    /\ UNCHANGED <<running, lastSent, commands, lastCommand, goals, pings, robot>>

\* ForwardVelocity for a motion.  Without a connection the caller is told; a
\* repeated motion within kMinSendInterval is taken and not sent.
ForwardMove(repeated) ==
    /\ main = "open" /\ commands < MaxCommands
    /\ running /\ io.connected
    /\ repeated => lastSent = "move"
    /\ commands' = commands + 1 /\ lastCommand' = "move"
    /\ IF repeated THEN UNCHANGED <<ready, lastSent>>
       ELSE /\ Post([run |-> "velocity", frame |-> [kind |-> "move", n |-> commands']])
            /\ lastSent' = "move"
    /\ UNCHANGED <<main, running, io, goals, pings, robot>>

\* SendStop and the zero velocities of SendDriveCommand and SendDogAction.  The
\* caller of SendStop is not told that there is no connection.
ForwardStop ==
    /\ main = "open" /\ commands < MaxCommands
    /\ commands' = commands + 1 /\ lastCommand' = "stop"
    /\ IF running /\ io.connected
       THEN /\ Post([run |-> "velocity", frame |-> [kind |-> "stop", n |-> commands']])
            /\ lastSent' = "stop"
       ELSE UNCHANGED <<ready, lastSent>>
    /\ UNCHANGED <<main, running, io, goals, pings, robot>>

\* ForwardDogBehaviorGoal.  The id is made of the time in seconds and a random
\* number; that no two goals share one is an assumption of the model, which
\* numbers them.
ForwardDogBehaviorGoal ==
    /\ main = "open" /\ goals < MaxGoals
    /\ running /\ io.connected
    /\ goals' = goals + 1
    /\ Post([run |-> "goal", id |-> goals', req |-> goals'])
    /\ UNCHANGED <<main, running, io, lastSent, commands, lastCommand, pings, robot>>

-----------------------------------------------------------------------------
(* The environment: the kernel and the robot complete operations, timers run
   off.  A write that fails may or may not have reached the robot. *)

Completes(op, got, id) ==
    /\ op \in io.ops
    /\ io' = [io EXCEPT !.ops = @ \ {op}]
    /\ Post([run |-> "op", op |-> op, gen |-> io.gen, got |-> got, id |-> id])
    /\ UNCHANGED <<main, running, lastSent, commands, lastCommand, goals>>

HandshakeCompletes(got) ==
    /\ Completes("handshake", got, 0)
    /\ robot' = [robot EXCEPT !.first = "none"]
    /\ UNCHANGED pings

\* What the robot makes of a frame.
Received(r, frame) ==
    [motion |-> CASE frame.kind = "move" -> "moving"
                  [] frame.kind \in {"stop", "zero"} -> "stopped"
                  [] OTHER -> r.motion,
     n |-> IF frame.kind \in {"move", "stop"} THEN frame.n ELSE r.n,
     first |-> IF r.first = "none" THEN frame.kind ELSE r.first,
     todo |-> IF frame.kind = "goal" THEN r.todo \cup {frame.n} ELSE r.todo]

WriteCompletes(op, got) ==
    /\ op \in {"stopWrite", "write"}
    /\ Completes(op, got, 0)
    /\ LET frame == IF op = "write" THEN io.active ELSE FrameOf("zero")
       IN  \/ robot' = Received(robot, frame)
           \/ got = "error" /\ UNCHANGED robot
    /\ UNCHANGED pings

ReadCompletes(got, id) ==
    /\ got = "ping" => pings < MaxPings
    /\ got = "result" => id \in robot.todo
    /\ Completes("read", got, id)
    /\ pings' = IF got = "ping" THEN pings + 1 ELSE pings
    /\ robot' = [robot EXCEPT !.todo = IF got = "result" THEN @ \ {id} ELSE @]

TimerExpires(t) ==
    /\ ~io.finished /\ t \in io.timers
    /\ t = Reconnect => io.gen < MaxGenerations
    /\ io' = [io EXCEPT !.timers = @ \ {t}]
    /\ Post([run |-> "timer", timer |-> t])
    /\ UNCHANGED <<main, running, lastSent, commands, lastCommand, goals, pings, robot>>

SomeTimerExpires(kind) == \E t \in io.timers : t.timer = kind /\ TimerExpires(t)

Environment ==
    \/ \E got \in {"ok", "error"} :
          HandshakeCompletes(got) \/ \E op \in Ops : WriteCompletes(op, got)
    \/ ReadCompletes("error", 0) \/ ReadCompletes("ping", 0)
    \/ \E id \in 1..MaxGoals : ReadCompletes("result", id)
    \/ \E kind \in {"operation", "reconnect", "shutdown", "goal"} : SomeTimerExpires(kind)

MainThread ==
    \/ Start \/ StartSucceeds \/ Stop \/ StopJoins
    \/ \E repeated \in BOOLEAN : ForwardMove(repeated)
    \/ ForwardStop
    \/ ForwardDogBehaviorGoal

Next == MainThread \/ RunHandler \/ Environment

Spec == Init /\ [][Next]_vars

\* The io thread runs what is ready, timers run off, and a join returns once the
\* thread has ended.  Nothing is assumed of the network or the robot.
FairSpec ==
    /\ Spec
    /\ WF_vars(RunHandler) /\ WF_vars(StopJoins)
    /\ \A kind \in {"operation", "reconnect", "shutdown", "goal"} :
          WF_vars(SomeTimerExpires(kind))

-----------------------------------------------------------------------------
(* Properties. *)

Handler ==
         [run : {"doConnect", "beginShutdown"}]
    \cup [run : {"velocity"}, frame : [kind : {"move", "stop"}, n : Nat]]
    \cup [run : {"goal"}, id : Nat, req : Nat]
    \cup [run : {"op"}, op : Ops, gen : Nat, got : {"ok", "error", "ping", "result"}, id : Nat]
    \cup [run : {"timer"}, timer : Timers]

TypeOK ==
    /\ main \in {"closed", "opening", "open", "closing"} /\ running \in BOOLEAN
    /\ ready \in Seq(Handler)
    /\ DOMAIN io = DOMAIN IoInit
    /\ io.gen \in Nat /\ io.connected \in BOOLEAN /\ io.open \in BOOLEAN
    /\ io.stopping \in BOOLEAN /\ io.finished \in BOOLEAN
    /\ io.pending \in Seq(Frame) /\ io.active \in Frame \cup {NoFrame}
    /\ io.connected \/ io.active # NoFrame => io.open
    /\ io.ops \subseteq Ops /\ io.timers \subseteq Timers
    /\ DOMAIN io.goals \subseteq Nat /\ \A id \in DOMAIN io.goals : io.goals[id] \in Nat
    /\ io.initial \in {"none", "failed", "connected"}
    /\ io.answers \in [1..MaxGoals -> Nat]
    /\ io.exit \in {"none", "written", "timeout", "failure", "notConnected"}
    /\ lastSent \in {"none", "move", "stop"} /\ lastCommand \in {"move", "stop"}
    /\ commands \in Nat /\ goals \in Nat /\ pings \in Nat
    /\ robot \in [motion : {"moving", "stopped"}, n : Nat,
                  first : {"none"} \cup FrameKinds, todo : SUBSET Nat]

\* The first frame the robot gets on any connection is the zero velocity, so it
\* never goes on with the motion it was left in.
FirstFrameIsZero == robot.first \in {"none", "zero"}

\* A commanded velocity on its way to the robot.
IsCommand(frame) == frame.kind \in {"move", "stop"}
VelocityUnderway ==
    \/ \E i \in DOMAIN ready : ready[i].run = "velocity"
    \/ \E i \in DOMAIN io.pending : IsCommand(io.pending[i])
    \/ IsCommand(io.active)

\* SendStop reports no failure and its caller never repeats it.  Still, when the
\* last command was a stop and no velocity is underway, a robot that is connected
\* stands, also when the stop was issued while the link was down.  (Once Close has
\* been called queued commands are dropped: CleanShutdownStops takes over.)
StopHolds == running /\ io.connected /\ lastCommand = "stop" /\ ~VelocityUnderway
                => robot.motion = "stopped"

\* Velocities reach the robot in the order of the commands, over all connections:
\* neither replacing, discarding nor reconnecting lets an older one follow.
VelocityInOrder == [][robot'.n >= robot.n]_vars

\* A shutdown that ends because everything is written leaves a robot that stands,
\* whatever was queued or being written when it began.
CleanShutdownStops == io.exit = "written" => robot.motion = "stopped"

\* No goal is reported twice, not by a result that races its timeout, a lost
\* connection or a shutdown.
AnsweredOnce == \A r \in DOMAIN io.answers : io.answers[r] <= 1

\* Accepted and not yet reported.
GoalUnderway(r) ==
    \/ \E i \in DOMAIN ready : ready[i].run = "goal" /\ ready[i].req = r
    \/ \E id \in DOMAIN io.goals : io.goals[id] = r

\* Every goal the forwarder accepted is reported, unless it is closed first.
GoalsAnswered ==
    \A r \in 1..MaxGoals : GoalUnderway(r) ~> (io.answers[r] > 0 \/ main = "closed")

\* Close returns, even when the robot no longer takes a byte.
CloseReturns == main = "closing" ~> main = "closed"

\* "Behaviour goals are reliable transactions: kept complete, in the order of
\* sending, and never merged with velocity frames" (EnqueueBehaviorFrame).  A
\* queued goal leaves the queue to be written, or with its connection.
GoalFramesKept ==
    [][\A i \in DOMAIN io.pending :
          io.pending[i].kind = "goal" =>
             \/ io'.gen # io.gen \/ io'.stopping
             \/ io'.active = io.pending[i]
             \/ \E j \in DOMAIN io'.pending : io'.pending[j] = io.pending[i]]_vars
=============================================================================
