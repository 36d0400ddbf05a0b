--------------------------- MODULE VehicleControl ---------------------------
(***************************************************************************)
(* The edge device's control module (class VehicleControlModule): remote   *)
(* drive frames, gear changes and robot-dog actions of ONE controlling     *)
(* peer are turned into commands for the local vehicle interface, and      *)
(* every doubt (silence, a bad frame, a lost peer, a full queue, a refusal *)
(* of the interface) into a stop.                                          *)
(*                                                                         *)
(* Threads.  RTC callbacks and the interface's completion callback only    *)
(* append to pendingEvents (under a mutex, one atomic step).  The main     *)
(* loop owns everything else; a Tick swaps the queue out and works through *)
(* the batch.  Its steps are separate actions, so that events arrive       *)
(* between any two of them, as they do in the program.                     *)
(*                                                                         *)
(* Time.  A Tick takes now_ms once.  The module only ever compares         *)
(* now_ms - <some earlier now_ms> with a limit, so the model keeps those   *)
(* differences, which a Tick advances by the time since the previous Tick. *)
(***************************************************************************)
EXTENDS DriveCommandGate, Integers, Sequences, FiniteSets

CONSTANTS
    Sessions,                \* RTC session ids of remote peers
    NoSession,               \* no controlling peer
    Messages,                \* the control messages that peers send
    StateIntervalMs,         \* options_.state_interval_ms
    MaxPendingEvents,        \* options_.max_pending_events
    AllowWatchdogRecovery,   \* options_.allow_watchdog_recovery
    AllowInterfaceRecovery,  \* options_.allow_interface_recovery
    MaxElapsed,              \* bound: longest time between two Ticks
    MaxOverlap,              \* bound: events waiting while a batch is worked off
    MaxDogActions            \* bound: dog actions forwarded in a behaviour

Gears == {"neutral", "forward", "reverse"}
DogActions == {"lateralMove", "lateralStop", "goal"}

\* DecodeEnvelope validates a drive command too, so the gate never gets to see
\* an invalid one from a peer.
DecodedMotions == DriveMotions \ {"invalid"}

\* Decoded control messages.  "malformed" stands for everything ProcessMessage
\* answers with StopForSafety before it looks at a command: an empty or
\* oversized payload, an envelope that does not decode, a field out of range, a
\* message type that does not belong on its channel.  The two lateral directions are one action
\* and so are the two behaviour goals (Stand, LieDown): the module does not
\* tell them apart.
MessageType ==
         [kind : {"drive"}, seq : Nat, motion : DecodedMotions]
    \cup [kind : {"gear"}, req : Nat, gear : Gears]
    \cup [kind : {"dog"}, req : Nat, action : DogActions]
    \cup [kind : {"malformed"}]

EventType ==
         [type : {"message"}, from : Sessions, msg : Messages]
    \cup [type : {"peerConnected", "peerDisconnected"}, from : Sessions]
    \cup [type : {"transportDisconnected"}]
    \cup [type : {"dogCompleted"}, id : Nat, of : Sessions \X Nat]

ASSUME ControlAssumption ==
    /\ NoSession \notin Sessions
    /\ Messages \subseteq MessageType
    /\ StateIntervalMs \in Nat \ {0}
    /\ MaxPendingEvents \in Nat \ {0}
    /\ AllowWatchdogRecovery \in BOOLEAN
    /\ AllowInterfaceRecovery \in BOOLEAN
    /\ MaxElapsed \in Nat \ {0}
    /\ MaxOverlap \in Nat
    /\ MaxDogActions \in Nat

VARIABLES
    started, activeSession, gate,
    stopSent, awaitingFirstDrive, recoverableStopPending, safetyLatched,
    dogLateralActive, dogLateralWatchdogStopped, lateralAge,
    activeGear, stateDirty, stateAge,
    nextCompletionId, pendingDogActions,
    pendingEvents, pendingOverflow,   \* shared with the callback threads
    pc, batch,                        \* where the current Tick stands
    vehicle,     \* external: the motion the interface was last told to do,
                 \* and for how long it has not been told to move again
    inFlight,    \* external: goals the interface still has to complete
    reported,    \* history: the last VehicleState sent to the peer
    drives,      \* history: drive numbers forwarded in this session
    lastAck      \* history: the last EventAck sent for a completed goal

latchVars   == <<gate, stopSent, awaitingFirstDrive, recoverableStopPending,
                 safetyLatched, dogLateralActive, vehicle>>
dogVars     == <<nextCompletionId, pendingDogActions, inFlight, lastAck>>
queueVars   == <<pendingEvents, pendingOverflow>>
sessionVars == <<started, activeSession>>
ageVars     == <<lateralAge, stateAge>>
vars == <<sessionVars, latchVars, dogLateralWatchdogStopped, ageVars, activeGear,
          stateDirty, dogVars, queueVars, pc, batch, reported, drives>>

Vehicle == [motion : {"stopped", "driving", "lateral"}, age : 0..WatchdogMs]
Stopped == [motion |-> "stopped", age |-> 0]
Moving(how) == [motion |-> how, age |-> 0]
VehicleAged(v, d) == IF v = Stopped THEN v ELSE [v EXCEPT !.age = Aged(v.age, d)]

\* The VehicleState MaybeSendState builds from the module's fields.
CurrentState == [gear |-> activeGear,
                 watchdogStopped |-> safetyLatched \/ dogLateralWatchdogStopped,
                 lastDriveSeq |-> gate.lastSeq]

Init ==
    /\ started = FALSE /\ activeSession = NoSession
    /\ gate = GateInit
    /\ stopSent = TRUE /\ safetyLatched = TRUE
    /\ awaitingFirstDrive = FALSE /\ recoverableStopPending = FALSE
    /\ dogLateralActive = FALSE /\ dogLateralWatchdogStopped = FALSE
    /\ lateralAge = 0 /\ stateAge = StateIntervalMs
    /\ activeGear = "neutral" /\ stateDirty = FALSE
    /\ nextCompletionId = 1 /\ pendingDogActions = <<>>
    /\ pendingEvents = <<>> /\ pendingOverflow = FALSE
    /\ pc = "idle" /\ batch = <<>>
    /\ vehicle = Stopped /\ inFlight = {}
    /\ reported = CurrentState /\ drives = <<>> /\ lastAck = <<>>

-----------------------------------------------------------------------------
(* The callback threads: Enqueue.  On a full queue everything that waits is
   dropped and only the new event kept. *)

Enqueue(event) ==
    /\ IF Len(pendingEvents) >= MaxPendingEvents
       THEN pendingEvents' = <<event>> /\ pendingOverflow' = TRUE
       ELSE pendingEvents' = Append(pendingEvents, event) /\ UNCHANGED pendingOverflow
    /\ UNCHANGED <<sessionVars, latchVars, dogLateralWatchdogStopped, ageVars,
                   activeGear, stateDirty, pc, batch, reported, drives,
                   nextCompletionId, pendingDogActions, lastAck>>

EnqueueMessage(s, m) ==
    /\ Enqueue([type |-> "message", from |-> s, msg |-> m])
    /\ UNCHANGED inFlight

EnqueueP2PState(s, type) ==
    /\ Enqueue([type |-> type, from |-> s])
    /\ UNCHANGED inFlight

EnqueueTransportDisconnected ==
    /\ Enqueue([type |-> "transportDisconnected"])
    /\ UNCHANGED inFlight

\* The interface finished a goal.  `of' is the request it was forwarded for: the
\* interface does not know it, the properties do.
EnqueueDogActionCompletion(goal) ==
    /\ Enqueue([type |-> "dogCompleted", id |-> goal.id, of |-> goal.of])
    /\ inFlight' = inFlight \ {goal}

-----------------------------------------------------------------------------
(* Stops.  g is the gate as the caller leaves it. *)

\* Mutant: the stop is noted as sent, not sent.
SendStopNever == UNCHANGED vehicle /\ stopSent' = TRUE

SendStopOnce ==
    /\ vehicle' = IF stopSent THEN vehicle ELSE Stopped
    /\ stopSent' = TRUE

StopForSafety(g) ==
    /\ gate' = GateStop(g)
    /\ dogLateralActive' = FALSE
    /\ awaitingFirstDrive' = FALSE
    /\ recoverableStopPending' = FALSE
    /\ safetyLatched' = TRUE
    /\ SendStopOnce

StopForRecoverableCondition(g) ==
    /\ SendStopOnce
    /\ gate' = GateStop(g)
    /\ dogLateralActive' = FALSE
    /\ awaitingFirstDrive' = TRUE
    /\ recoverableStopPending' = TRUE
    /\ safetyLatched' = TRUE

StopFor(recoverable, g) == IF recoverable THEN StopForRecoverableCondition(g)
                                          ELSE StopForSafety(g)

-----------------------------------------------------------------------------
(* The main loop: Start, Shutdown, Tick. *)

\* Start with a non-null interface and a watchdog within the protocol limit;
\* when Open fails nothing changes.
Start ==
    /\ ~started /\ started' = TRUE
    /\ UNCHANGED <<activeSession, latchVars, dogLateralWatchdogStopped, ageVars,
                   activeGear, stateDirty, dogVars, queueVars, pc, batch,
                   reported, drives>>

\* The completion callback is removed first, so goals still in flight complete
\* unheard.
Shutdown ==
    /\ started /\ pc = "idle"
    /\ StopForSafety(gate) /\ stateDirty' = TRUE
    /\ started' = FALSE /\ activeSession' = NoSession
    /\ pendingEvents' = <<>> /\ pendingOverflow' = FALSE
    /\ pendingDogActions' = <<>> /\ inFlight' = {}
    /\ UNCHANGED <<dogLateralWatchdogStopped, ageVars, activeGear,
                   nextCompletionId, lastAck, pc, batch, reported, drives>>

\* Mutant: a Tick that finds no event returns at once.
TickBeginIfWoken(elapsed) ==
    /\ started /\ pc = "idle" /\ pendingEvents # <<>>
    /\ pc' = IF pendingOverflow THEN "overflow" ELSE "events"
    /\ batch' = pendingEvents /\ pendingEvents' = <<>> /\ pendingOverflow' = FALSE
    /\ gate' = GateAged(gate, elapsed)
    /\ lateralAge' = IF dogLateralActive THEN Aged(lateralAge, elapsed) ELSE lateralAge
    /\ vehicle' = VehicleAged(vehicle, elapsed)
    /\ stateAge' = IF stateAge + elapsed >= StateIntervalMs
                   THEN StateIntervalMs ELSE stateAge + elapsed
    /\ UNCHANGED <<sessionVars, stopSent, awaitingFirstDrive,
                   recoverableStopPending, safetyLatched, dogLateralActive,
                   dogLateralWatchdogStopped, activeGear, stateDirty, dogVars,
                   reported, drives>>

\* Tick: the queue is swapped out; pc remembers whether it had overflowed.
TickBegin(elapsed) ==
    /\ started /\ pc = "idle"
    /\ pc' = IF pendingOverflow THEN "overflow" ELSE "events"
    /\ batch' = pendingEvents /\ pendingEvents' = <<>> /\ pendingOverflow' = FALSE
    /\ gate' = GateAged(gate, elapsed)
    /\ lateralAge' = IF dogLateralActive THEN Aged(lateralAge, elapsed) ELSE lateralAge
    /\ vehicle' = VehicleAged(vehicle, elapsed)
    /\ stateAge' = IF stateAge + elapsed >= StateIntervalMs
                   THEN StateIntervalMs ELSE stateAge + elapsed
    /\ UNCHANGED <<sessionVars, stopSent, awaitingFirstDrive,
                   recoverableStopPending, safetyLatched, dogLateralActive,
                   dogLateralWatchdogStopped, activeGear, stateDirty, dogVars,
                   reported, drives>>

\* An overflow stops the vehicle before the surviving event is looked at.
TickOverflow ==
    /\ pc = "overflow" /\ pc' = "events"
    /\ StopForSafety(gate) /\ stateDirty' = TRUE
    /\ UNCHANGED <<sessionVars, dogLateralWatchdogStopped, ageVars, activeGear,
                   dogVars, queueVars, batch, reported, drives>>

\* The events of the batch are processed; the drive watchdog is polled.
TickDriveWatchdog ==
    /\ pc = "events" /\ batch = <<>> /\ pc' = "lateralWatchdog"
    /\ IF activeSession # NoSession /\ gate.started /\ PollResult(gate)
       THEN /\ StopFor(AllowWatchdogRecovery, PollGate(gate))
            /\ stateDirty' = TRUE
       ELSE UNCHANGED <<latchVars, stateDirty>>
    /\ UNCHANGED <<sessionVars, dogLateralWatchdogStopped, ageVars, activeGear,
                   dogVars, queueVars, batch, reported, drives>>

LateralWatchdogDue ==
    activeSession # NoSession /\ dogLateralActive /\ lateralAge >= WatchdogMs

\* Mutant: the peer is not told.
TickLateralWatchdogUntold ==
    /\ pc = "lateralWatchdog" /\ pc' = "report"
    /\ IF LateralWatchdogDue
       THEN /\ dogLateralActive' = FALSE
            /\ dogLateralWatchdogStopped' = TRUE
            /\ SendStopOnce
       ELSE UNCHANGED <<dogLateralActive, dogLateralWatchdogStopped, stopSent, vehicle>>
    /\ UNCHANGED <<sessionVars, gate, awaitingFirstDrive, recoverableStopPending,
                   safetyLatched, ageVars, activeGear, stateDirty, dogVars,
                   queueVars, batch, reported, drives>>

TickLateralWatchdog ==
    /\ pc = "lateralWatchdog" /\ pc' = "report"
    /\ IF LateralWatchdogDue
       THEN /\ dogLateralActive' = FALSE
            /\ dogLateralWatchdogStopped' = TRUE
            /\ SendStopOnce
            /\ stateDirty' = TRUE
       ELSE UNCHANGED <<dogLateralActive, dogLateralWatchdogStopped, stopSent,
                        vehicle, stateDirty>>
    /\ UNCHANGED <<sessionVars, gate, awaitingFirstDrive, recoverableStopPending,
                   safetyLatched, ageVars, activeGear, dogVars, queueVars, batch,
                   reported, drives>>

\* MaybeSendState: a send may fail, and is then tried again in the next Tick.
MaybeSendState(delivered) ==
    /\ pc = "report" /\ pc' = "idle"
    /\ IF /\ activeSession # NoSession
          /\ stateDirty \/ stateAge >= StateIntervalMs
          /\ delivered
       THEN stateAge' = 0 /\ stateDirty' = FALSE /\ reported' = CurrentState
       ELSE UNCHANGED <<stateAge, stateDirty, reported>>
    /\ UNCHANGED <<sessionVars, latchVars, dogLateralWatchdogStopped, lateralAge,
                   activeGear, dogVars, queueVars, batch, drives>>

-----------------------------------------------------------------------------
(* ProcessEvent, one action per case.  Every action takes the first event of
   the batch. *)

Take(type) == /\ pc = "events" /\ batch # <<>>
              /\ Head(batch).type = type
              /\ batch' = Tail(batch)
              /\ UNCHANGED <<pc, queueVars>>

HandlePeerConnected ==
    /\ Take("peerConnected")
    /\ IF activeSession # NoSession
       THEN UNCHANGED <<activeSession, latchVars, dogLateralWatchdogStopped,
                        stateDirty, drives>>
       ELSE /\ activeSession' = Head(batch).from
            /\ gate' = GateStop(gate)
            /\ awaitingFirstDrive' = TRUE
            /\ recoverableStopPending' = FALSE
            /\ safetyLatched' = FALSE
            /\ dogLateralActive' = FALSE
            /\ dogLateralWatchdogStopped' = FALSE
            /\ stopSent' = FALSE
            /\ stateDirty' = TRUE
            /\ drives' = <<>>
            /\ UNCHANGED vehicle
    /\ UNCHANGED <<started, ageVars, activeGear, dogVars, reported>>

\* HandlePeerDisconnected for the active session, whether the peer or the
\* whole transport went away; any other session's state is ignored.
LosesActiveSession(event) ==
    /\ activeSession # NoSession
    /\ event.type = "peerDisconnected" => event.from = activeSession

HandlePeerDisconnected(type) ==
    /\ Take(type)
    /\ IF LosesActiveSession(Head(batch))
       THEN /\ StopForSafety(gate)
            /\ pendingDogActions' = <<>>
            /\ activeSession' = NoSession
            /\ stateDirty' = FALSE
       ELSE UNCHANGED <<latchVars, pendingDogActions, activeSession, stateDirty>>
    /\ UNCHANGED <<started, dogLateralWatchdogStopped, ageVars, activeGear,
                   nextCompletionId, inFlight, lastAck, reported, drives>>

\* ProcessMessage up to the dispatch: only the active session's messages count.
TakeMessage(kind) ==
    /\ Take("message")
    /\ activeSession # NoSession /\ Head(batch).from = activeSession
    /\ Head(batch).msg.kind = kind

IgnoreMessage ==
    /\ Take("message")
    /\ Head(batch).from # activeSession
    /\ UNCHANGED <<sessionVars, latchVars, dogLateralWatchdogStopped, ageVars,
                   activeGear, stateDirty, dogVars, reported, drives>>

RejectMalformed ==
    /\ TakeMessage("malformed")
    /\ StopForSafety(gate) /\ stateDirty' = TRUE
    /\ UNCHANGED <<sessionVars, dogLateralWatchdogStopped, ageVars, activeGear,
                   dogVars, reported, drives>>

(* ProcessDriveCommand.  The gate judges the frame; after a connection the
   first frame starts it, after a recoverable stop only Recover may. *)
\* Mutant: a recoverable stop starts the gate afresh, like a new session.
DriveVerdictRestarting(m) ==
    Accept(IF awaitingFirstDrive THEN GateStart ELSE gate, m.seq, m.motion)

DriveVerdict(m) ==
    IF recoverableStopPending THEN Recover(gate, m.seq, m.motion)
    ELSE Accept(IF awaitingFirstDrive THEN GateStart ELSE gate, m.seq, m.motion)

DropDrive ==
    /\ TakeMessage("drive")
    /\ LET v == DriveVerdict(Head(batch).msg)
       IN  v.status = "duplicateOrOutOfOrder" /\ gate' = v.gate
    /\ UNCHANGED <<sessionVars, stopSent, awaitingFirstDrive,
                   recoverableStopPending, safetyLatched, dogLateralActive, vehicle,
                   dogLateralWatchdogStopped, ageVars, activeGear, stateDirty,
                   dogVars, reported, drives>>

\* Mutant: with watchdog recovery every refusal is recoverable.
RefuseDriveRecoverably ==
    /\ TakeMessage("drive")
    /\ LET v == DriveVerdict(Head(batch).msg)
       IN  /\ v.status \notin {"duplicateOrOutOfOrder", "accepted"}
           /\ v.shouldStop
           /\ StopFor(AllowWatchdogRecovery, v.gate)
    /\ stateDirty' = TRUE
    /\ UNCHANGED <<sessionVars, dogLateralWatchdogStopped, ageVars, activeGear,
                   dogVars, reported, drives>>

RefuseDrive ==
    /\ TakeMessage("drive")
    /\ LET v == DriveVerdict(Head(batch).msg)
       IN  /\ v.status \notin {"duplicateOrOutOfOrder", "accepted"}
           /\ v.shouldStop      \* always so for these verdicts
           /\ StopFor(AllowWatchdogRecovery /\ v.status = "watchdogExpired", v.gate)
    /\ stateDirty' = TRUE
    /\ UNCHANGED <<sessionVars, dogLateralWatchdogStopped, ageVars, activeGear,
                   dogVars, reported, drives>>

ForwardDrive ==
    /\ TakeMessage("drive")
    /\ LET m == Head(batch).msg
           v == DriveVerdict(m)
       IN  /\ v.status = "accepted"
           /\ gate' = v.gate
           /\ vehicle' = IF m.motion = "move" THEN Moving("driving") ELSE Stopped
           /\ drives' = Append(drives, m.seq)
    /\ awaitingFirstDrive' = FALSE
    /\ recoverableStopPending' = FALSE
    /\ safetyLatched' = FALSE
    /\ stopSent' = FALSE
    /\ dogLateralActive' = FALSE
    /\ dogLateralWatchdogStopped' = FALSE
    /\ stateDirty' = TRUE
    /\ UNCHANGED <<sessionVars, ageVars, activeGear, dogVars, reported>>

\* The gate accepts the frame, the interface does not: "invalidState" is a
\* vehicle link that is down, "failed" any other error.
DriveNotTaken(error) ==
    /\ TakeMessage("drive")
    /\ LET v == DriveVerdict(Head(batch).msg)
       IN  /\ v.status = "accepted"
           /\ StopFor(AllowInterfaceRecovery /\ error = "invalidState", v.gate)
    /\ stateDirty' = TRUE
    /\ UNCHANGED <<sessionVars, dogLateralWatchdogStopped, ageVars, activeGear,
                   dogVars, reported, drives>>

\* ProcessSetGear, the acknowledgement included; a latched vehicle, or an
\* interface that refuses, keeps its gear.
ProcessSetGear(accepted) ==
    /\ TakeMessage("gear")
    /\ activeGear' = IF ~safetyLatched /\ accepted THEN Head(batch).msg.gear
                                                   ELSE activeGear
    /\ stateDirty' = TRUE
    /\ UNCHANGED <<sessionVars, latchVars, dogLateralWatchdogStopped, ageVars,
                   dogVars, reported, drives>>

-----------------------------------------------------------------------------
(* ProcessDogAction. *)

LatchRefuses(action) == safetyLatched /\ action # "lateralStop"

AlreadyPending(s, req) ==
    \E id \in DOMAIN pendingDogActions : pendingDogActions[id] = <<s, req>>

TooManyPending == Cardinality(DOMAIN pendingDogActions) >= MaxPendingEvents

\* The three refusals; each is acknowledged at once.  Only the first marks the
\* state as changed.
RefuseDogAction ==
    /\ TakeMessage("dog")
    /\ LET m == Head(batch).msg
       IN  \/ LatchRefuses(m.action) /\ stateDirty' = TRUE
           \/ /\ ~LatchRefuses(m.action)
              /\ AlreadyPending(activeSession, m.req) \/ TooManyPending
              /\ UNCHANGED stateDirty
    /\ UNCHANGED <<sessionVars, latchVars, dogLateralWatchdogStopped, ageVars,
                   activeGear, dogVars, reported, drives>>

\* Mutant: the peer's own request id is handed to the interface.
RequestIdAsCompletionId == Head(batch).msg.req

\* The next id that is neither 0 nor pending.
AllocateDogActionCompletionId ==
    CHOOSE id \in nextCompletionId..(nextCompletionId + MaxPendingEvents) :
        /\ id \notin DOMAIN pendingDogActions
        /\ \A j \in nextCompletionId..(id - 1) : j \in DOMAIN pendingDogActions

\* What an accepted action does to the vehicle and to the module's view of it.
DogMotion(action) ==
    CASE action = "lateralMove" ->
            /\ dogLateralActive' = TRUE /\ dogLateralWatchdogStopped' = FALSE
            /\ lateralAge' = 0 /\ stopSent' = FALSE
            /\ vehicle' = Moving("lateral")
      [] action = "lateralStop" ->
            /\ dogLateralActive' = FALSE /\ dogLateralWatchdogStopped' = FALSE
            /\ stopSent' = TRUE /\ vehicle' = Stopped
            /\ UNCHANGED lateralAge
      [] action = "goal" ->
            UNCHANGED <<dogLateralActive, dogLateralWatchdogStopped, lateralAge,
                        stopSent, vehicle>>

\* The action goes to the interface under an id of the module's own.  Lateral
\* motion is acknowledged at once, a goal when the interface completes it.
ForwardDogAction(accepted) ==
    /\ TakeMessage("dog")
    /\ LET m  == Head(batch).msg
           id == AllocateDogActionCompletionId
           of == <<activeSession, m.req>>
       IN  /\ ~LatchRefuses(m.action)
           /\ ~AlreadyPending(activeSession, m.req) /\ ~TooManyPending
           /\ nextCompletionId' = id + 1
           /\ IF accepted THEN DogMotion(m.action)
              ELSE UNCHANGED <<dogLateralActive, dogLateralWatchdogStopped,
                               lateralAge, stopSent, vehicle>>
           /\ IF accepted /\ m.action = "goal"
              THEN /\ pendingDogActions' =
                        [i \in DOMAIN pendingDogActions \cup {id} |->
                            IF i = id THEN of ELSE pendingDogActions[i]]
                   /\ inFlight' = inFlight \cup {[id |-> id, of |-> of]}
              ELSE UNCHANGED <<pendingDogActions, inFlight>>
    /\ stateDirty' = TRUE
    /\ UNCHANGED <<sessionVars, gate, awaitingFirstDrive, recoverableStopPending,
                   safetyLatched, stateAge, activeGear, lastAck, reported, drives>>

\* ProcessDogActionCompletion: an unknown id is ignored.
ProcessDogActionCompletion ==
    /\ Take("dogCompleted")
    /\ LET e == Head(batch)
       IN  IF e.id \in DOMAIN pendingDogActions
           THEN LET to == pendingDogActions[e.id]
                IN  /\ pendingDogActions' =
                         [i \in DOMAIN pendingDogActions \ {e.id} |-> pendingDogActions[i]]
                    /\ IF activeSession = to[1]
                       THEN lastAck' = <<to, e.of>> /\ stateDirty' = TRUE
                       ELSE UNCHANGED <<lastAck, stateDirty>>
           ELSE UNCHANGED <<pendingDogActions, lastAck, stateDirty>>
    /\ UNCHANGED <<sessionVars, latchVars, dogLateralWatchdogStopped, ageVars,
                   activeGear, nextCompletionId, inFlight, reported, drives>>

-----------------------------------------------------------------------------
\* Bound: dog actions forwarded or on their way never exceed MaxDogActions.
IsDogAction(e) == e.type = "message" /\ e.msg.kind = "dog"
DogActionsWaiting(q) == Cardinality({i \in DOMAIN q : IsDogAction(q[i])})
WithinDogBound(m) ==
    m.kind = "dog" =>
        nextCompletionId + DogActionsWaiting(pendingEvents)
                         + DogActionsWaiting(batch) <= MaxDogActions

\* Bound: events arrive at any step of a Tick, but no more than MaxOverlap of
\* them wait for the next one before this one ends.
WithinOverlap == pc # "idle" => Len(pendingEvents) < MaxOverlap

PeerCommands == \E s \in Sessions, m \in Messages :
                    WithinDogBound(m) /\ WithinOverlap /\ EnqueueMessage(s, m)

Callbacks ==
    \/ PeerCommands
    \/ \E s \in Sessions, t \in {"peerConnected", "peerDisconnected"} :
            WithinOverlap /\ EnqueueP2PState(s, t)
    \/ WithinOverlap /\ EnqueueTransportDisconnected
    \/ \E goal \in inFlight : WithinOverlap /\ EnqueueDogActionCompletion(goal)

ProcessEvent ==
    \/ HandlePeerConnected
    \/ \E t \in {"peerDisconnected", "transportDisconnected"} : HandlePeerDisconnected(t)
    \/ IgnoreMessage \/ RejectMalformed
    \/ DropDrive \/ RefuseDrive \/ ForwardDrive
    \/ \E error \in {"invalidState", "failed"} : DriveNotTaken(error)
    \/ \E ok \in BOOLEAN : ProcessSetGear(ok) \/ ForwardDogAction(ok)
    \/ RefuseDogAction
    \/ ProcessDogActionCompletion

Tick ==
    \/ \E d \in 1..MaxElapsed : TickBegin(d)
    \/ TickOverflow
    \/ ProcessEvent
    \/ TickDriveWatchdog
    \/ TickLateralWatchdog
    \/ \E ok \in BOOLEAN : MaybeSendState(ok)

Next == Start \/ Shutdown \/ Tick \/ Callbacks

Spec == Init /\ [][Next]_vars

\* The main loop ticks until the application stops.
FairSpec == Spec /\ WF_vars(Tick)

-----------------------------------------------------------------------------
(* Properties. *)

TypeOK ==
    /\ started \in BOOLEAN /\ activeSession \in Sessions \cup {NoSession}
    /\ gate \in Gate
    /\ stopSent \in BOOLEAN /\ safetyLatched \in BOOLEAN
    /\ awaitingFirstDrive \in BOOLEAN /\ recoverableStopPending \in BOOLEAN
    /\ dogLateralActive \in BOOLEAN /\ dogLateralWatchdogStopped \in BOOLEAN
    /\ lateralAge \in 0..WatchdogMs /\ stateAge \in 0..StateIntervalMs
    /\ activeGear \in Gears /\ stateDirty \in BOOLEAN
    /\ nextCompletionId \in Nat \ {0}
    /\ DOMAIN pendingDogActions \subseteq Nat
    /\ \A id \in DOMAIN pendingDogActions : pendingDogActions[id] \in Sessions \X Nat
    /\ pendingEvents \in Seq(EventType) /\ Len(pendingEvents) <= MaxPendingEvents
    /\ pendingOverflow \in BOOLEAN
    /\ pc \in {"idle", "overflow", "events", "lateralWatchdog", "report"}
    /\ batch \in Seq(EventType)
    /\ vehicle \in Vehicle
    /\ inFlight \subseteq [id : Nat, of : Sessions \X Nat]
    /\ drives \in Seq(Nat)

\* The vehicle moves only on behalf of a present, unlatched control session,
\* with the stop still owed (so that the next StopForSafety really sends it) and
\* with the watchdog that belongs to the kind of motion armed.  A motion that no
\* watchdog guards, or a stop the module believes sent, would be a runaway.
MotionGuarded ==
    vehicle.motion # "stopped" =>
        /\ started /\ activeSession # NoSession
        /\ ~safetyLatched /\ ~stopSent
        /\ vehicle.motion = "driving" => gate.started
        /\ vehicle.motion = "lateral" => dogLateralActive

\* When a Tick has looked at its watchdogs, a vehicle that still moves was told
\* to move less than WatchdogMs ago: replayed frames, refused frames, gear
\* changes and goals never extend a motion.
WatchdogBound ==
    pc \in {"report", "idle"} /\ vehicle.motion # "stopped" => vehicle.age < WatchdogMs

\* Within a session the interface sees strictly increasing drive numbers, also
\* across recoverable stops: no frame of the unordered channel is executed twice
\* or after a newer one.
NoReplay == \A i, j \in DOMAIN drives : i < j => drives[i] < drives[j]

\* A safety stop that is not a recoverable one holds until the peer is replaced:
\* no message, watchdog or completion releases it or turns it into a
\* recoverable stop.
HardLatchKept ==
    safetyLatched /\ ~recoverableStopPending /\ activeSession # NoSession
        => \/ safetyLatched' /\ ~recoverableStopPending'
           \/ activeSession' = NoSession

HardLatch == [][HardLatchKept]_vars

\* Between Ticks the controlling peer knows the state: what was last sent is
\* what holds, or the state is marked for sending.
PeerInformed ==
    pc = "idle" /\ activeSession # NoSession /\ ~stateDirty => reported = CurrentState

\* A goal's completion is acknowledged for the request that the goal was
\* forwarded for and to the session that sent it, even when the session that
\* sent it is gone and another one reuses its request ids.
AckMatchesGoal == lastAck # <<>> => lastAck[1] = lastAck[2]

\* Goals of a session that has ended are forgotten with it.
PendingBelongsToSession ==
    \A id \in DOMAIN pendingDogActions : pendingDogActions[id][1] = activeSession

\* Acknowledgements are sound: each goes to its own request, and no goal of an
\* ended session is left that a later one could be acknowledged for.
AcksSound == AckMatchesGoal /\ PendingBelongsToSession

\* A peer that falls silent, without any connection event, leaves a vehicle that
\* stands still.
SilenceStops == <>[][~PeerCommands]_vars => <>[](vehicle.motion = "stopped")

-----------------------------------------------------------------------------
(* The inductive strengthening from which MotionGuarded, WatchdogBound,
   HardLatch and NoReplay follow. *)

\* A latched module has sent its stop, holds no open gate and no lateral motion;
\* a hard latch does not wait for a first frame either.
LatchConsistent ==
    /\ pc # "idle" => started
    /\ safetyLatched => stopSent /\ ~gate.started /\ ~dogLateralActive
    /\ safetyLatched /\ ~recoverableStopPending => ~awaitingFirstDrive

\* The age each watchdog keeps is the age of the motion it guards.
AgesAgree ==
    /\ vehicle.motion = "driving" => gate.age = vehicle.age
    /\ vehicle.motion = "lateral" => lateralAge = vehicle.age

\* Between the two watchdogs of a Tick only a lateral motion can be overdue.
DriveWatchdogPolled ==
    pc = "lateralWatchdog" /\ vehicle.motion = "driving" => vehicle.age < WatchdogMs

\* The gate has seen every forwarded number, and a gate that is about to be
\* started afresh belongs to a session without forwarded frames.
DrivesSeen ==
    /\ drives # <<>> => gate.hasReceived
    /\ \A i \in DOMAIN drives : drives[i] <= gate.lastSeq
    /\ awaitingFirstDrive /\ ~recoverableStopPending => drives = <<>>

\* Ids handed out are smaller than the next one.
IdsBelowNext == \A id \in DOMAIN pendingDogActions : id < nextCompletionId

ControlInv ==
    /\ TypeOK /\ LatchConsistent /\ MotionGuarded /\ AgesAgree
    /\ DriveWatchdogPolled /\ WatchdogBound /\ IdsBelowNext
=============================================================================
