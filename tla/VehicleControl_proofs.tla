----------------------- MODULE VehicleControl_proofs -----------------------
(* Proofs about VehicleControl, for every value of its constants. *)
EXTENDS VehicleControl, TLAPS

USE WatchdogAssumption

\* Ages stay within the watchdog's period.
LEMMA AgedType == \A a \in 0..WatchdogMs, d \in Nat : Aged(a, d) \in 0..WatchdogMs
BY DEF Aged

\* Every gate operation returns a gate.
LEMMA GateTypes ==
    /\ GateInit \in Gate /\ GateStart \in Gate
    /\ \A g \in Gate : GateStop(g) \in Gate /\ PollGate(g) \in Gate
    /\ \A g \in Gate, d \in Nat : GateAged(g, d) \in Gate
    /\ \A g \in Gate, q \in Nat : GateReceived(g, q) \in Gate
<1>1. GateInit \in Gate /\ GateStart \in Gate
  BY DEF GateInit, GateStart, Gate
<1>2. \A g \in Gate : GateStop(g) \in Gate /\ PollGate(g) \in Gate
  BY DEF GateStop, PollGate, Gate
<1>3. \A g \in Gate, d \in Nat : GateAged(g, d) \in Gate
  BY AgedType DEF GateAged, Gate
<1>4. \A g \in Gate, q \in Nat : GateReceived(g, q) \in Gate
  BY DEF GateReceived, Gate
<1> QED BY <1>1, <1>2, <1>3, <1>4

\* A verdict on a frame carries a gate, whichever way the gate was asked.
LEMMA VerdictTypes ==
    ASSUME NEW g \in Gate, NEW q \in Nat, NEW x
    PROVE  Accept(g, q, x).gate \in Gate /\ Recover(g, q, x).gate \in Gate
BY GateTypes DEF Accept, Recover, Verdict

\* An accepted frame has a number above the last one of the gate it was shown to,
\* and leaves a started gate of age 0 that remembers the number.
LEMMA VerdictAccepted ==
    ASSUME NEW g \in Gate, NEW q \in Nat, NEW x, NEW v,
           v = Accept(g, q, x) \/ v = Recover(g, q, x), v.status = "accepted"
    PROVE  v.gate = GateReceived(g, q) /\ ~Replayed(g, q)
BY DEF Accept, Recover, Verdict

-----------------------------------------------------------------------------
(* Type correctness. *)

TypeInv == TypeOK /\ IdsBelowNext

\* Every event that is enqueued has the shape the loop expects.
LEMMA EnqueueType ==
    ASSUME TypeInv, NEW e \in EventType, Enqueue(e),
           inFlight' \subseteq inFlight
    PROVE  TypeInv'
<1>1. /\ pendingEvents' \in Seq(EventType)
      /\ Len(pendingEvents') <= MaxPendingEvents
      /\ pendingOverflow' \in BOOLEAN
  <2>1. /\ pendingEvents \in Seq(EventType) /\ Len(pendingEvents) <= MaxPendingEvents
        /\ pendingOverflow \in BOOLEAN /\ MaxPendingEvents \in Nat \ {0}
    BY ControlAssumption DEF TypeInv, TypeOK
  <2>2. CASE Len(pendingEvents) >= MaxPendingEvents
    <3>1. pendingEvents' = <<e>> /\ pendingOverflow' = TRUE
      BY <2>2 DEF Enqueue
    <3>2. <<e>> \in Seq(EventType) /\ Len(<<e>>) = 1
      OBVIOUS
    <3> QED BY <2>1, <3>1, <3>2
  <2>3. CASE ~(Len(pendingEvents) >= MaxPendingEvents)
    BY <2>1, <2>3 DEF Enqueue
  <2> QED BY <2>2, <2>3
<1>2. /\ UNCHANGED <<started, activeSession, gate, stopSent, awaitingFirstDrive,
                     recoverableStopPending, safetyLatched, dogLateralActive, vehicle>>
      /\ UNCHANGED <<dogLateralWatchdogStopped, lateralAge, stateAge, activeGear,
                     stateDirty, pc, batch, drives, nextCompletionId, pendingDogActions>>
  BY DEF Enqueue, sessionVars, latchVars, ageVars
<1> QED
  BY <1>1, <1>2 DEF TypeInv, TypeOK, IdsBelowNext

LEMMA CallbacksType == TypeInv /\ Callbacks => TypeInv'
<1> SUFFICES ASSUME TypeInv, Callbacks PROVE TypeInv'
  OBVIOUS
<1>1. CASE PeerCommands
  <2> PICK s \in Sessions, m \in Messages : EnqueueMessage(s, m)
    BY <1>1 DEF PeerCommands
  <2>1. [type |-> "message", from |-> s, msg |-> m] \in EventType
    BY DEF EventType
  <2> QED BY <2>1, EnqueueType DEF EnqueueMessage
<1>2. ASSUME NEW s \in Sessions, NEW t \in {"peerConnected", "peerDisconnected"},
             EnqueueP2PState(s, t)
      PROVE  TypeInv'
  <2>1. [type |-> t, from |-> s] \in EventType
    BY DEF EventType
  <2> QED BY <1>2, <2>1, EnqueueType DEF EnqueueP2PState
<1>3. CASE EnqueueTransportDisconnected
  <2>1. [type |-> "transportDisconnected"] \in EventType
    BY DEF EventType
  <2> QED BY <1>3, <2>1, EnqueueType DEF EnqueueTransportDisconnected
<1>4. ASSUME NEW goal \in inFlight, EnqueueDogActionCompletion(goal)
      PROVE  TypeInv'
  <2>1. goal \in [id : Nat, of : Sessions \X Nat]
    BY DEF TypeInv, TypeOK
  <2>2. [type |-> "dogCompleted", id |-> goal.id, of |-> goal.of] \in EventType
    BY <2>1 DEF EventType
  <2> QED BY <1>4, <2>2, EnqueueType DEF EnqueueDogActionCompletion
<1> QED BY <1>1, <1>2, <1>3, <1>4 DEF Callbacks

\* The event at the head of the batch, and what is left of the batch.
LEMMA TakeType ==
    ASSUME TypeInv, NEW t, Take(t)
    PROVE  /\ Head(batch) \in EventType
           /\ batch' \in Seq(EventType)
           /\ Head(batch).type = t
           /\ pc' = pc /\ pendingEvents' = pendingEvents
           /\ pendingOverflow' = pendingOverflow
BY DEF TypeInv, TypeOK, Take, queueVars

\* A control message at the head of the batch comes from the active session and
\* is one of the decoded messages.
LEMMA TakeMessageType ==
    ASSUME TypeInv, NEW k, TakeMessage(k)
    PROVE  /\ Take("message")
           /\ activeSession \in Sessions
           /\ Head(batch).msg \in MessageType
           /\ Head(batch).msg.kind = k
<1>1. Take("message") /\ Head(batch).from = activeSession /\ Head(batch).msg.kind = k
  BY DEF TakeMessage
<1>2. Head(batch) \in EventType /\ Head(batch).type = "message"
  BY <1>1, TakeType
<1>3. Head(batch) \in [type : {"message"}, from : Sessions, msg : Messages]
  BY <1>2 DEF EventType
<1> QED BY <1>1, <1>3, ControlAssumption

\* A stop of either kind: what it leaves behind.  A vehicle that moved is stopped,
\* unless the module believes it has sent the stop already.
LEMMA StopEffect ==
    ASSUME NEW g, NEW r \in BOOLEAN, StopFor(r, g) \/ StopForSafety(g)
    PROVE  /\ gate' = GateStop(g)
           /\ stopSent' = TRUE /\ safetyLatched' = TRUE
           /\ awaitingFirstDrive' \in BOOLEAN
           /\ recoverableStopPending' = awaitingFirstDrive'
           /\ dogLateralActive' = FALSE
           /\ vehicle' = vehicle \/ (vehicle' = Stopped)
           /\ ~stopSent => vehicle' = Stopped
BY DEF StopFor, StopForSafety, StopForRecoverableCondition, SendStopOnce

LEMMA StopType ==
    ASSUME TypeInv, NEW g \in Gate, NEW r \in BOOLEAN, StopFor(r, g) \/ StopForSafety(g)
    PROVE  /\ gate' \in Gate
           /\ stopSent' \in BOOLEAN /\ safetyLatched' \in BOOLEAN
           /\ awaitingFirstDrive' \in BOOLEAN
           /\ recoverableStopPending' \in BOOLEAN
           /\ dogLateralActive' \in BOOLEAN
           /\ vehicle' \in Vehicle
<1>1. Stopped \in Vehicle
  BY DEF Stopped, Vehicle
<1>2. vehicle \in Vehicle
  BY DEF TypeInv, TypeOK
<1> QED BY <1>1, <1>2, StopEffect, GateTypes

\* The variables of TypeInv that the two queues and the stop logic do not touch.
QuietVars == <<started, activeSession, dogLateralWatchdogStopped, lateralAge,
               stateAge, activeGear, nextCompletionId, pendingDogActions, inFlight>>

\* A step that stops the vehicle, or leaves latch state alone, and changes
\* nothing else but the position in the batch keeps the types.
LEMMA StopOrKeepType ==
    ASSUME TypeInv,
           \/ \E g \in Gate, r \in BOOLEAN : StopFor(r, g) \/ StopForSafety(g)
           \/ UNCHANGED latchVars,
           UNCHANGED QuietVars, UNCHANGED drives,
           stateDirty' \in BOOLEAN,
           pc' \in {"idle", "overflow", "events", "lateralWatchdog", "report"},
           batch' \in Seq(EventType), UNCHANGED queueVars
    PROVE  TypeInv'
<1>1. /\ gate' \in Gate
      /\ stopSent' \in BOOLEAN /\ safetyLatched' \in BOOLEAN
      /\ awaitingFirstDrive' \in BOOLEAN /\ recoverableStopPending' \in BOOLEAN
      /\ dogLateralActive' \in BOOLEAN /\ vehicle' \in Vehicle
  <2>1. CASE UNCHANGED latchVars
    BY <2>1 DEF TypeInv, TypeOK, latchVars
  <2>2. ASSUME NEW g \in Gate, NEW r \in BOOLEAN, StopFor(r, g) \/ StopForSafety(g)
        PROVE  <1>1!1 /\ <1>1!2 /\ <1>1!3 /\ <1>1!4
    BY <2>2, StopType
  <2> QED BY <2>1, <2>2
<1> QED BY <1>1 DEF TypeInv, TypeOK, IdsBelowNext, QuietVars, queueVars

LEMMA TickStepsType ==
    ASSUME TypeInv,
           \/ \E d \in 1..MaxElapsed : TickBegin(d)
           \/ TickOverflow \/ TickDriveWatchdog \/ TickLateralWatchdog
           \/ \E ok \in BOOLEAN : MaybeSendState(ok)
    PROVE  TypeInv'
<1> USE DEF sessionVars, ageVars, dogVars
<1>1. ASSUME NEW d \in 1..MaxElapsed, TickBegin(d) PROVE TypeInv'
  <2>1. d \in Nat
    BY ControlAssumption
  <2>2. gate' \in Gate
    BY <1>1, <2>1, GateTypes DEF TickBegin, TypeInv, TypeOK
  <2>3. lateralAge' \in 0..WatchdogMs
    BY <1>1, <2>1, AgedType DEF TickBegin, TypeInv, TypeOK
  <2>4. vehicle' \in Vehicle
    BY <1>1, <2>1, AgedType DEF TickBegin, TypeInv, TypeOK, VehicleAged, Vehicle
  <2>5. stateAge' \in 0..StateIntervalMs
    BY <1>1, <2>1, ControlAssumption DEF TickBegin, TypeInv, TypeOK
  <2>6. pendingEvents' \in Seq(EventType) /\ Len(pendingEvents') <= MaxPendingEvents
    BY <1>1, ControlAssumption DEF TickBegin
  <2>7. batch' \in Seq(EventType) /\ pendingOverflow' \in BOOLEAN
        /\ pc' \in {"idle", "overflow", "events", "lateralWatchdog", "report"}
    BY <1>1 DEF TickBegin, TypeInv, TypeOK
  <2>8. UNCHANGED <<started, activeSession, stopSent, awaitingFirstDrive,
                    recoverableStopPending, safetyLatched, dogLateralActive,
                    dogLateralWatchdogStopped, activeGear, stateDirty,
                    nextCompletionId, pendingDogActions, inFlight, drives>>
    BY <1>1 DEF TickBegin
  <2> QED BY <2>2, <2>3, <2>4, <2>5, <2>6, <2>7, <2>8 DEF TypeInv, TypeOK, IdsBelowNext
<1>2. CASE TickOverflow
  <2>1. gate \in Gate /\ batch \in Seq(EventType)
    BY DEF TypeInv, TypeOK
  <2> QED BY <1>2, <2>1, StopOrKeepType DEF TickOverflow, QuietVars
<1>3. CASE TickDriveWatchdog
  <2>1. PollGate(gate) \in Gate /\ batch \in Seq(EventType) /\ stateDirty \in BOOLEAN
        /\ AllowWatchdogRecovery \in BOOLEAN
    BY GateTypes, ControlAssumption DEF TypeInv, TypeOK
  <2>2. \/ StopFor(AllowWatchdogRecovery, PollGate(gate)) /\ stateDirty' = TRUE
        \/ UNCHANGED latchVars /\ stateDirty' = stateDirty
    BY <1>3 DEF TickDriveWatchdog
  <2>3. UNCHANGED QuietVars /\ UNCHANGED drives /\ batch' = batch
        /\ pc' = "lateralWatchdog" /\ UNCHANGED queueVars
    BY <1>3 DEF TickDriveWatchdog, QuietVars
  <2>4. CASE StopFor(AllowWatchdogRecovery, PollGate(gate)) /\ stateDirty' = TRUE
    BY <2>1, <2>3, <2>4, StopOrKeepType
  <2>5. CASE UNCHANGED latchVars /\ stateDirty' = stateDirty
    BY <2>1, <2>3, <2>5, StopOrKeepType
  <2> QED BY <2>2, <2>4, <2>5
<1>4. CASE TickLateralWatchdog
  <2>1. /\ dogLateralActive' \in BOOLEAN /\ dogLateralWatchdogStopped' \in BOOLEAN
        /\ stopSent' \in BOOLEAN /\ stateDirty' \in BOOLEAN
    BY <1>4 DEF TickLateralWatchdog, LateralWatchdogDue, TypeInv, TypeOK, SendStopOnce
  <2>2. vehicle' \in Vehicle
    BY <1>4 DEF TickLateralWatchdog, LateralWatchdogDue, TypeInv, TypeOK, SendStopOnce, Vehicle, Stopped
  <2>3. UNCHANGED <<started, activeSession, gate, awaitingFirstDrive,
                    recoverableStopPending, safetyLatched, lateralAge, stateAge,
                    activeGear, nextCompletionId, pendingDogActions, inFlight,
                    pendingEvents, pendingOverflow, batch, drives>>
        /\ pc' = "report"
    BY <1>4 DEF TickLateralWatchdog, LateralWatchdogDue, queueVars
  <2> QED BY <2>1, <2>2, <2>3 DEF TypeInv, TypeOK, IdsBelowNext
<1>5. ASSUME NEW ok \in BOOLEAN, MaybeSendState(ok) PROVE TypeInv'
  <2>1. stateAge' \in 0..StateIntervalMs /\ stateDirty' \in BOOLEAN
    <3>1. \/ stateAge' = 0 /\ stateDirty' = FALSE
          \/ stateAge' = stateAge /\ stateDirty' = stateDirty
      BY <1>5 DEF MaybeSendState
    <3>2. stateAge \in 0..StateIntervalMs /\ stateDirty \in BOOLEAN
          /\ 0 \in 0..StateIntervalMs
      BY ControlAssumption DEF TypeInv, TypeOK
    <3> QED BY <3>1, <3>2
  <2>2. UNCHANGED <<started, activeSession, gate, stopSent, awaitingFirstDrive,
                    recoverableStopPending, safetyLatched, dogLateralActive, vehicle,
                    dogLateralWatchdogStopped, lateralAge, activeGear,
                    nextCompletionId, pendingDogActions, inFlight,
                    pendingEvents, pendingOverflow, batch, drives>>
        /\ pc' = "idle"
    BY <1>5 DEF MaybeSendState, queueVars, latchVars
  <2> QED BY <2>1, <2>2 DEF TypeInv, TypeOK, IdsBelowNext
<1> QED BY <1>1, <1>2, <1>3, <1>4, <1>5

\* The messages that drive the vehicle.
LEMMA DriveStepsType ==
    ASSUME TypeInv,
           \/ IgnoreMessage \/ RejectMalformed \/ DropDrive \/ RefuseDrive \/ ForwardDrive
           \/ \E error \in {"invalidState", "failed"} : DriveNotTaken(error)
    PROVE  TypeInv'
<1> USE DEF sessionVars, ageVars, dogVars
<1> DEFINE m == Head(batch).msg
           v == DriveVerdict(m)
<1>1. ASSUME TakeMessage("drive")
      PROVE  v.gate \in Gate /\ m.seq \in Nat
  <2>1. m \in MessageType /\ m.kind = "drive"
    BY <1>1, TakeMessageType
  <2>2. m.seq \in Nat
    BY <2>1 DEF MessageType
  <2>3. gate \in Gate /\ GateStart \in Gate
    BY GateTypes DEF TypeInv, TypeOK
  <2> QED BY <2>2, <2>3, VerdictTypes DEF DriveVerdict
<1>2. CASE IgnoreMessage
  <2>1. batch' \in Seq(EventType) /\ pc' = pc /\ UNCHANGED queueVars
    BY <1>2, TakeType DEF IgnoreMessage, queueVars
  <2>2. stateDirty \in BOOLEAN
        /\ pc \in {"idle", "overflow", "events", "lateralWatchdog", "report"}
    BY DEF TypeInv, TypeOK
  <2> QED BY <1>2, <2>1, <2>2, StopOrKeepType DEF IgnoreMessage, QuietVars
<1>3. ASSUME NEW k, TakeMessage(k)
      PROVE  batch' \in Seq(EventType) /\ UNCHANGED queueVars
             /\ pc' \in {"idle", "overflow", "events", "lateralWatchdog", "report"}
             /\ gate \in Gate
  BY <1>3, TakeMessageType, TakeType DEF queueVars, TypeInv, TypeOK
<1>4. CASE RejectMalformed
  <2>1. StopForSafety(gate) /\ stateDirty' = TRUE /\ UNCHANGED QuietVars
        /\ UNCHANGED drives /\ TakeMessage("malformed")
    BY <1>4 DEF RejectMalformed, QuietVars
  <2> QED BY <2>1, <1>3, StopOrKeepType
<1>5. CASE DropDrive
  <2>1. TakeMessage("drive") /\ gate' = v.gate
    BY <1>5 DEF DropDrive
  <2>2. UNCHANGED <<started, activeSession, stopSent, awaitingFirstDrive,
                    recoverableStopPending, safetyLatched, dogLateralActive, vehicle,
                    dogLateralWatchdogStopped, lateralAge, stateAge, activeGear,
                    stateDirty, nextCompletionId, pendingDogActions, inFlight, drives>>
    BY <1>5 DEF DropDrive
  <2> QED BY <1>1, <1>3, <2>1, <2>2 DEF TypeInv, TypeOK, IdsBelowNext, queueVars
<1>6. CASE RefuseDrive
  <2>1. /\ TakeMessage("drive") /\ stateDirty' = TRUE
        /\ UNCHANGED QuietVars /\ UNCHANGED drives
        /\ StopFor(AllowWatchdogRecovery /\ v.status = "watchdogExpired", v.gate)
    BY <1>6 DEF RefuseDrive, QuietVars
  <2> QED BY <1>1, <1>3, <2>1, StopOrKeepType
<1>7. ASSUME NEW error \in {"invalidState", "failed"}, DriveNotTaken(error)
      PROVE  TypeInv'
  <2>1. /\ TakeMessage("drive") /\ stateDirty' = TRUE
        /\ UNCHANGED QuietVars /\ UNCHANGED drives
        /\ StopFor(AllowInterfaceRecovery /\ error = "invalidState", v.gate)
    BY <1>7 DEF DriveNotTaken, QuietVars
  <2> QED BY <1>1, <1>3, <2>1, StopOrKeepType
<1>8. CASE ForwardDrive
  <2>1. TakeMessage("drive") /\ gate' = v.gate /\ drives' = Append(drives, m.seq)
        /\ vehicle' \in {Moving("driving"), Stopped}
    BY <1>8 DEF ForwardDrive
  <2>2. drives' \in Seq(Nat)
    BY <1>1, <2>1 DEF TypeInv, TypeOK
  <2>3. vehicle' \in Vehicle
    BY <2>1 DEF Vehicle, Moving, Stopped
  <2>4. /\ awaitingFirstDrive' = FALSE /\ recoverableStopPending' = FALSE
        /\ safetyLatched' = FALSE /\ stopSent' = FALSE /\ dogLateralActive' = FALSE
        /\ dogLateralWatchdogStopped' = FALSE /\ stateDirty' = TRUE
        /\ UNCHANGED <<started, activeSession, lateralAge, stateAge, activeGear,
                       nextCompletionId, pendingDogActions, inFlight>>
    BY <1>8 DEF ForwardDrive
  <2> QED BY <1>1, <1>3, <2>1, <2>2, <2>3, <2>4 DEF TypeInv, TypeOK, IdsBelowNext, queueVars
<1> QED BY <1>2, <1>4, <1>5, <1>6, <1>7, <1>8

\* Connections of the controlling peer.
LEMMA PeerStepsType ==
    ASSUME TypeInv,
           \/ HandlePeerConnected
           \/ \E t \in {"peerDisconnected", "transportDisconnected"} :
                  HandlePeerDisconnected(t)
    PROVE  TypeInv'
<1> USE DEF sessionVars, ageVars, dogVars
<1> DEFINE PCs == {"idle", "overflow", "events", "lateralWatchdog", "report"}
<1>1. ASSUME NEW t, Take(t)
      PROVE  batch' \in Seq(EventType) /\ UNCHANGED queueVars /\ pc' \in PCs
             /\ gate \in Gate /\ GateStop(gate) \in Gate
             /\ Head(batch) \in EventType /\ Head(batch).type = t
  BY <1>1, TakeType, GateTypes DEF queueVars, TypeInv, TypeOK
<1>2. CASE HandlePeerConnected
  <2>1. CASE activeSession # NoSession
    <3>1. Take("peerConnected") /\ UNCHANGED latchVars /\ UNCHANGED QuietVars
          /\ UNCHANGED drives /\ stateDirty' = stateDirty /\ stateDirty \in BOOLEAN
      BY <1>2, <2>1 DEF HandlePeerConnected, QuietVars, TypeInv, TypeOK
    <3> QED BY <1>1, <3>1, StopOrKeepType
  <2>2. CASE activeSession = NoSession
    <3>1. /\ Take("peerConnected")
          /\ activeSession' = Head(batch).from /\ gate' = GateStop(gate)
          /\ awaitingFirstDrive' = TRUE /\ recoverableStopPending' = FALSE
          /\ safetyLatched' = FALSE /\ dogLateralActive' = FALSE
          /\ dogLateralWatchdogStopped' = FALSE /\ stopSent' = FALSE
          /\ stateDirty' = TRUE /\ drives' = <<>>
          /\ UNCHANGED <<vehicle, started, lateralAge, stateAge, activeGear,
                         nextCompletionId, pendingDogActions, inFlight>>
      BY <1>2, <2>2 DEF HandlePeerConnected
    <3>2. Head(batch) \in EventType /\ Head(batch).type = "peerConnected"
      BY <1>1, <3>1
    <3>3. Head(batch).from \in Sessions
      BY <3>2 DEF EventType
    <3>4. drives' \in Seq(Nat)
      BY <3>1
    <3>5. batch' \in Seq(EventType) /\ pc' \in PCs /\ gate' \in Gate
          /\ UNCHANGED <<pendingEvents, pendingOverflow>>
      BY <1>1, <3>1 DEF queueVars
    <3>6. activeSession' \in Sessions \cup {NoSession}
      BY <3>1, <3>3
    <3>7. UNCHANGED <<vehicle, started, lateralAge, stateAge, activeGear,
                      nextCompletionId, pendingDogActions, inFlight>>
      BY <3>1
    <3>8. /\ awaitingFirstDrive' \in BOOLEAN /\ recoverableStopPending' \in BOOLEAN
          /\ safetyLatched' \in BOOLEAN /\ dogLateralActive' \in BOOLEAN
          /\ dogLateralWatchdogStopped' \in BOOLEAN /\ stopSent' \in BOOLEAN
          /\ stateDirty' \in BOOLEAN
      BY <3>1
    <3> QED BY <3>4, <3>5, <3>6, <3>7, <3>8 DEF TypeInv, TypeOK, IdsBelowNext
  <2> QED BY <2>1, <2>2
<1>3. ASSUME NEW t \in {"peerDisconnected", "transportDisconnected"},
             HandlePeerDisconnected(t)
      PROVE  TypeInv'
  <2>1. CASE LosesActiveSession(Head(batch))
    <3>1. /\ Take(t) /\ StopForSafety(gate) /\ pendingDogActions' = <<>>
          /\ activeSession' = NoSession /\ stateDirty' = FALSE
          /\ UNCHANGED <<started, dogLateralWatchdogStopped, lateralAge, stateAge,
                         activeGear, nextCompletionId, inFlight, drives>>
      BY <1>3, <2>1 DEF HandlePeerDisconnected
    <3>2. /\ gate' \in Gate
          /\ stopSent' \in BOOLEAN /\ safetyLatched' \in BOOLEAN
          /\ awaitingFirstDrive' \in BOOLEAN /\ recoverableStopPending' \in BOOLEAN
          /\ dogLateralActive' \in BOOLEAN /\ vehicle' \in Vehicle
      BY <1>1, <3>1, StopType
    <3>3. DOMAIN pendingDogActions' = {}
      BY <3>1
    <3> QED BY <1>1, <3>1, <3>2, <3>3 DEF TypeInv, TypeOK, IdsBelowNext, queueVars
  <2>2. CASE ~LosesActiveSession(Head(batch))
    <3>1. Take(t) /\ UNCHANGED latchVars /\ UNCHANGED QuietVars
          /\ UNCHANGED drives /\ stateDirty' = stateDirty /\ stateDirty \in BOOLEAN
      BY <1>3, <2>2 DEF HandlePeerDisconnected, QuietVars, TypeInv, TypeOK
    <3> QED BY <1>1, <3>1, StopOrKeepType
  <2> QED BY <2>1, <2>2
<1> QED BY <1>2, <1>3

\* The id handed out is fresh, and above every id handed out before.
LEMMA AllocatedId ==
    ASSUME TypeInv
    PROVE  /\ AllocateDogActionCompletionId \in Nat
           /\ AllocateDogActionCompletionId >= nextCompletionId
           /\ AllocateDogActionCompletionId \notin DOMAIN pendingDogActions
<1> DEFINE P(id) == /\ id \notin DOMAIN pendingDogActions
                    /\ \A j \in nextCompletionId..(id - 1) : j \in DOMAIN pendingDogActions
           S == nextCompletionId..(nextCompletionId + MaxPendingEvents)
<1>1. nextCompletionId \in Nat /\ MaxPendingEvents \in Nat
  BY ControlAssumption DEF TypeInv, TypeOK
<1>2. nextCompletionId \in S /\ P(nextCompletionId)
  BY <1>1 DEF TypeInv, IdsBelowNext
<1>3. \E id \in S : P(id)
  BY <1>2
<1>4. AllocateDogActionCompletionId \in S /\ P(AllocateDogActionCompletionId)
  BY <1>3 DEF AllocateDogActionCompletionId
<1> QED BY <1>1, <1>4

\* Gear changes and dog actions.
LEMMA RequestStepsType ==
    ASSUME TypeInv,
           \/ \E ok \in BOOLEAN : ProcessSetGear(ok) \/ ForwardDogAction(ok)
           \/ RefuseDogAction \/ ProcessDogActionCompletion
    PROVE  TypeInv'
<1> USE DEF sessionVars, ageVars, dogVars
<1> DEFINE PCs == {"idle", "overflow", "events", "lateralWatchdog", "report"}
           m == Head(batch).msg
<1>1. ASSUME NEW k, TakeMessage(k)
      PROVE  batch' \in Seq(EventType) /\ UNCHANGED queueVars /\ pc' \in PCs
             /\ m \in MessageType /\ m.kind = k /\ activeSession \in Sessions
  BY <1>1, TakeMessageType, TakeType DEF queueVars, TypeInv, TypeOK
<1>2. ASSUME NEW ok \in BOOLEAN, ProcessSetGear(ok) PROVE TypeInv'
  <2>1. TakeMessage("gear") /\ stateDirty' = TRUE
        /\ activeGear' \in {m.gear, activeGear}
        /\ UNCHANGED <<started, activeSession, gate, stopSent, awaitingFirstDrive,
                       recoverableStopPending, safetyLatched, dogLateralActive, vehicle,
                       dogLateralWatchdogStopped, lateralAge, stateAge,
                       nextCompletionId, pendingDogActions, inFlight, drives>>
    BY <1>2 DEF ProcessSetGear, latchVars
  <2>2. m \in MessageType /\ m.kind = "gear"
    BY <1>1, <2>1
  <2>3. m.gear \in Gears
    BY <2>2 DEF MessageType
  <2> QED BY <1>1, <2>1, <2>3 DEF TypeInv, TypeOK, IdsBelowNext, queueVars
<1>3. CASE RefuseDogAction
  <2>1. TakeMessage("dog") /\ UNCHANGED latchVars /\ UNCHANGED QuietVars
        /\ UNCHANGED drives /\ (stateDirty' = TRUE \/ stateDirty' = stateDirty)
    BY <1>3 DEF RefuseDogAction, QuietVars
  <2>2. stateDirty' \in BOOLEAN
    BY <2>1 DEF TypeInv, TypeOK
  <2> QED BY <1>1, <2>1, <2>2, StopOrKeepType
<1>4. ASSUME NEW ok \in BOOLEAN, ForwardDogAction(ok) PROVE TypeInv'
  <2> DEFINE id == AllocateDogActionCompletionId
             of == <<activeSession, m.req>>
  <2>1. /\ TakeMessage("dog") /\ nextCompletionId' = id + 1 /\ stateDirty' = TRUE
        /\ \/ DogMotion(m.action)
           \/ UNCHANGED <<dogLateralActive, dogLateralWatchdogStopped, lateralAge,
                          stopSent, vehicle>>
        /\ \/ /\ pendingDogActions' =
                   [i \in DOMAIN pendingDogActions \cup {id} |->
                       IF i = id THEN of ELSE pendingDogActions[i]]
              /\ inFlight' = inFlight \cup {[id |-> id, of |-> of]}
           \/ UNCHANGED <<pendingDogActions, inFlight>>
        /\ UNCHANGED <<started, activeSession, gate, awaitingFirstDrive,
                       recoverableStopPending, safetyLatched, stateAge, activeGear,
                       drives>>
    BY <1>4 DEF ForwardDogAction
  <2>2. m \in MessageType /\ m.kind = "dog" /\ activeSession \in Sessions
    BY <1>1, <2>1
  <2>3. m.req \in Nat /\ m.action \in DogActions
    BY <2>2 DEF MessageType
  <2>4. of \in Sessions \X Nat
    BY <2>2, <2>3
  <2>5. id \in Nat /\ id >= nextCompletionId
    BY AllocatedId
  <2>6. nextCompletionId \in Nat \ {0} /\ nextCompletionId' \in Nat \ {0}
        /\ id < nextCompletionId' /\ nextCompletionId <= nextCompletionId'
    BY <2>1, <2>5 DEF TypeInv, TypeOK
  <2>7. /\ DOMAIN pendingDogActions' \subseteq Nat
        /\ \A i \in DOMAIN pendingDogActions' :
              pendingDogActions'[i] \in Sessions \X Nat /\ i < nextCompletionId'
        /\ inFlight' \subseteq [id : Nat, of : Sessions \X Nat]
    <3> HIDE DEF id, of
    <3>1. CASE UNCHANGED <<pendingDogActions, inFlight>>
      BY <2>6, <3>1 DEF TypeInv, TypeOK, IdsBelowNext
    <3>2. CASE /\ pendingDogActions' =
                   [i \in DOMAIN pendingDogActions \cup {id} |->
                       IF i = id THEN of ELSE pendingDogActions[i]]
               /\ inFlight' = inFlight \cup {[id |-> id, of |-> of]}
      BY <2>4, <2>5, <2>6, <3>2 DEF TypeInv, TypeOK, IdsBelowNext
    <3> QED BY <2>1, <3>1, <3>2 DEF id, of
  <2>8. /\ dogLateralActive' \in BOOLEAN /\ dogLateralWatchdogStopped' \in BOOLEAN
        /\ lateralAge' \in 0..WatchdogMs /\ stopSent' \in BOOLEAN
        /\ vehicle' \in Vehicle
    <3>1. Stopped \in Vehicle /\ Moving("lateral") \in Vehicle /\ 0 \in 0..WatchdogMs
      BY DEF Stopped, Moving, Vehicle
    <3>2. /\ dogLateralActive \in BOOLEAN /\ dogLateralWatchdogStopped \in BOOLEAN
          /\ lateralAge \in 0..WatchdogMs /\ stopSent \in BOOLEAN /\ vehicle \in Vehicle
      BY DEF TypeInv, TypeOK
    <3>3. CASE DogMotion(m.action)
      <4>1. CASE m.action = "lateralMove"
        BY <3>1, <3>3, <4>1 DEF DogMotion
      <4>2. CASE m.action = "lateralStop"
        BY <3>1, <3>2, <3>3, <4>2 DEF DogMotion
      <4>3. CASE m.action = "goal"
        BY <3>2, <3>3, <4>3 DEF DogMotion
      <4> QED BY <2>3, <4>1, <4>2, <4>3 DEF DogActions
    <3> QED BY <2>1, <3>2, <3>3
  <2> HIDE DEF id, of
  <2> QED BY <1>1, <2>1, <2>6, <2>7, <2>8 DEF TypeInv, TypeOK, IdsBelowNext, queueVars
<1>5. CASE ProcessDogActionCompletion
  <2>1. batch' \in Seq(EventType) /\ UNCHANGED queueVars /\ pc' \in PCs
    BY <1>5, TakeType DEF ProcessDogActionCompletion, queueVars, TypeInv, TypeOK
  <2>2. /\ DOMAIN pendingDogActions' \subseteq DOMAIN pendingDogActions
        /\ \A i \in DOMAIN pendingDogActions' : pendingDogActions'[i] = pendingDogActions[i]
    BY <1>5 DEF ProcessDogActionCompletion
  <2>3. stateDirty' \in BOOLEAN
    BY <1>5 DEF ProcessDogActionCompletion, TypeInv, TypeOK
  <2>4. UNCHANGED <<started, activeSession, gate, stopSent, awaitingFirstDrive,
                    recoverableStopPending, safetyLatched, dogLateralActive, vehicle,
                    dogLateralWatchdogStopped, lateralAge, stateAge, activeGear,
                    nextCompletionId, inFlight, drives>>
    BY <1>5 DEF ProcessDogActionCompletion, latchVars
  <2> QED BY <2>1, <2>2, <2>3, <2>4 DEF TypeInv, TypeOK, IdsBelowNext, queueVars
<1> QED BY <1>2, <1>3, <1>4, <1>5

LEMMA LifecycleType == TypeInv /\ (Start \/ Shutdown) => TypeInv'
<1> SUFFICES ASSUME TypeInv, Start \/ Shutdown PROVE TypeInv'
  OBVIOUS
<1> USE DEF sessionVars, ageVars, dogVars, queueVars
<1>1. CASE Start
  <2>1. /\ started' = TRUE
        /\ UNCHANGED <<activeSession, gate, stopSent, awaitingFirstDrive,
                       recoverableStopPending, safetyLatched, dogLateralActive, vehicle>>
        /\ UNCHANGED <<dogLateralWatchdogStopped, lateralAge, stateAge, activeGear,
                       stateDirty, nextCompletionId, pendingDogActions, inFlight,
                       pendingEvents, pendingOverflow, pc, batch, drives>>
    BY <1>1 DEF Start, latchVars
  <2> QED BY <2>1 DEF TypeInv, TypeOK, IdsBelowNext
<1>2. CASE Shutdown
  <2>1. StopForSafety(gate) /\ gate \in Gate
    BY <1>2 DEF Shutdown, TypeInv, TypeOK
  <2>2. /\ gate' \in Gate
        /\ stopSent' \in BOOLEAN /\ safetyLatched' \in BOOLEAN
        /\ awaitingFirstDrive' \in BOOLEAN /\ recoverableStopPending' \in BOOLEAN
        /\ dogLateralActive' \in BOOLEAN /\ vehicle' \in Vehicle
    BY <2>1, StopType
  <2>3. /\ started' = FALSE /\ activeSession' = NoSession /\ stateDirty' = TRUE
        /\ pendingOverflow' = FALSE /\ inFlight' = {}
        /\ UNCHANGED <<dogLateralWatchdogStopped, lateralAge, stateAge, activeGear,
                       nextCompletionId, pc, batch, drives>>
    BY <1>2 DEF Shutdown
  <2>4. pendingEvents' \in Seq(EventType) /\ Len(pendingEvents') <= MaxPendingEvents
    BY <1>2, ControlAssumption DEF Shutdown
  <2>5. DOMAIN pendingDogActions' = {}
    BY <1>2 DEF Shutdown
  <2> QED BY <2>2, <2>3, <2>4, <2>5 DEF TypeInv, TypeOK, IdsBelowNext
<1> QED BY <1>1, <1>2

LEMMA InitType == Init => TypeInv
<1> SUFFICES ASSUME Init PROVE TypeInv
  OBVIOUS
<1>1. gate \in Gate
  BY GateTypes DEF Init
<1>2. vehicle \in Vehicle /\ lateralAge \in 0..WatchdogMs
  BY DEF Init, Vehicle, Stopped
<1>3. stateAge \in 0..StateIntervalMs
  BY ControlAssumption DEF Init
<1>4. /\ pendingEvents \in Seq(EventType) /\ batch \in Seq(EventType)
      /\ drives \in Seq(Nat) /\ Len(pendingEvents) <= MaxPendingEvents
  BY ControlAssumption DEF Init
<1>5. DOMAIN pendingDogActions = {}
  BY DEF Init
<1>6. /\ started \in BOOLEAN /\ stopSent \in BOOLEAN /\ safetyLatched \in BOOLEAN
      /\ awaitingFirstDrive \in BOOLEAN /\ recoverableStopPending \in BOOLEAN
      /\ dogLateralActive \in BOOLEAN /\ dogLateralWatchdogStopped \in BOOLEAN
      /\ stateDirty \in BOOLEAN /\ pendingOverflow \in BOOLEAN
  BY Zenon DEF Init
<1>7. /\ activeSession \in Sessions \cup {NoSession} /\ activeGear \in Gears
      /\ inFlight = {} /\ pc = "idle"
  BY Zenon DEF Init, Gears
<1>8. nextCompletionId \in Nat \ {0}
  BY DEF Init
<1> QED BY <1>1, <1>2, <1>3, <1>4, <1>5, <1>6, <1>7, <1>8 DEF TypeInv, TypeOK, IdsBelowNext

LEMMA StutterType == TypeInv /\ UNCHANGED vars => TypeInv'
BY DEF TypeInv, TypeOK, IdsBelowNext, vars, sessionVars, latchVars, ageVars, dogVars, queueVars

LEMMA NextType == TypeInv /\ [Next]_vars => TypeInv'
BY LifecycleType, CallbacksType, TickStepsType, PeerStepsType, DriveStepsType,
   RequestStepsType, StutterType DEF Next, Tick, ProcessEvent

\* Type correctness of the control module: every variable keeps its type, the
\* event queue its capacity, and ids of pending goals stay below the next id.
THEOREM TypeCorrect == Spec => []TypeOK
<1>1. Spec => []TypeInv
  BY InitType, NextType, PTL DEF Spec
<1>2. TypeInv => TypeOK
  BY DEF TypeInv
<1> QED BY <1>1, <1>2, PTL

-----------------------------------------------------------------------------
(* Safety: no unguarded and no overdue motion. *)

Safety == LatchConsistent /\ MotionGuarded /\ AgesAgree /\ DriveWatchdogPolled
              /\ WatchdogBound

safetyVars == <<started, activeSession, gate, stopSent, awaitingFirstDrive,
                recoverableStopPending, safetyLatched, dogLateralActive, lateralAge,
                vehicle>>

\* Neither callbacks nor any other step that leaves these variables alone can
\* break Safety, as long as it does not move the Tick forward.
LEMMA SafetyFrame ==
    ASSUME Safety, UNCHANGED safetyVars, pc' = pc
    PROVE  Safety'
BY DEF Safety, LatchConsistent, MotionGuarded, AgesAgree, DriveWatchdogPolled,
       WatchdogBound, safetyVars

\* After a stop nothing moves and everything is latched.  The stop is really sent:
\* where the module skips it, MotionGuarded says that the vehicle stands.
LEMMA StopSafety ==
    ASSUME TypeInv, Safety, NEW g \in Gate, NEW r \in BOOLEAN,
           StopFor(r, g) \/ StopForSafety(g)
    PROVE  /\ vehicle'.motion = "stopped"
           /\ safetyLatched' /\ stopSent' /\ ~dogLateralActive' /\ ~gate'.started
           /\ ~recoverableStopPending' => ~awaitingFirstDrive'
<1>1. vehicle'.motion = "stopped"
  <2>1. (vehicle' = vehicle \/ vehicle' = Stopped) /\ (~stopSent => vehicle' = Stopped)
    BY StopEffect
  <2>2. stopSent => vehicle.motion = "stopped"
    BY DEF Safety, MotionGuarded
  <2>3. Stopped.motion = "stopped"
    BY DEF Stopped
  <2> QED BY <2>1, <2>2, <2>3
<1>2. ~gate'.started
  BY StopEffect DEF GateStop, Gate
<1> QED BY <1>1, <1>2, StopEffect

\* A step that stops the vehicle establishes Safety wherever the Tick stands.
LEMMA StopEstablishes ==
    ASSUME TypeInv, Safety, NEW g \in Gate, NEW r \in BOOLEAN,
           StopFor(r, g) \/ StopForSafety(g), pc' = "idle" \/ started'
    PROVE  Safety'
BY StopSafety DEF Safety, LatchConsistent, MotionGuarded, AgesAgree,
                  DriveWatchdogPolled, WatchdogBound

LEMMA TickBeginSafety ==
    ASSUME TypeInv, Safety, NEW d \in 1..MaxElapsed, TickBegin(d)
    PROVE  Safety'
<1> USE DEF sessionVars
<1>1. d \in Nat
  BY ControlAssumption
<1>2. /\ started /\ started' /\ pc' \in {"overflow", "events"}
      /\ UNCHANGED <<activeSession, stopSent, awaitingFirstDrive,
                     recoverableStopPending, safetyLatched, dogLateralActive>>
      /\ gate' = GateAged(gate, d) /\ vehicle' = VehicleAged(vehicle, d)
      /\ lateralAge' = IF dogLateralActive THEN Aged(lateralAge, d) ELSE lateralAge
  BY DEF TickBegin
<1>3. vehicle \in Vehicle /\ gate \in Gate
  BY DEF TypeInv, TypeOK
<1>4. gate'.started = gate.started
      /\ (gate.started => gate'.age = Aged(gate.age, d))
  BY <1>2, <1>3 DEF GateAged, Gate
<1>5. vehicle'.motion = vehicle.motion
  BY <1>2, <1>3 DEF VehicleAged, Vehicle
<1>6. vehicle.motion # "stopped" => vehicle'.age = Aged(vehicle.age, d)
  BY <1>2, <1>3 DEF VehicleAged, Vehicle, Stopped
<1>7. MotionGuarded'
  BY <1>2, <1>4, <1>5 DEF Safety, MotionGuarded
<1>8. AgesAgree'
  BY <1>2, <1>4, <1>5, <1>6 DEF Safety, MotionGuarded, AgesAgree
<1>9. LatchConsistent'
  BY <1>2, <1>4 DEF Safety, LatchConsistent
<1> QED BY <1>2, <1>7, <1>8, <1>9 DEF Safety, DriveWatchdogPolled, WatchdogBound

LEMMA TickDriveWatchdogSafety ==
    ASSUME TypeInv, Safety, TickDriveWatchdog
    PROVE  Safety'
<1> USE DEF sessionVars, ageVars
<1>1. pc = "events" /\ pc' = "lateralWatchdog" /\ started' = started
      /\ activeSession' = activeSession /\ lateralAge' = lateralAge
  BY DEF TickDriveWatchdog
<1>2. started
  BY <1>1 DEF Safety, LatchConsistent
<1>3. PollGate(gate) \in Gate /\ AllowWatchdogRecovery \in BOOLEAN
      /\ gate \in Gate /\ vehicle \in Vehicle
  BY GateTypes, ControlAssumption DEF TypeInv, TypeOK
<1>4. CASE activeSession # NoSession /\ gate.started /\ PollResult(gate)
  BY <1>1, <1>2, <1>3, <1>4, StopEstablishes DEF TickDriveWatchdog
<1>5. CASE ~(activeSession # NoSession /\ gate.started /\ PollResult(gate))
  <2>1. UNCHANGED latchVars
    BY <1>5 DEF TickDriveWatchdog
  <2>2. vehicle.motion = "driving" => vehicle.age < WatchdogMs
    BY <1>3, <1>5 DEF Safety, MotionGuarded, AgesAgree, PollResult, WatchdogDue, Gate, Vehicle
  <2> QED BY <1>1, <1>2, <2>1, <2>2
          DEF Safety, LatchConsistent, MotionGuarded, AgesAgree, DriveWatchdogPolled,
              WatchdogBound, latchVars
<1> QED BY <1>4, <1>5

LEMMA TickLateralWatchdogSafety ==
    ASSUME TypeInv, Safety, TickLateralWatchdog
    PROVE  Safety'
<1> USE DEF sessionVars, ageVars
<1>1. /\ pc = "lateralWatchdog" /\ pc' = "report"
      /\ UNCHANGED <<started, activeSession, lateralAge, gate, awaitingFirstDrive,
                     recoverableStopPending, safetyLatched>>
  BY DEF TickLateralWatchdog, LateralWatchdogDue
<1>2. started /\ vehicle \in Vehicle /\ lateralAge \in 0..WatchdogMs
  BY <1>1 DEF Safety, LatchConsistent, TypeInv, TypeOK
<1>3. CASE activeSession # NoSession /\ dogLateralActive /\ lateralAge >= WatchdogMs
  <2>1. dogLateralActive' = FALSE /\ SendStopOnce
    BY <1>3 DEF TickLateralWatchdog, LateralWatchdogDue
  <2>2. vehicle'.motion = "stopped" /\ stopSent' = TRUE
    <3>1. CASE stopSent
      BY <2>1, <3>1 DEF SendStopOnce, Safety, MotionGuarded
    <3>2. CASE ~stopSent
      BY <2>1, <3>2 DEF SendStopOnce, Stopped
    <3> QED BY <3>1, <3>2, <2>1 DEF SendStopOnce
  <2> QED BY <1>1, <1>2, <2>1, <2>2
          DEF Safety, LatchConsistent, MotionGuarded, AgesAgree, DriveWatchdogPolled,
              WatchdogBound
<1>4. CASE ~(activeSession # NoSession /\ dogLateralActive /\ lateralAge >= WatchdogMs)
  <2>1. UNCHANGED <<dogLateralActive, stopSent, vehicle>>
    BY <1>4 DEF TickLateralWatchdog, LateralWatchdogDue
  <2>2. vehicle.motion # "stopped" => vehicle.age < WatchdogMs
    BY <1>1, <1>2, <1>4 DEF Safety, MotionGuarded, AgesAgree, DriveWatchdogPolled, Vehicle
  <2> QED BY <1>1, <1>2, <2>1, <2>2
          DEF Safety, LatchConsistent, MotionGuarded, AgesAgree, DriveWatchdogPolled,
              WatchdogBound
<1> QED BY <1>3, <1>4

LEMMA PeerStepsSafety ==
    ASSUME TypeInv, Safety,
           \/ HandlePeerConnected
           \/ \E t \in {"peerDisconnected", "transportDisconnected"} :
                  HandlePeerDisconnected(t)
    PROVE  Safety'
<1> USE DEF sessionVars, ageVars
<1>1. gate \in Gate
  BY DEF TypeInv, TypeOK
<1>2. CASE HandlePeerConnected
  <2>1. pc = "events" /\ pc' = pc /\ started /\ started' = started
        /\ lateralAge' = lateralAge
    BY <1>2 DEF HandlePeerConnected, Take, Safety, LatchConsistent
  <2>2. CASE activeSession # NoSession
    BY <1>2, <2>1, <2>2, SafetyFrame DEF HandlePeerConnected, safetyVars, latchVars
  <2>3. CASE activeSession = NoSession
    <3>1. vehicle' = vehicle /\ vehicle.motion = "stopped" /\ safetyLatched' = FALSE
      BY <1>2, <2>3 DEF HandlePeerConnected, Safety, MotionGuarded
    <3> QED BY <2>1, <3>1 DEF Safety, LatchConsistent, MotionGuarded, AgesAgree,
                              DriveWatchdogPolled, WatchdogBound
  <2> QED BY <2>2, <2>3
<1>3. ASSUME NEW t \in {"peerDisconnected", "transportDisconnected"},
             HandlePeerDisconnected(t)
      PROVE  Safety'
  <2>1. pc = "events" /\ pc' = pc /\ started /\ started' = started
        /\ lateralAge' = lateralAge
    BY <1>3 DEF HandlePeerDisconnected, Take, Safety, LatchConsistent
  <2>2. CASE LosesActiveSession(Head(batch))
    <3>1. StopForSafety(gate)
      BY <1>3, <2>2 DEF HandlePeerDisconnected
    <3> QED BY <1>1, <2>1, <3>1, StopEstablishes
  <2>3. CASE ~LosesActiveSession(Head(batch))
    BY <1>3, <2>1, <2>3, SafetyFrame DEF HandlePeerDisconnected, safetyVars, latchVars
  <2> QED BY <2>2, <2>3
<1> QED BY <1>2, <1>3

LEMMA DriveStepsSafety ==
    ASSUME TypeInv, Safety,
           \/ IgnoreMessage \/ RejectMalformed \/ DropDrive \/ RefuseDrive \/ ForwardDrive
           \/ \E error \in {"invalidState", "failed"} : DriveNotTaken(error)
    PROVE  Safety'
<1> USE DEF sessionVars, ageVars
<1> DEFINE m == Head(batch).msg
           v == DriveVerdict(m)
           g == IF recoverableStopPending \/ ~awaitingFirstDrive THEN gate ELSE GateStart
<1>1. gate \in Gate /\ g \in Gate
  BY GateTypes DEF TypeInv, TypeOK
<1>2. ASSUME NEW k, TakeMessage(k)
      PROVE  pc = "events" /\ pc' = pc /\ started /\ activeSession # NoSession
  BY <1>2 DEF TakeMessage, Take, Safety, LatchConsistent
<1>3. ASSUME TakeMessage("drive")
      PROVE  v.gate \in Gate /\ m.seq \in Nat
             /\ (v = Accept(g, m.seq, m.motion) \/ v = Recover(g, m.seq, m.motion))
  <2>1. m \in MessageType /\ m.kind = "drive"
    BY <1>3, TakeMessageType
  <2>2. m.seq \in Nat
    BY <2>1 DEF MessageType
  <2>3. v = Accept(g, m.seq, m.motion) \/ v = Recover(g, m.seq, m.motion)
    BY DEF DriveVerdict
  <2> QED BY <1>1, <2>2, <2>3, VerdictTypes
<1>4. CASE IgnoreMessage
  BY <1>4, SafetyFrame DEF IgnoreMessage, Take, safetyVars, latchVars
<1>5. CASE RejectMalformed
  <2>1. StopForSafety(gate) /\ started' = started /\ TakeMessage("malformed")
    BY <1>5 DEF RejectMalformed
  <2> QED BY <1>1, <1>2, <2>1, StopEstablishes
<1>6. CASE DropDrive
  <2>1. TakeMessage("drive") /\ v.status = "duplicateOrOutOfOrder" /\ gate' = v.gate
    BY <1>6 DEF DropDrive
  <2>2. UNCHANGED <<started, activeSession, stopSent, awaitingFirstDrive,
                    recoverableStopPending, safetyLatched, dogLateralActive, vehicle,
                    lateralAge>>
    BY <1>6 DEF DropDrive
  <2>3. v.gate = g /\ Replayed(g, m.seq)
    BY <1>3, <2>1 DEF Accept, Recover, Verdict
  <2>4. ~Replayed(GateStart, m.seq)
    BY DEF Replayed, GateStart
  <2>5. gate' = gate
    BY <2>1, <2>3, <2>4
  <2> QED BY <1>2, <2>1, <2>2, <2>5, SafetyFrame DEF safetyVars
<1>7. CASE RefuseDrive
  <2>1. /\ TakeMessage("drive") /\ started' = started
        /\ StopFor(AllowWatchdogRecovery /\ v.status = "watchdogExpired", v.gate)
    BY <1>7 DEF RefuseDrive
  <2> QED BY <1>2, <1>3, <2>1, StopEstablishes
<1>8. ASSUME NEW error \in {"invalidState", "failed"}, DriveNotTaken(error)
      PROVE  Safety'
  <2>1. /\ TakeMessage("drive") /\ started' = started
        /\ StopFor(AllowInterfaceRecovery /\ error = "invalidState", v.gate)
    BY <1>8 DEF DriveNotTaken
  <2> QED BY <1>2, <1>3, <2>1, StopEstablishes
<1>9. CASE ForwardDrive
  <2>1. /\ TakeMessage("drive") /\ v.status = "accepted" /\ gate' = v.gate
        /\ vehicle' \in {Moving("driving"), Stopped}
        /\ safetyLatched' = FALSE /\ stopSent' = FALSE
        /\ UNCHANGED <<started, activeSession>>
    BY <1>9 DEF ForwardDrive
  <2>2. gate' = GateReceived(g, m.seq)
    BY <1>1, <1>3, <2>1, VerdictAccepted
  <2>3. gate'.started /\ gate'.age = 0
    BY <2>2 DEF GateReceived
  <2>4. vehicle'.age = 0 /\ vehicle'.motion \in {"driving", "stopped"}
    BY <2>1 DEF Moving, Stopped
  <2>5. pc = "events" /\ pc' = pc /\ started /\ activeSession # NoSession
    BY <1>2, <2>1
  <2> QED BY <2>1, <2>3, <2>4, <2>5
          DEF Safety, LatchConsistent, MotionGuarded, AgesAgree, DriveWatchdogPolled,
              WatchdogBound
<1> QED BY <1>4, <1>5, <1>6, <1>7, <1>8, <1>9

LEMMA RequestStepsSafety ==
    ASSUME TypeInv, Safety,
           \/ \E ok \in BOOLEAN : ProcessSetGear(ok) \/ ForwardDogAction(ok)
           \/ RefuseDogAction \/ ProcessDogActionCompletion
    PROVE  Safety'
<1> USE DEF sessionVars, ageVars
<1> DEFINE m == Head(batch).msg
<1>1. ASSUME NEW ok \in BOOLEAN, ProcessSetGear(ok) PROVE Safety'
  BY <1>1, SafetyFrame DEF ProcessSetGear, TakeMessage, Take, safetyVars, latchVars
<1>2. CASE RefuseDogAction
  BY <1>2, SafetyFrame DEF RefuseDogAction, TakeMessage, Take, safetyVars, latchVars
<1>3. CASE ProcessDogActionCompletion
  BY <1>3, SafetyFrame DEF ProcessDogActionCompletion, Take, safetyVars, latchVars
<1>4. ASSUME NEW ok \in BOOLEAN, ForwardDogAction(ok) PROVE Safety'
  <2>1. /\ TakeMessage("dog") /\ ~LatchRefuses(m.action)
        /\ \/ DogMotion(m.action)
           \/ UNCHANGED <<dogLateralActive, lateralAge, stopSent, vehicle>>
        /\ UNCHANGED <<started, activeSession, gate, awaitingFirstDrive,
                       recoverableStopPending, safetyLatched>>
    BY <1>4 DEF ForwardDogAction
  <2>2. pc = "events" /\ pc' = pc /\ started /\ activeSession # NoSession
    BY <2>1 DEF TakeMessage, Take, Safety, LatchConsistent
  <2>3. m.action \in DogActions
    <3>1. m \in MessageType /\ m.kind = "dog"
      BY <2>1, TakeMessageType
    <3> QED BY <3>1 DEF MessageType
  <2>4. CASE UNCHANGED <<dogLateralActive, lateralAge, stopSent, vehicle>>
    BY <2>1, <2>2, <2>4, SafetyFrame DEF safetyVars
  <2>5. CASE DogMotion(m.action) /\ m.action = "goal"
    BY <2>1, <2>2, <2>5, SafetyFrame DEF safetyVars, DogMotion
  <2>6. CASE DogMotion(m.action) /\ m.action = "lateralMove"
    <3>1. ~safetyLatched
      BY <2>1, <2>6 DEF LatchRefuses
    <3>2. dogLateralActive' = TRUE /\ lateralAge' = 0 /\ stopSent' = FALSE
          /\ vehicle' = Moving("lateral")
      BY <2>6 DEF DogMotion
    <3>3. vehicle'.motion = "lateral" /\ vehicle'.age = 0
      BY <3>2 DEF Moving
    <3> QED BY <2>1, <2>2, <3>1, <3>2, <3>3
            DEF Safety, LatchConsistent, MotionGuarded, AgesAgree, DriveWatchdogPolled,
                WatchdogBound
  <2>7. CASE DogMotion(m.action) /\ m.action = "lateralStop"
    <3>1. dogLateralActive' = FALSE /\ stopSent' = TRUE /\ vehicle' = Stopped
      BY <2>7 DEF DogMotion
    <3>2. vehicle'.motion = "stopped"
      BY <3>1 DEF Stopped
    <3> QED BY <2>1, <2>2, <3>1, <3>2
            DEF Safety, LatchConsistent, MotionGuarded, AgesAgree, DriveWatchdogPolled,
                WatchdogBound
  <2> QED BY <2>1, <2>3, <2>4, <2>5, <2>6, <2>7 DEF DogActions
<1> QED BY <1>1, <1>2, <1>3, <1>4

LEMMA NextSafety == TypeInv /\ Safety /\ [Next]_vars => Safety'
<1> SUFFICES ASSUME TypeInv, Safety, [Next]_vars PROVE Safety'
  OBVIOUS
<1>1. gate \in Gate
  BY DEF TypeInv, TypeOK
<1>2. CASE Callbacks
  BY <1>2, SafetyFrame
     DEF Callbacks, PeerCommands, EnqueueMessage, EnqueueP2PState,
         EnqueueTransportDisconnected, EnqueueDogActionCompletion, Enqueue,
         safetyVars, sessionVars, latchVars, ageVars
<1>3. CASE Start
  <2>1. UNCHANGED <<activeSession, gate, stopSent, awaitingFirstDrive,
                    recoverableStopPending, safetyLatched, dogLateralActive, lateralAge,
                    vehicle, pc>> /\ started' = TRUE
    BY <1>3 DEF Start, latchVars, ageVars
  <2> QED BY <2>1 DEF Safety, LatchConsistent, MotionGuarded, AgesAgree,
                      DriveWatchdogPolled, WatchdogBound
<1>4. CASE Shutdown
  <2>1. StopForSafety(gate) /\ pc' = "idle"
    BY <1>4 DEF Shutdown
  <2> QED BY <1>1, <2>1, StopEstablishes
<1>5. CASE TickOverflow
  <2>1. StopForSafety(gate) /\ started' = started /\ pc = "overflow"
    BY <1>5 DEF TickOverflow, sessionVars
  <2>2. started
    BY <2>1 DEF Safety, LatchConsistent
  <2> QED BY <1>1, <2>1, <2>2, StopEstablishes
<1>6. ASSUME NEW ok \in BOOLEAN, MaybeSendState(ok) PROVE Safety'
  <2>1. UNCHANGED safetyVars /\ pc = "report" /\ pc' = "idle"
    BY <1>6 DEF MaybeSendState, safetyVars, sessionVars, latchVars
  <2> QED BY <2>1 DEF Safety, LatchConsistent, MotionGuarded, AgesAgree,
                      DriveWatchdogPolled, WatchdogBound, safetyVars
<1>7. CASE UNCHANGED vars
  BY <1>7, SafetyFrame DEF vars, safetyVars, sessionVars, latchVars, ageVars
<1> QED BY <1>2, <1>3, <1>4, <1>5, <1>6, <1>7, TickBeginSafety,
           TickDriveWatchdogSafety, TickLateralWatchdogSafety, PeerStepsSafety,
           DriveStepsSafety, RequestStepsSafety
        DEF Next, Tick, ProcessEvent

LEMMA InitSafety == Init => Safety
BY DEF Init, Safety, LatchConsistent, MotionGuarded, AgesAgree, DriveWatchdogPolled,
       WatchdogBound, Stopped, GateInit

LEMMA ControlInvariant == Spec => [](TypeInv /\ Safety)
BY InitType, InitSafety, NextType, NextSafety, PTL DEF Spec

\* In every behaviour the vehicle moves only for a present, unlatched session
\* whose stop is still owed and whose watchdog is armed.
THEOREM MotionIsGuarded == Spec => []MotionGuarded
<1>1. Safety => MotionGuarded
  BY DEF Safety
<1> QED BY <1>1, ControlInvariant, PTL

\* For every watchdog period and every scheduling of Ticks: once a Tick has polled
\* its watchdogs, no motion is older than the period.
THEOREM MotionIsFresh == Spec => []WatchdogBound
<1>1. Safety => WatchdogBound
  BY DEF Safety
<1> QED BY <1>1, ControlInvariant, PTL

-----------------------------------------------------------------------------
(* A hard latch is only left through a new session. *)

LEMMA HardLatchStep == TypeInv /\ Safety /\ [Next]_vars => HardLatchKept
<1> SUFFICES ASSUME TypeInv, Safety, [Next]_vars,
                    safetyLatched, ~recoverableStopPending, activeSession # NoSession
             PROVE  \/ safetyLatched' /\ ~recoverableStopPending'
                    \/ activeSession' = NoSession
  BY DEF HardLatchKept
<1>1. ~gate.started /\ ~awaitingFirstDrive
  BY DEF Safety, LatchConsistent
<1>2. ASSUME NEW g, StopForSafety(g)
      PROVE  safetyLatched' /\ ~recoverableStopPending'
  BY <1>2 DEF StopForSafety
<1>3. ASSUME UNCHANGED <<safetyLatched, recoverableStopPending>>
      PROVE  safetyLatched' /\ ~recoverableStopPending'
  BY <1>3
<1>4. \A m : DriveVerdict(m).status = "notStarted"
  BY <1>1 DEF DriveVerdict, Accept, Verdict
<1>5. CASE ForwardDrive \/ DropDrive \/ \E error \in {"invalidState", "failed"} : DriveNotTaken(error)
  BY <1>4, <1>5 DEF ForwardDrive, DropDrive, DriveNotTaken
<1>6. CASE RefuseDrive
  <2>1. PICK m : StopFor(AllowWatchdogRecovery /\ DriveVerdict(m).status = "watchdogExpired",
                         DriveVerdict(m).gate)
    BY <1>6 DEF RefuseDrive
  <2>2. StopForSafety(DriveVerdict(m).gate)
    BY <1>4, <2>1 DEF StopFor
  <2> QED BY <1>2, <2>2
<1>7. CASE TickDriveWatchdog
  BY <1>1, <1>3, <1>7 DEF TickDriveWatchdog, latchVars
<1>8. CASE Shutdown \/ TickOverflow \/ RejectMalformed
  BY <1>2, <1>8 DEF Shutdown, TickOverflow, RejectMalformed
<1>9. CASE HandlePeerConnected
  BY <1>3, <1>9 DEF HandlePeerConnected, latchVars
<1>10. CASE \E t \in {"peerDisconnected", "transportDisconnected"} : HandlePeerDisconnected(t)
  BY <1>2, <1>3, <1>10 DEF HandlePeerDisconnected, latchVars
<1>11. CASE Start \/ TickLateralWatchdog \/ (\E d \in 1..MaxElapsed : TickBegin(d))
            \/ (\E ok \in BOOLEAN : MaybeSendState(ok)) \/ UNCHANGED vars
  BY <1>3, <1>11 DEF Start, TickLateralWatchdog, TickBegin, MaybeSendState, vars, latchVars
<1>12. CASE IgnoreMessage \/ RefuseDogAction \/ ProcessDogActionCompletion
            \/ \E ok \in BOOLEAN : ProcessSetGear(ok) \/ ForwardDogAction(ok)
  BY <1>3, <1>12 DEF IgnoreMessage, RefuseDogAction, ProcessDogActionCompletion,
                     ProcessSetGear, ForwardDogAction, latchVars
<1>13. CASE Callbacks
  BY <1>3, <1>13 DEF Callbacks, PeerCommands, EnqueueMessage, EnqueueP2PState,
         EnqueueTransportDisconnected, EnqueueDogActionCompletion, Enqueue, latchVars
<1> QED BY <1>5, <1>6, <1>7, <1>8, <1>9, <1>10, <1>11, <1>12, <1>13 DEF Next, Tick, ProcessEvent

\* A safety stop that is not recoverable is released only by a new control session:
\* no message, watchdog or completion does, whatever the recovery options are.
THEOREM HardLatchHolds == Spec => HardLatch
<1>1. TypeInv /\ Safety /\ [Next]_vars => [HardLatchKept]_vars
  BY HardLatchStep
<1> QED BY <1>1, ControlInvariant, PTL DEF Spec, HardLatch

-----------------------------------------------------------------------------
(* The drive numbers forwarded in a session increase. *)

History == DrivesSeen /\ NoReplay

\* A step that forwards nothing keeps the history, if the gate remembers what it
\* remembered and is not readied for a fresh start.
LEMMA HistoryFrame ==
    ASSUME History, drives' = drives,
           \/ drives = <<>>
           \/ /\ gate'.hasReceived = gate.hasReceived /\ gate'.lastSeq = gate.lastSeq
              /\ ~awaitingFirstDrive' \/ recoverableStopPending'
                 \/ UNCHANGED <<awaitingFirstDrive, recoverableStopPending>>
    PROVE  History'
<1>1. CASE drives = <<>>
  <2>1. DOMAIN drives' = {}
    BY <1>1
  <2> QED BY <1>1, <2>1 DEF History, DrivesSeen, NoReplay
<1>2. CASE drives # <<>>
  BY <1>2 DEF History, DrivesSeen, NoReplay
<1> QED BY <1>1, <1>2

\* Stopping, ageing and polling a gate leave its sequence history alone.
LEMMA GateMemory ==
    ASSUME NEW g \in Gate
    PROVE  /\ GateStop(g).hasReceived = g.hasReceived /\ GateStop(g).lastSeq = g.lastSeq
           /\ PollGate(g).hasReceived = g.hasReceived /\ PollGate(g).lastSeq = g.lastSeq
           /\ \A d \in Nat : /\ GateAged(g, d).hasReceived = g.hasReceived
                              /\ GateAged(g, d).lastSeq = g.lastSeq
BY DEF GateStop, PollGate, GateAged, Gate

LEMMA StopHistory ==
    ASSUME TypeInv, History, NEW g \in Gate, NEW r \in BOOLEAN,
           StopFor(r, g) \/ StopForSafety(g), drives' = drives,
           drives = <<>> \/ (g.hasReceived = gate.hasReceived /\ g.lastSeq = gate.lastSeq)
    PROVE  History'
<1>1. gate' = GateStop(g) /\ (~awaitingFirstDrive' \/ recoverableStopPending')
  BY DEF StopFor, StopForSafety, StopForRecoverableCondition
<1> QED BY <1>1, GateMemory, HistoryFrame

LEMMA DriveStepsHistory ==
    ASSUME TypeInv, Safety, History,
           \/ DropDrive \/ RefuseDrive \/ ForwardDrive
           \/ \E error \in {"invalidState", "failed"} : DriveNotTaken(error)
    PROVE  History'
<1> DEFINE m == Head(batch).msg
           v == DriveVerdict(m)
           fresh == awaitingFirstDrive /\ ~recoverableStopPending
           g == IF fresh THEN GateStart ELSE gate
<1>1. gate \in Gate /\ g \in Gate
  BY GateTypes DEF TypeInv, TypeOK
<1>2. TakeMessage("drive")
  BY DEF DropDrive, RefuseDrive, ForwardDrive, DriveNotTaken
<1>3. m.seq \in Nat
  <2>1. m \in MessageType /\ m.kind = "drive"
    BY <1>2, TakeMessageType
  <2> QED BY <2>1 DEF MessageType
<1>4. v = Accept(g, m.seq, m.motion) \/ v = Recover(g, m.seq, m.motion)
  BY DEF DriveVerdict
<1>5. v.gate \in Gate
  BY <1>1, <1>3, <1>4, VerdictTypes
<1>6. fresh => drives = <<>>
  BY DEF History, DrivesSeen
<1>7. v.status # "accepted" => v.gate.hasReceived = g.hasReceived /\ v.gate.lastSeq = g.lastSeq
  <2>1. v.status # "accepted" => v.gate \in {g, PollGate(g), GateStop(g)}
    BY <1>4 DEF Accept, Recover, Verdict
  <2> QED BY <1>1, <2>1, GateMemory
<1>8. CASE DropDrive
  <2>1. v.status = "duplicateOrOutOfOrder" /\ gate' = v.gate
        /\ UNCHANGED <<drives, awaitingFirstDrive, recoverableStopPending>>
    BY <1>8 DEF DropDrive
  <2>2. v.status # "accepted"
    BY <2>1
  <2> QED BY <1>6, <1>7, <2>1, <2>2, HistoryFrame
<1>9. CASE RefuseDrive
  <2>1. /\ v.status # "accepted" /\ drives' = drives
        /\ StopFor(AllowWatchdogRecovery /\ v.status = "watchdogExpired", v.gate)
    BY <1>9 DEF RefuseDrive
  <2> QED BY <1>5, <1>6, <1>7, <2>1, StopHistory
<1>10. CASE v.status = "accepted"
  <2>1. v.gate = GateReceived(g, m.seq) /\ ~Replayed(g, m.seq)
    BY <1>1, <1>3, <1>4, <1>10, VerdictAccepted
  <2>2. v.gate.hasReceived /\ v.gate.lastSeq = m.seq
    BY <2>1 DEF GateReceived
  <2>3. drives \in Seq(Nat)
    BY DEF TypeInv, TypeOK
  <2>4. \A i \in DOMAIN drives : drives[i] < m.seq /\ drives[i] \in Nat
    <3>1. CASE drives = <<>>
      BY <3>1
    <3>2. CASE drives # <<>>
      <4>1. g = gate /\ gate.hasReceived /\ (\A i \in DOMAIN drives : drives[i] <= gate.lastSeq)
        BY <1>6, <3>2 DEF History, DrivesSeen
      <4>2. gate.lastSeq < m.seq /\ gate.lastSeq \in Nat
        BY <1>1, <1>3, <2>1, <4>1 DEF Replayed, Gate
      <4>3. \A i \in DOMAIN drives : drives[i] \in Nat
        BY <2>3
      <4> QED BY <1>3, <4>1, <4>2, <4>3
    <3> QED BY <3>1, <3>2
  <2>5. CASE ForwardDrive
    <3>1. gate' = v.gate /\ drives' = Append(drives, m.seq) /\ awaitingFirstDrive' = FALSE
      BY <2>5 DEF ForwardDrive
    <3>2. /\ DOMAIN drives = 1..Len(drives) /\ Len(drives) \in Nat
          /\ DOMAIN drives' = 1..(Len(drives) + 1)
          /\ drives'[Len(drives) + 1] = m.seq
          /\ \A i \in 1..Len(drives) : drives'[i] = drives[i]
      BY <1>3, <2>3, <3>1
    <3>3. \A i \in DOMAIN drives' : drives'[i] <= m.seq
      BY <1>3, <2>4, <3>2
    <3>4. NoReplay'
      <4> SUFFICES ASSUME NEW i \in DOMAIN drives', NEW j \in DOMAIN drives', i < j
                   PROVE  drives'[i] < drives'[j]
        BY DEF NoReplay
      <4>1. CASE j = Len(drives) + 1
        BY <2>4, <3>2, <4>1
      <4>2. CASE j # Len(drives) + 1
        <5>1. i \in DOMAIN drives /\ j \in DOMAIN drives
          BY <3>2, <4>2
        <5> QED BY <3>2, <5>1 DEF History, NoReplay
      <4> QED BY <4>1, <4>2
    <3> QED BY <2>2, <3>1, <3>3, <3>4 DEF History, DrivesSeen
  <2>6. ASSUME NEW error \in {"invalidState", "failed"}, DriveNotTaken(error)
        PROVE  History'
    <3>1. /\ drives' = drives
          /\ StopFor(AllowInterfaceRecovery /\ error = "invalidState", v.gate)
      BY <2>6 DEF DriveNotTaken
    <3>2. gate' = GateStop(v.gate) /\ (~awaitingFirstDrive' \/ recoverableStopPending')
      BY <3>1 DEF StopFor, StopForSafety, StopForRecoverableCondition
    <3>3. gate'.hasReceived /\ gate'.lastSeq = m.seq
      BY <1>5, <2>2, <3>2, GateMemory
    <3>4. \A i \in DOMAIN drives : drives[i] <= m.seq
      BY <1>3, <2>4
    <3> QED BY <3>1, <3>2, <3>3, <3>4 DEF History, DrivesSeen, NoReplay
  <2>7. ~DropDrive /\ ~RefuseDrive
    BY <1>10 DEF DropDrive, RefuseDrive
  <2> QED BY <2>5, <2>6, <2>7
<1>11. v.status = "accepted" \/ DropDrive \/ RefuseDrive
  BY DEF ForwardDrive, DriveNotTaken
<1> QED BY <1>8, <1>9, <1>10, <1>11

LEMMA NextHistory == TypeInv /\ Safety /\ History /\ [Next]_vars => History'
<1> SUFFICES ASSUME TypeInv, Safety, History, [Next]_vars PROVE History'
  OBVIOUS
<1>1. gate \in Gate /\ PollGate(gate) \in Gate
  BY GateTypes DEF TypeInv, TypeOK
<1>2. ASSUME UNCHANGED <<gate, drives, awaitingFirstDrive, recoverableStopPending>>
      PROVE  History'
  BY <1>2, HistoryFrame
<1>3. CASE Shutdown \/ TickOverflow \/ RejectMalformed
  <2>1. StopForSafety(gate) /\ drives' = drives
    BY <1>3 DEF Shutdown, TickOverflow, RejectMalformed
  <2> QED BY <1>1, <2>1, StopHistory
<1>4. ASSUME NEW d \in 1..MaxElapsed, TickBegin(d) PROVE History'
  <2>1. gate' = GateAged(gate, d) /\ d \in Nat
        /\ UNCHANGED <<drives, awaitingFirstDrive, recoverableStopPending>>
    BY <1>4, ControlAssumption DEF TickBegin
  <2> QED BY <1>1, <2>1, GateMemory, HistoryFrame
<1>5. CASE TickDriveWatchdog
  <2>1. drives' = drives
    BY <1>5 DEF TickDriveWatchdog
  <2>2. StopFor(AllowWatchdogRecovery, PollGate(gate)) \/ UNCHANGED latchVars
    BY <1>5 DEF TickDriveWatchdog
  <2>3. CASE UNCHANGED latchVars
    BY <1>2, <2>1, <2>3 DEF latchVars
  <2>4. CASE StopFor(AllowWatchdogRecovery, PollGate(gate))
    BY <1>1, <2>1, <2>4, StopHistory, GateMemory, ControlAssumption
  <2> QED BY <2>2, <2>3, <2>4
<1>6. CASE HandlePeerConnected
  <2>1. CASE activeSession # NoSession
    BY <1>2, <1>6, <2>1 DEF HandlePeerConnected, latchVars
  <2>2. CASE activeSession = NoSession
    <3>1. drives' = <<>>
      BY <1>6, <2>2 DEF HandlePeerConnected
    <3>2. DOMAIN drives' = {}
      BY <3>1
    <3> QED BY <3>1, <3>2 DEF History, DrivesSeen, NoReplay
  <2> QED BY <2>1, <2>2
<1>7. ASSUME NEW t \in {"peerDisconnected", "transportDisconnected"},
             HandlePeerDisconnected(t)
      PROVE  History'
  <2>1. drives' = drives /\ (StopForSafety(gate) \/ UNCHANGED latchVars)
    BY <1>7 DEF HandlePeerDisconnected
  <2>2. CASE UNCHANGED latchVars
    BY <1>2, <2>1, <2>2 DEF latchVars
  <2>3. CASE StopForSafety(gate)
    BY <1>1, <2>1, <2>3, StopHistory
  <2> QED BY <2>1, <2>2, <2>3
<1>8. CASE Start \/ TickLateralWatchdog \/ (\E ok \in BOOLEAN : MaybeSendState(ok))
           \/ UNCHANGED vars
  BY <1>2, <1>8 DEF Start, TickLateralWatchdog, MaybeSendState, vars, latchVars
<1>9. CASE IgnoreMessage \/ RefuseDogAction \/ ProcessDogActionCompletion
           \/ \E ok \in BOOLEAN : ProcessSetGear(ok) \/ ForwardDogAction(ok)
  BY <1>2, <1>9 DEF IgnoreMessage, RefuseDogAction, ProcessDogActionCompletion,
                    ProcessSetGear, ForwardDogAction, latchVars
<1>10. CASE Callbacks
  BY <1>2, <1>10 DEF Callbacks, PeerCommands, EnqueueMessage, EnqueueP2PState,
         EnqueueTransportDisconnected, EnqueueDogActionCompletion, Enqueue, latchVars
<1> QED BY <1>3, <1>4, <1>5, <1>6, <1>7, <1>8, <1>9, <1>10, DriveStepsHistory
        DEF Next, Tick, ProcessEvent

\* Within a session no drive frame is executed twice or after a newer one, whatever
\* the channel duplicates or reorders and however often the module recovers.
THEOREM DrivesIncrease == Spec => []NoReplay
<1>1. Init => History
  <2>1. Init => drives = <<>> /\ awaitingFirstDrive = FALSE
    BY DEF Init
  <2>2. drives = <<>> => DOMAIN drives = {}
    OBVIOUS
  <2> QED BY <2>1, <2>2 DEF History, DrivesSeen, NoReplay
<1>2. History => NoReplay
  BY DEF History
<1> QED BY <1>1, <1>2, NextHistory, ControlInvariant, PTL DEF Spec
-----------------------------------------------------------------------------
(* Acknowledgements.  A completion names its goal by an id only.  What makes it
   sound is that ids are never handed out twice, so whatever the module still
   remembers under an id is what the goal of that id was forwarded for. *)

Knows(id, of) ==
    /\ id < nextCompletionId
    /\ id \in DOMAIN pendingDogActions => pendingDogActions[id] = of

CompletionsKnown(q) ==
    \A i \in DOMAIN q : q[i].type = "dogCompleted" => Knows(q[i].id, q[i].of)

\* Goals still at the interface, completions waiting and completions in the batch.
GoalsKnown ==
    /\ \A goal \in inFlight : Knows(goal.id, goal.of)
    /\ CompletionsKnown(pendingEvents) /\ CompletionsKnown(batch)

AckInv == AcksSound /\ GoalsKnown

\* A step that forgets goals, or remembers one under an id not handed out before,
\* leaves what is known of every earlier id true.
LEMMA KnowledgeKept ==
    ASSUME TypeInv, nextCompletionId' \in Nat, nextCompletionId' >= nextCompletionId,
           \A id \in DOMAIN pendingDogActions' : id < nextCompletionId =>
               id \in DOMAIN pendingDogActions
               /\ pendingDogActions'[id] = pendingDogActions[id]
    PROVE  \A id \in Nat : \A of : Knows(id, of) => Knows(id, of)'
<1> nextCompletionId \in Nat
  BY DEF TypeInv, TypeOK
<1> QED BY DEF Knows

\* Completions are events of the declared shape, so their ids are numbers.
LEMMA CompletionIds ==
    ASSUME NEW q \in Seq(EventType), NEW i \in DOMAIN q, q[i].type = "dogCompleted"
    PROVE  q[i].id \in Nat
<1> q[i] \in EventType
  OBVIOUS
<1> QED BY DEF EventType

LEMMA QueueKept ==
    ASSUME NEW q \in Seq(EventType), CompletionsKnown(q),
           \A id \in Nat : \A of : Knows(id, of) => Knows(id, of)'
    PROVE  /\ \A i \in DOMAIN q : q[i].type = "dogCompleted" => Knows(q[i].id, q[i].of)'
           /\ q # <<>> => \A i \in DOMAIN Tail(q) :
                Tail(q)[i].type = "dogCompleted" => Knows(Tail(q)[i].id, Tail(q)[i].of)'
<1>1. \A i \in DOMAIN q : q[i].type = "dogCompleted" => Knows(q[i].id, q[i].of)'
  BY CompletionIds DEF CompletionsKnown
<1>2. ASSUME q # <<>>, NEW i \in DOMAIN Tail(q)
      PROVE  i + 1 \in DOMAIN q /\ Tail(q)[i] = q[i + 1]
  BY <1>2
<1> QED BY <1>1, <1>2

\* Goals, queue and batch together.
LEMMA GoalsKept ==
    ASSUME TypeInv, GoalsKnown, inFlight' \subseteq inFlight,
           \A id \in Nat : \A of : Knows(id, of) => Knows(id, of)',
           batch' = batch \/ batch' = pendingEvents \/ (batch # <<>> /\ batch' = Tail(batch)),
           pendingEvents' = pendingEvents \/ pendingEvents' = <<>>
    PROVE  GoalsKnown'
<1> batch \in Seq(EventType) /\ pendingEvents \in Seq(EventType)
    /\ inFlight \subseteq [id : Nat, of : Sessions \X Nat]
  BY DEF TypeInv, TypeOK
<1>1. \A goal \in inFlight' : Knows(goal.id, goal.of)'
  BY DEF GoalsKnown
<1>2. CompletionsKnown(batch)'
  BY QueueKept DEF GoalsKnown, CompletionsKnown
<1>3. CompletionsKnown(pendingEvents)'
  BY QueueKept DEF GoalsKnown, CompletionsKnown
<1> QED BY <1>1, <1>2, <1>3 DEF GoalsKnown

\* A callback adds one event; a completion is that of a goal the interface had.
LEMMA EnqueueKnown ==
    ASSUME TypeInv, GoalsKnown, NEW e \in EventType, Enqueue(e), inFlight' \subseteq inFlight,
           e.type = "dogCompleted" => Knows(e.id, e.of)
    PROVE  GoalsKnown'
<1>1. UNCHANGED <<nextCompletionId, pendingDogActions, batch>>
  BY DEF Enqueue
<1>2. \A id, of : Knows(id, of) <=> Knows(id, of)'
  BY <1>1 DEF Knows
<1>3. pendingEvents \in Seq(EventType)
  BY DEF TypeInv, TypeOK
<1>4. CompletionsKnown(pendingEvents)'
  <2>1. CASE pendingEvents' = <<e>>
    BY <1>2, <2>1 DEF CompletionsKnown
  <2>2. CASE pendingEvents' = Append(pendingEvents, e)
    <3>1. \A i \in DOMAIN pendingEvents' :
             \/ i \in DOMAIN pendingEvents /\ pendingEvents'[i] = pendingEvents[i]
             \/ pendingEvents'[i] = e
      BY <1>3, <2>2
    <3> QED BY <1>2, <3>1 DEF CompletionsKnown, GoalsKnown
  <2> QED BY <2>1, <2>2 DEF Enqueue
<1> QED BY <1>1, <1>2, <1>4 DEF GoalsKnown, CompletionsKnown

LEMMA CallbacksAcks == TypeInv /\ AckInv /\ Callbacks => AckInv'
<1> SUFFICES ASSUME TypeInv, AckInv, Callbacks PROVE AckInv'
  OBVIOUS
<1>1. UNCHANGED <<lastAck, pendingDogActions, activeSession>>
  BY DEF Callbacks, PeerCommands, EnqueueMessage, EnqueueP2PState,
         EnqueueTransportDisconnected, EnqueueDogActionCompletion, Enqueue, sessionVars
<1>2. AcksSound'
  BY <1>1 DEF AckInv, AcksSound, AckMatchesGoal, PendingBelongsToSession
<1>3. CASE PeerCommands
  <2> PICK s \in Sessions, msg \in Messages : EnqueueMessage(s, msg)
    BY <1>3 DEF PeerCommands
  <2>1. [type |-> "message", from |-> s, msg |-> msg] \in EventType
    BY DEF EventType
  <2> QED BY <2>1, <1>2, EnqueueKnown DEF EnqueueMessage, AckInv
<1>4. ASSUME NEW s \in Sessions, NEW t \in {"peerConnected", "peerDisconnected"},
             EnqueueP2PState(s, t)
      PROVE  AckInv'
  <2>1. [type |-> t, from |-> s] \in EventType
    BY DEF EventType
  <2> QED BY <1>2, <1>4, <2>1, EnqueueKnown DEF EnqueueP2PState, AckInv
<1>5. CASE EnqueueTransportDisconnected
  <2>1. [type |-> "transportDisconnected"] \in EventType
    BY DEF EventType
  <2> QED BY <1>2, <1>5, <2>1, EnqueueKnown DEF EnqueueTransportDisconnected, AckInv
<1>6. ASSUME NEW goal \in inFlight, EnqueueDogActionCompletion(goal)
      PROVE  AckInv'
  <2>1. goal \in [id : Nat, of : Sessions \X Nat]
    BY DEF TypeInv, TypeOK
  <2>2. [type |-> "dogCompleted", id |-> goal.id, of |-> goal.of] \in EventType
    BY <2>1 DEF EventType
  <2>3. Knows(goal.id, goal.of)
    BY DEF AckInv, GoalsKnown
  <2> QED BY <1>2, <1>6, <2>2, <2>3, EnqueueKnown DEF EnqueueDogActionCompletion, AckInv
<1> QED BY <1>3, <1>4, <1>5, <1>6 DEF Callbacks

\* A goal is handed to the interface under an id that no earlier goal had.
LEMMA ForwardDogActionAcks ==
    ASSUME TypeInv, AckInv, NEW ok \in BOOLEAN, ForwardDogAction(ok)
    PROVE  AckInv'
<1> DEFINE id == AllocateDogActionCompletionId
           of == <<activeSession, Head(batch).msg.req>>
<1>1. /\ nextCompletionId' = id + 1
      /\ \/ /\ pendingDogActions' =
                 [i \in DOMAIN pendingDogActions \cup {id} |->
                     IF i = id THEN of ELSE pendingDogActions[i]]
            /\ inFlight' = inFlight \cup {[id |-> id, of |-> of]}
         \/ UNCHANGED <<pendingDogActions, inFlight>>
      /\ UNCHANGED <<activeSession, lastAck, pendingEvents>>
  BY DEF ForwardDogAction, TakeMessage, Take, queueVars, sessionVars
<1>2. batch # <<>> /\ batch' = Tail(batch)
  BY DEF ForwardDogAction, TakeMessage, Take
<1>3. id \in Nat /\ id >= nextCompletionId /\ nextCompletionId \in Nat
  BY AllocatedId DEF TypeInv, TypeOK
<1> HIDE DEF id
<1>4. \A i \in Nat : \A o : Knows(i, o) => Knows(i, o)'
  BY <1>1, <1>3, KnowledgeKept
<1>5. AcksSound'
  <2>1. of[1] = activeSession
    OBVIOUS
  <2> HIDE DEF of
  <2> QED BY <1>1, <2>1 DEF AckInv, AcksSound, AckMatchesGoal, PendingBelongsToSession
<1>6. GoalsKnown'
  <2>1. batch \in Seq(EventType) /\ pendingEvents \in Seq(EventType)
        /\ inFlight \subseteq [id : Nat, of : Sessions \X Nat]
    BY DEF TypeInv, TypeOK
  <2>2. CompletionsKnown(batch)' /\ CompletionsKnown(pendingEvents)'
    BY <1>1, <1>2, <1>4, <2>1, QueueKept DEF AckInv, GoalsKnown, CompletionsKnown
  <2>3. ASSUME NEW goal \in inFlight' PROVE Knows(goal.id, goal.of)'
    <3>1. CASE goal \in inFlight
      BY <1>4, <2>1, <3>1 DEF AckInv, GoalsKnown
    <3>2. CASE goal = [id |-> id, of |-> of] /\ goal \notin inFlight
      <4>1. pendingDogActions'[id] = of /\ goal.id = id /\ goal.of = of
        BY <1>1, <3>2
      <4> QED BY <1>1, <1>3, <4>1 DEF Knows
    <3> QED BY <1>1, <3>1, <3>2
  <2> QED BY <2>2, <2>3 DEF GoalsKnown
<1> QED BY <1>5, <1>6 DEF AckInv

LEMMA ProcessDogActionCompletionAcks ==
    ASSUME TypeInv, AckInv, ProcessDogActionCompletion
    PROVE  AckInv'
<1> DEFINE e == Head(batch)
<1>1. /\ batch # <<>> /\ batch' = Tail(batch) /\ e.type = "dogCompleted"
      /\ UNCHANGED <<activeSession, pendingEvents, nextCompletionId, inFlight>>
  BY DEF ProcessDogActionCompletion, Take, queueVars, sessionVars
<1>2. /\ DOMAIN pendingDogActions' \subseteq DOMAIN pendingDogActions
      /\ \A i \in DOMAIN pendingDogActions' : pendingDogActions'[i] = pendingDogActions[i]
  BY DEF ProcessDogActionCompletion
<1>3. \A i \in Nat : \A o : Knows(i, o) => Knows(i, o)'
  BY <1>1, <1>2, KnowledgeKept DEF TypeInv, TypeOK
<1>4. GoalsKnown'
  BY <1>1, <1>3, GoalsKept DEF AckInv
<1>5. Knows(e.id, e.of)
  <2>1. batch \in Seq(EventType)
    BY DEF TypeInv, TypeOK
  <2>2. 1 \in DOMAIN batch /\ e = batch[1]
    BY <1>1, <2>1
  <2> QED BY <1>1, <2>2 DEF AckInv, GoalsKnown, CompletionsKnown
<1>6. \/ lastAck' = lastAck
      \/ e.id \in DOMAIN pendingDogActions /\ lastAck' = <<pendingDogActions[e.id], e.of>>
  BY DEF ProcessDogActionCompletion
<1>7. AckMatchesGoal'
  BY <1>5, <1>6 DEF Knows, AckInv, AcksSound, AckMatchesGoal
<1>8. PendingBelongsToSession'
  BY <1>1, <1>2 DEF AckInv, AcksSound, PendingBelongsToSession
<1> QED BY <1>4, <1>7, <1>8 DEF AckInv, AcksSound

\* The steps that neither enqueue, forward nor complete a goal.
LEMMA OtherStepsAcks ==
    ASSUME TypeInv, AckInv,
           inFlight' \subseteq inFlight, UNCHANGED <<nextCompletionId, lastAck>>,
           batch' = batch \/ batch' = pendingEvents \/ (batch # <<>> /\ batch' = Tail(batch)),
           pendingEvents' = pendingEvents \/ pendingEvents' = <<>>,
           \/ pendingDogActions' = <<>>
           \/ pendingDogActions' = pendingDogActions
              /\ (activeSession' = activeSession \/ activeSession = NoSession)
    PROVE  AckInv'
<1>1. <<>> = [i \in {} |-> {}] /\ DOMAIN <<>> = {}
  OBVIOUS
<1>2. nextCompletionId \in Nat
  BY DEF TypeInv, TypeOK
<1>3. \A i \in Nat : \A o : Knows(i, o) => Knows(i, o)'
  <2>1. \A i \in DOMAIN pendingDogActions' : i \in DOMAIN pendingDogActions
                                              /\ pendingDogActions'[i] = pendingDogActions[i]
    BY <1>1
  <2>2. nextCompletionId' \in Nat /\ nextCompletionId' >= nextCompletionId
    BY <1>2
  <2>3. \A i \in DOMAIN pendingDogActions' : i < nextCompletionId =>
           i \in DOMAIN pendingDogActions /\ pendingDogActions'[i] = pendingDogActions[i]
    BY <2>1
  <2> QED BY <2>2, <2>3, KnowledgeKept, Zenon
<1>4. GoalsKnown'
  BY <1>3, GoalsKept DEF AckInv
<1>5. activeSession = NoSession => DOMAIN pendingDogActions = {}
  <2>1. \A i \in DOMAIN pendingDogActions : pendingDogActions[i] \in Sessions \X Nat
    BY DEF TypeInv, TypeOK
  <2>2. \A i \in DOMAIN pendingDogActions : pendingDogActions[i][1] \in Sessions
    BY <2>1
  <2>3. \A i \in DOMAIN pendingDogActions : pendingDogActions[i][1] = activeSession
    BY DEF AckInv, AcksSound, PendingBelongsToSession
  <2> QED BY <2>2, <2>3, ControlAssumption
<1>6. PendingBelongsToSession'
  BY <1>1, <1>5 DEF AckInv, AcksSound, PendingBelongsToSession
<1> QED BY <1>4, <1>6 DEF AckInv, AcksSound, AckMatchesGoal

LEMMA NextAcks == TypeInv /\ AckInv /\ [Next]_vars => AckInv'
<1> SUFFICES ASSUME TypeInv, AckInv, [Next]_vars PROVE AckInv'
  OBVIOUS
<1> USE DEF sessionVars, dogVars, queueVars
<1>1. CASE Start \/ UNCHANGED vars
  BY <1>1, OtherStepsAcks DEF Start, vars
<1>2. CASE Shutdown
  BY <1>2, OtherStepsAcks DEF Shutdown
<1>3. CASE \/ \E d \in 1..MaxElapsed : TickBegin(d)
           \/ TickOverflow \/ TickDriveWatchdog \/ TickLateralWatchdog
           \/ \E ok \in BOOLEAN : MaybeSendState(ok)
  BY <1>3, OtherStepsAcks DEF TickBegin, TickOverflow, TickDriveWatchdog,
                              TickLateralWatchdog, MaybeSendState
<1>4. CASE HandlePeerConnected
  BY <1>4, OtherStepsAcks DEF HandlePeerConnected, Take
<1>5. ASSUME NEW t \in {"peerDisconnected", "transportDisconnected"}, HandlePeerDisconnected(t)
      PROVE  AckInv'
  <2>1. \/ pendingDogActions' = <<>>
        \/ UNCHANGED <<pendingDogActions, activeSession>>
    BY <1>5 DEF HandlePeerDisconnected
  <2> QED BY <1>5, <2>1, OtherStepsAcks DEF HandlePeerDisconnected, Take
<1>6. CASE IgnoreMessage \/ RejectMalformed \/ RefuseDogAction
           \/ \E ok \in BOOLEAN : ProcessSetGear(ok)
  BY <1>6, OtherStepsAcks
     DEF IgnoreMessage, RejectMalformed, RefuseDogAction, ProcessSetGear, TakeMessage, Take
<1>7. CASE DropDrive \/ RefuseDrive \/ ForwardDrive
           \/ \E error \in {"invalidState", "failed"} : DriveNotTaken(error)
  BY <1>7, OtherStepsAcks
     DEF DropDrive, RefuseDrive, ForwardDrive, DriveNotTaken, TakeMessage, Take
<1> QED BY <1>1, <1>2, <1>3, <1>4, <1>5, <1>6, <1>7, CallbacksAcks,
           ForwardDogActionAcks, ProcessDogActionCompletionAcks
        DEF Next, Tick, ProcessEvent

LEMMA AckInvariant == Spec => []AckInv
<1>1. Init => AckInv
  <2> SUFFICES ASSUME Init PROVE AckInv
    OBVIOUS
  <2>1. DOMAIN <<>> = {}
    OBVIOUS
  <2> QED BY <2>1 DEF Init, AckInv, AcksSound, AckMatchesGoal, PendingBelongsToSession,
                      GoalsKnown, CompletionsKnown
<1> QED BY <1>1, NextAcks, ControlInvariant, PTL DEF Spec

\* The completion of a goal is acknowledged for the request and to the session the
\* goal was forwarded for, however late it comes and whoever controls the vehicle by
\* then; goals of an ended session are forgotten with it.
THEOREM AcksAreSound == Spec => []AcksSound
BY AckInvariant, PTL DEF AckInv

-----------------------------------------------------------------------------
(* What the controlling peer knows.  Not only between Ticks: at every step, the
   state is marked for sending or is the one that was last sent. *)

StateKnown == activeSession # NoSession /\ ~stateDirty => reported = CurrentState

LEMMA NextKnown == TypeInv /\ StateKnown /\ [Next]_vars => StateKnown'
<1> SUFFICES ASSUME TypeInv, StateKnown, [Next]_vars PROVE StateKnown'
  OBVIOUS
<1> USE DEF sessionVars, latchVars
<1>1. ASSUME UNCHANGED <<activeSession, activeGear, safetyLatched, dogLateralWatchdogStopped,
                         stateDirty, reported>>,
             gate'.lastSeq = gate.lastSeq
      PROVE  StateKnown'
  BY <1>1 DEF StateKnown, CurrentState
<1>2. CASE Start \/ IgnoreMessage \/ UNCHANGED vars
  BY <1>1, <1>2 DEF Start, IgnoreMessage, vars
<1>3. CASE Shutdown \/ TickOverflow \/ RejectMalformed \/ RefuseDrive \/ ForwardDrive
           \/ (\E error \in {"invalidState", "failed"} : DriveNotTaken(error))
           \/ (\E ok \in BOOLEAN : ProcessSetGear(ok) \/ ForwardDogAction(ok))
  <2>1. stateDirty' = TRUE
    BY <1>3 DEF Shutdown, TickOverflow, RejectMalformed, RefuseDrive, ForwardDrive,
                DriveNotTaken, ProcessSetGear, ForwardDogAction
  <2> QED BY <2>1 DEF StateKnown
<1>4. ASSUME NEW d \in 1..MaxElapsed, TickBegin(d) PROVE StateKnown'
  <2>1. gate'.lastSeq = gate.lastSeq
    BY <1>4 DEF TickBegin, GateAged, TypeInv, TypeOK, Gate
  <2> QED BY <1>1, <1>4, <2>1 DEF TickBegin
<1>5. CASE TickDriveWatchdog
  <2>1. stateDirty' = TRUE \/ UNCHANGED <<latchVars, stateDirty>>
    BY <1>5 DEF TickDriveWatchdog
  <2> QED BY <1>1, <1>5, <2>1 DEF TickDriveWatchdog, StateKnown
<1>6. CASE TickLateralWatchdog
  <2>1. stateDirty' = TRUE \/ UNCHANGED <<dogLateralWatchdogStopped, stateDirty>>
    BY <1>6 DEF TickLateralWatchdog
  <2> QED BY <1>1, <1>6, <2>1 DEF TickLateralWatchdog, StateKnown
<1>7. ASSUME NEW ok \in BOOLEAN, MaybeSendState(ok) PROVE StateKnown'
  <2>1. reported' = CurrentState \/ UNCHANGED <<stateDirty, reported>>
    BY <1>7 DEF MaybeSendState
  <2>2. CurrentState' = CurrentState /\ activeSession' = activeSession
    BY <1>7 DEF MaybeSendState, CurrentState
  <2> QED BY <2>1, <2>2 DEF StateKnown
<1>8. CASE HandlePeerConnected
  <2>1. stateDirty' = TRUE
        \/ UNCHANGED <<activeSession, latchVars, dogLateralWatchdogStopped, stateDirty>>
    BY <1>8 DEF HandlePeerConnected
  <2> QED BY <1>1, <1>8, <2>1 DEF HandlePeerConnected, StateKnown
<1>9. ASSUME NEW t \in {"peerDisconnected", "transportDisconnected"}, HandlePeerDisconnected(t)
      PROVE  StateKnown'
  <2>1. activeSession' = NoSession \/ UNCHANGED <<activeSession, latchVars, stateDirty>>
    BY <1>9 DEF HandlePeerDisconnected
  <2> QED BY <1>1, <1>9, <2>1 DEF HandlePeerDisconnected, StateKnown
<1>10. CASE DropDrive
  <2> DEFINE msg == Head(batch).msg
             g == IF awaitingFirstDrive THEN GateStart ELSE gate
  <2>1. /\ DriveVerdict(msg).status = "duplicateOrOutOfOrder"
        /\ gate' = DriveVerdict(msg).gate
        /\ UNCHANGED <<activeSession, activeGear, safetyLatched, dogLateralWatchdogStopped,
                       stateDirty, reported>>
    BY <1>10 DEF DropDrive
  <2>2. CASE recoverableStopPending
    BY <1>1, <2>1, <2>2 DEF DriveVerdict, Recover, Verdict
  <2>3. CASE ~recoverableStopPending
    <3>1. Accept(g, msg.seq, msg.motion).status = "duplicateOrOutOfOrder"
          /\ gate' = Accept(g, msg.seq, msg.motion).gate
      BY <2>1, <2>3 DEF DriveVerdict
    <3>2. Replayed(g, msg.seq) /\ gate' = g
      BY <3>1 DEF Accept, Verdict
    <3>3. ~GateStart.hasReceived
      BY DEF GateStart
    <3>4. gate' = gate
      BY <3>2, <3>3 DEF Replayed
    <3> QED BY <1>1, <2>1, <3>4
  <2> QED BY <2>2, <2>3
<1>11. CASE RefuseDogAction
  <2>1. stateDirty' = TRUE \/ UNCHANGED stateDirty
    BY <1>11 DEF RefuseDogAction
  <2> QED BY <1>1, <1>11, <2>1 DEF RefuseDogAction, StateKnown
<1>12. CASE ProcessDogActionCompletion
  <2>1. stateDirty' = TRUE \/ UNCHANGED stateDirty
    BY <1>12 DEF ProcessDogActionCompletion
  <2> QED BY <1>1, <1>12, <2>1 DEF ProcessDogActionCompletion, StateKnown
<1>13. CASE Callbacks
  BY <1>1, <1>13 DEF Callbacks, PeerCommands, EnqueueMessage, EnqueueP2PState,
         EnqueueTransportDisconnected, EnqueueDogActionCompletion, Enqueue
<1> QED BY <1>2, <1>3, <1>4, <1>5, <1>6, <1>7, <1>8, <1>9, <1>10, <1>11, <1>12, <1>13
        DEF Next, Tick, ProcessEvent

\* Between Ticks what was last sent to the controlling peer is what holds, or the
\* state is marked for sending: no handler changes the state without marking it, and
\* a send that fails leaves the mark.
THEOREM PeerIsInformed == Spec => []PeerInformed
<1>1. Init => StateKnown
  BY DEF Init, StateKnown
<1>2. StateKnown => PeerInformed
  BY DEF StateKnown, PeerInformed
<1> QED BY <1>1, <1>2, NextKnown, ControlInvariant, PTL DEF Spec
=============================================================================
