-------------------------- MODULE DriveCommandGate --------------------------
(***************************************************************************)
(* The sequence and watchdog gate for real-time drive frames (class        *)
(* DriveCommandGate of client/protocols/vehicle).  The class is sequential *)
(* and every method is a function of its fields, so the module has no      *)
(* variables: a gate is a record and a method is an operator returning the *)
(* next gate, or a record [gate, status, shouldStop] like the code's       *)
(* DriveReceiveResult.                                                     *)
(*                                                                         *)
(* The code keeps last_valid_command_ms_ and compares now - last with      *)
(* watchdog_ms_.  The clock is steady, so only the difference matters:     *)
(* `age' is that difference, saturated at WatchdogMs.                      *)
(***************************************************************************)
EXTENDS Naturals

CONSTANT WatchdogMs    \* watchdog_ms_, in units of the shortest loop period

\* A watchdog of 0 is replaced by the default in the constructor.
ASSUME WatchdogAssumption == WatchdogMs \in Nat \ {0}

Gate == [started : BOOLEAN, watchdogStopped : BOOLEAN,
         hasReceived : BOOLEAN, lastSeq : Nat, age : 0..WatchdogMs]

\* What the payload of a drive frame asks for.  "invalid" fails
\* ValidateDriveCommand (a throttle or brake that is out of range, NaN or Inf).
DriveMotions == {"move", "halt", "invalid"}

GateInit == [started |-> FALSE, watchdogStopped |-> TRUE,
             hasReceived |-> FALSE, lastSeq |-> 0, age |-> 0]

\* Start forgets the sequence history of whatever session came before.
GateStart == [started |-> TRUE, watchdogStopped |-> FALSE,
              hasReceived |-> FALSE, lastSeq |-> 0, age |-> 0]

\* Stop keeps the sequence history: Recover needs it.
GateStop(g) == [g EXCEPT !.started = FALSE, !.watchdogStopped = TRUE]

\* An age after d more units of time.
Aged(age, d) == IF age + d >= WatchdogMs THEN WatchdogMs ELSE age + d

\* The age of a gate that is not started is never looked at: Start and Recover
\* set last_valid_command_ms_ anew.
GateAged(g, d) == IF g.started THEN [g EXCEPT !.age = Aged(g.age, d)] ELSE g

WatchdogDue(g) == g.age >= WatchdogMs

\* PollWatchdog: its result, and the gate it leaves.
PollResult(g) == IF g.started THEN WatchdogDue(g) ELSE g.watchdogStopped

PollGate(g) == IF g.started /\ WatchdogDue(g) THEN GateStop(g) ELSE g

Verdict(g, status, stop) == [gate |-> g, status |-> status, shouldStop |-> stop]

\* A frame whose number is not larger than that of the last accepted one.
Replayed(g, seq) == g.hasReceived /\ seq <= g.lastSeq

GateReceived(g, seq) == [started |-> TRUE, watchdogStopped |-> FALSE,
                         hasReceived |-> TRUE, lastSeq |-> seq, age |-> 0]

\* Mutant: a duplicate frame feeds the watchdog.
AcceptFedByReplays(g, seq, motion) ==
    IF ~g.started             THEN Verdict(g, "notStarted", TRUE)
    ELSE IF PollResult(g)     THEN Verdict(PollGate(g), "watchdogExpired", TRUE)
    ELSE IF Replayed(g, seq)  THEN Verdict([g EXCEPT !.age = 0], "duplicateOrOutOfOrder", FALSE)
    ELSE IF motion = "invalid" THEN Verdict(GateStop(g), "invalidCommand", TRUE)
    ELSE Verdict(GateReceived(g, seq), "accepted", FALSE)

Accept(g, seq, motion) ==
    IF ~g.started             THEN Verdict(g, "notStarted", TRUE)
    ELSE IF PollResult(g)     THEN Verdict(PollGate(g), "watchdogExpired", TRUE)
    ELSE IF Replayed(g, seq)  THEN Verdict(g, "duplicateOrOutOfOrder", FALSE)
    ELSE IF motion = "invalid" THEN Verdict(GateStop(g), "invalidCommand", TRUE)
    ELSE Verdict(GateReceived(g, seq), "accepted", FALSE)

Recover(g, seq, motion) ==
    IF g.started \/ ~g.watchdogStopped THEN Verdict(g, "notStarted", TRUE)
    ELSE IF Replayed(g, seq)  THEN Verdict(g, "duplicateOrOutOfOrder", FALSE)
    ELSE IF motion = "invalid" THEN Verdict(g, "invalidCommand", TRUE)
    ELSE Verdict(GateReceived(g, seq), "accepted", FALSE)
=============================================================================
