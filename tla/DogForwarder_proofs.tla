------------------------ MODULE DogForwarder_proofs ------------------------
(***************************************************************************)
(* Proofs about DogForwarder, for every value of its constants.            *)
(*                                                                         *)
(* The io thread's methods are operators from the record `io' to the       *)
(* record `io', so the lemmas are about operators: x is the record before, *)
(* y the one after, q the queue of ready handlers, r the robot.            *)
(***************************************************************************)
EXTENDS DogForwarder, TLAPS

USE ForwarderAssumption

-----------------------------------------------------------------------------
(* Sequences. *)

\* The first element, and where the others are found in the rest.
LEMMA TailOf ==
    ASSUME NEW S, NEW q \in Seq(S), q # <<>>
    PROVE  /\ Tail(q) \in Seq(S) /\ 1 \in DOMAIN q /\ Head(q) = q[1] /\ Head(q) \in S
           /\ \A i \in DOMAIN Tail(q) : i + 1 \in DOMAIN q /\ Tail(q)[i] = q[i + 1]
                                        /\ i \in Nat \ {0}
           /\ \A i \in DOMAIN q : i # 1 => i - 1 \in DOMAIN Tail(q) /\ Tail(q)[i - 1] = q[i]
OBVIOUS

\* The last element, and the others where they were.
LEMMA AppendOf ==
    ASSUME NEW S, NEW q \in Seq(S), NEW e \in S
    PROVE  /\ Append(q, e) \in Seq(S)
           /\ Len(q) + 1 \in DOMAIN Append(q, e) /\ Append(q, e)[Len(q) + 1] = e
           /\ \A i \in DOMAIN q : i \in DOMAIN Append(q, e) /\ Append(q, e)[i] = q[i]
                                  /\ i \in Nat /\ i < Len(q) + 1
           /\ \A i \in DOMAIN Append(q, e) : i = Len(q) + 1 \/ i \in DOMAIN q
OBVIOUS

\* A frame put in front of a queue moves the others up by one.
LEMMA PushOf ==
    ASSUME NEW S, NEW q \in Seq(S), NEW e \in S
    PROVE  /\ <<e>> \o q \in Seq(S)
           /\ (<<e>> \o q)[1] = e
           /\ \A i \in DOMAIN (<<e>> \o q) :
                 i \in Nat /\ (i # 1 => i - 1 \in DOMAIN q /\ (<<e>> \o q)[i] = q[i - 1])
           /\ \A i \in DOMAIN q : i + 1 \in DOMAIN (<<e>> \o q) /\ (<<e>> \o q)[i + 1] = q[i]
OBVIOUS

-----------------------------------------------------------------------------
(* The record of the io thread and what each method does to it. *)

Fields == {"gen", "connected", "stopping", "finished", "open", "pending", "active",
           "ops", "timers", "goals", "initial", "answers", "exit"}

IoOK(x) ==
    /\ DOMAIN x = Fields
    /\ x.gen \in Nat /\ x.connected \in BOOLEAN /\ x.open \in BOOLEAN
    /\ x.stopping \in BOOLEAN /\ x.finished \in BOOLEAN
    /\ x.pending \in Seq(Frame) /\ x.active \in Frame \cup {NoFrame}
    /\ x.ops \subseteq Ops /\ x.timers \subseteq Timers
    /\ DOMAIN x.goals \subseteq Nat /\ \A id \in DOMAIN x.goals : x.goals[id] \in Nat
    /\ x.initial \in {"none", "failed", "connected"}
    /\ x.answers \in [1..MaxGoals -> Nat]
    /\ x.exit \in {"none", "written", "timeout", "failure", "notConnected"}

\* y differs from x in timers, goals, answers and initial at most.
Quiet(x, y) ==
    /\ y.gen = x.gen /\ y.connected = x.connected /\ y.open = x.open
    /\ y.stopping = x.stopping /\ y.finished = x.finished /\ y.exit = x.exit
    /\ y.pending = x.pending /\ y.active = x.active /\ y.ops = x.ops

\* Goals are as they were.
SameGoals(x, y) == y.goals = x.goals /\ y.answers = x.answers

\* The connection of x is gone: a later generation begins with nothing queued.
Severed(x, y) ==
    /\ y.gen > x.gen /\ ~y.connected /\ y.pending = <<>> /\ y.active = NoFrame
    /\ y.ops \subseteq {"handshake"} /\ (y.ops # {} => y.open /\ ~y.finished)
    /\ y.exit # "none" => y.finished
    /\ y.stopping => y.finished

\* Every pending goal is reported, and none is left.
GoalsFailed(x, y) ==
    /\ DOMAIN y.goals = {}
    /\ DOMAIN y.answers = DOMAIN x.answers
    /\ \A r \in DOMAIN x.answers :
         y.answers[r] = IF r \in {x.goals[id] : id \in DOMAIN x.goals}
                        THEN x.answers[r] + 1 ELSE x.answers[r]

LEMMA FrameTypes ==
    /\ NoFrame \notin Frame
    /\ \A kind \in FrameKinds : FrameOf(kind) \in Frame /\ FrameOf(kind).kind = kind
    /\ \A f \in Frame : f.kind \in FrameKinds /\ f.n \in Nat
    /\ NoFrame.kind = "none"
    /\ FrameKinds = {"move", "stop", "zero", "subscribe", "bootUp", "goal", "pong"}
BY DEF FrameOf, Frame, FrameKinds, NoFrame

LEMMA TimerTypes ==
    /\ Reconnect \in Timers /\ ShutdownTimer \in Timers
    /\ \A n \in Nat : Operation(n) \in Timers /\ GoalTimer(n) \in Timers
BY DEF Reconnect, ShutdownTimer, Operation, GoalTimer, Timers

LEMMA AnswerOf ==
    ASSUME NEW x, NEW S, IoOK(x)
    PROVE  /\ IoOK(Answer(x, S)) /\ Quiet(x, Answer(x, S)) /\ Answer(x, S).goals = x.goals
           /\ Answer(x, S).timers = x.timers /\ Answer(x, S).initial = x.initial
           /\ \A r \in 1..MaxGoals :
                Answer(x, S).answers[r] = IF r \in S THEN x.answers[r] + 1 ELSE x.answers[r]
<1> DEFINE f == [r \in DOMAIN x.answers |-> IF r \in S THEN x.answers[r] + 1 ELSE x.answers[r]]
<1>1. Answer(x, S) = [x EXCEPT !.answers = f]
  BY DEF Answer
<1>2. f \in [1..MaxGoals -> Nat] /\ DOMAIN x.answers = 1..MaxGoals
  BY DEF IoOK
<1> HIDE DEF f
<1>3. Answer(x, S).answers = f
  BY <1>1 DEF IoOK, Fields
<1>4. /\ IoOK(Answer(x, S)) /\ Quiet(x, Answer(x, S)) /\ Answer(x, S).goals = x.goals
      /\ Answer(x, S).timers = x.timers /\ Answer(x, S).initial = x.initial
  BY <1>1, <1>2 DEF IoOK, Fields, Quiet
<1> QED BY <1>2, <1>3, <1>4 DEF f

LEMMA FailPendingOf ==
    ASSUME NEW x, IoOK(x)
    PROVE  LET y == FailPendingBehaviorGoals(x) IN
           IoOK(y) /\ Quiet(x, y) /\ GoalsFailed(x, y) /\ y.initial = x.initial
                   /\ y.timers \subseteq x.timers
<1> DEFINE z == Answer(x, {x.goals[id] : id \in DOMAIN x.goals})
           y == FailPendingBehaviorGoals(x)
<1>1. /\ IoOK(z) /\ Quiet(x, z) /\ z.goals = x.goals
      /\ z.timers = x.timers /\ z.initial = x.initial
      /\ \A r \in 1..MaxGoals : z.answers[r] =
            IF r \in {x.goals[id] : id \in DOMAIN x.goals} THEN x.answers[r] + 1 ELSE x.answers[r]
  BY AnswerOf
<1>2. y = [z EXCEPT !.goals = <<>>, !.timers = WithoutGoalTimers(@)]
  BY DEF FailPendingBehaviorGoals
<1>3. DOMAIN z.answers = 1..MaxGoals /\ DOMAIN x.answers = 1..MaxGoals
  BY <1>1 DEF IoOK
<1> HIDE DEF z, y
<1>4. IoOK(y) /\ Quiet(z, y) /\ y.goals = <<>> /\ y.answers = z.answers
      /\ y.initial = z.initial /\ y.timers \subseteq z.timers
  BY <1>1, <1>2 DEF IoOK, Fields, Quiet, WithoutGoalTimers
<1>5. DOMAIN <<>> = {}
  OBVIOUS
<1>6. GoalsFailed(x, y)
  BY <1>1, <1>3, <1>4, <1>5 DEF GoalsFailed
<1>7. Quiet(x, y)
  BY <1>1, <1>4 DEF Quiet
<1> QED BY <1>1, <1>4, <1>6, <1>7 DEF y

\* One goal is reported and forgotten, if it is still pending.
Completed(x, y, id) ==
    IF id \notin DOMAIN x.goals THEN y = x
    ELSE /\ DOMAIN y.goals = DOMAIN x.goals \ {id}
         /\ \A i \in DOMAIN y.goals : y.goals[i] = x.goals[i]
         /\ \A r \in 1..MaxGoals :
              y.answers[r] = IF r = x.goals[id] THEN x.answers[r] + 1 ELSE x.answers[r]

LEMMA CompleteOf ==
    ASSUME NEW x, NEW id, IoOK(x)
    PROVE  LET y == CompleteBehaviorGoal(x, id) IN
           IoOK(y) /\ Quiet(x, y) /\ Completed(x, y, id)
<1> DEFINE z == Answer(x, {x.goals[id]})
           y == CompleteBehaviorGoal(x, id)
<1>1. CASE id \notin DOMAIN x.goals
  BY <1>1 DEF CompleteBehaviorGoal, Completed, Quiet
<1>2. CASE id \in DOMAIN x.goals
  <2>1. /\ IoOK(z) /\ Quiet(x, z) /\ z.goals = x.goals
        /\ \A r \in 1..MaxGoals : z.answers[r] =
              IF r \in {x.goals[id]} THEN x.answers[r] + 1 ELSE x.answers[r]
    BY AnswerOf
  <2>2. y = [z EXCEPT !.goals = [i \in DOMAIN @ \ {id} |-> @[i]], !.timers = @ \ {GoalTimer(id)}]
    BY <1>2 DEF CompleteBehaviorGoal
  <2> HIDE DEF z, y
  <2>3. /\ y.goals = [i \in DOMAIN z.goals \ {id} |-> z.goals[i]] /\ y.answers = z.answers
        /\ y.timers = z.timers \ {GoalTimer(id)} /\ DOMAIN y = Fields
        /\ Quiet(z, y) /\ y.initial = z.initial
    BY <2>1, <2>2 DEF IoOK, Fields, Quiet
  <2>4. IoOK(y)
    BY <2>1, <2>3 DEF IoOK, Quiet
  <2>5. Completed(x, y, id)
    BY <1>2, <2>1, <2>3 DEF Completed
  <2> QED BY <2>1, <2>3, <2>4, <2>5 DEF y, Quiet
<1> QED BY <1>1, <1>2

LEMMA DropConnectionOf ==
    ASSUME NEW x, IoOK(x)
    PROVE  LET y == DropConnection(x) IN
           /\ IoOK(y) /\ SameGoals(x, y)
           /\ y.gen = x.gen /\ ~y.connected /\ y.pending = <<>> /\ y.active = NoFrame
           /\ y.ops = {} /\ y.stopping = x.stopping /\ y.finished = x.finished
           /\ y.exit = x.exit /\ y.timers = x.timers /\ y.initial = x.initial
BY DEF DropConnection, IoOK, Fields, SameGoals

LEMMA FinishShutdownOf ==
    ASSUME NEW x, IoOK(x), ~x.finished,
           NEW why \in {"written", "timeout", "failure", "notConnected"}
    PROVE  LET y == FinishShutdown(x, why) IN
           /\ IoOK(y) /\ Severed(x, y) /\ GoalsFailed(x, y)
           /\ y.finished /\ y.exit = why /\ y.stopping = x.stopping
<1> DEFINE d == DropConnection(x)
           z == FailPendingBehaviorGoals(d)
           y == FinishShutdown(x, why)
<1>1. /\ IoOK(d) /\ SameGoals(x, d)
      /\ d.gen = x.gen /\ ~d.connected /\ d.pending = <<>> /\ d.active = NoFrame
      /\ d.ops = {} /\ d.stopping = x.stopping
  BY DropConnectionOf
<1>2. IoOK(z) /\ Quiet(d, z) /\ GoalsFailed(d, z)
  BY <1>1, FailPendingOf
<1>3. y = [z EXCEPT !.finished = TRUE, !.gen = @ + 1, !.timers = @ \ {ShutdownTimer}, !.exit = why]
  BY DEF FinishShutdown
<1> HIDE DEF d, z, y
<1>4. /\ IoOK(y) /\ y.gen = z.gen + 1 /\ y.connected = z.connected /\ y.pending = z.pending
      /\ y.active = z.active /\ y.ops = z.ops /\ y.finished /\ y.exit = why
      /\ y.stopping = z.stopping /\ y.goals = z.goals /\ y.answers = z.answers
  BY <1>2, <1>3 DEF IoOK, Fields
<1>5. GoalsFailed(x, y)
  BY <1>1, <1>2, <1>4 DEF GoalsFailed, SameGoals
<1>6. Severed(x, y)
  BY <1>1, <1>2, <1>4 DEF Severed, Quiet, IoOK
<1> QED BY <1>1, <1>2, <1>4, <1>5, <1>6 DEF y, Quiet

LEMMA NotifyOf ==
    ASSUME NEW x, IoOK(x), NEW result \in {"failed", "connected"}
    PROVE  LET y == NotifyInitialConnection(x, result) IN
           IoOK(y) /\ Quiet(x, y) /\ SameGoals(x, y) /\ y.timers = x.timers
BY DEF NotifyInitialConnection, IoOK, Fields, Quiet, SameGoals

LEMMA HandleConnectionFailureOf ==
    ASSUME NEW x, IoOK(x), ~x.finished, x.exit = "none"
    PROVE  LET y == HandleConnectionFailure(x) IN
           /\ IoOK(y) /\ Severed(x, y) /\ GoalsFailed(x, y)
           /\ y.exit # "written" /\ y.stopping = x.stopping
<1> DEFINE d == DropConnection(x)
           f == FailPendingBehaviorGoals(d)
           l == NotifyInitialConnection(f, "failed")
           n == [l EXCEPT !.gen = @ + 1, !.timers = {t \in @ : t.timer # "operation"}]
           y == HandleConnectionFailure(x)
<1>1. /\ IoOK(d) /\ SameGoals(x, d)
      /\ d.gen = x.gen /\ ~d.connected /\ d.pending = <<>> /\ d.active = NoFrame
      /\ d.ops = {} /\ d.stopping = x.stopping /\ d.finished = x.finished /\ d.exit = x.exit
  BY DropConnectionOf
<1>2. IoOK(f) /\ Quiet(d, f) /\ GoalsFailed(d, f)
  BY <1>1, FailPendingOf
<1>3. IoOK(l) /\ Quiet(f, l) /\ SameGoals(f, l)
  BY <1>2, NotifyOf
<1>4. y = IF ~running \/ x.stopping THEN FinishShutdown(n, "failure")
          ELSE [n EXCEPT !.timers = @ \cup {Reconnect}]
  BY DEF HandleConnectionFailure
<1> HIDE DEF d, f, l, y
<1>5. /\ IoOK(n) /\ n.gen = l.gen + 1 /\ n.connected = l.connected /\ n.pending = l.pending
      /\ n.active = l.active /\ n.ops = l.ops /\ n.stopping = l.stopping
      /\ n.finished = l.finished /\ n.exit = l.exit /\ n.goals = l.goals /\ n.answers = l.answers
  BY <1>3 DEF IoOK, Fields
<1> HIDE DEF n
<1>6. /\ n.gen = x.gen + 1 /\ ~n.connected /\ n.pending = <<>> /\ n.active = NoFrame
      /\ n.ops = {} /\ n.stopping = x.stopping /\ ~n.finished /\ n.exit = "none"
      /\ GoalsFailed(x, n) /\ x.gen \in Nat
  BY <1>1, <1>2, <1>3, <1>5 DEF Quiet, GoalsFailed, SameGoals, IoOK
<1>7. CASE ~running \/ x.stopping
  <2>1. IoOK(y) /\ Severed(n, y) /\ GoalsFailed(n, y) /\ y.finished /\ y.exit = "failure"
        /\ y.stopping = n.stopping
    BY <1>4, <1>5, <1>6, <1>7, FinishShutdownOf
  <2>2. GoalsFailed(x, y)
    BY <1>6, <2>1 DEF GoalsFailed
  <2>3. Severed(x, y)
    BY <1>5, <1>6, <2>1 DEF Severed, IoOK
  <2> QED BY <1>6, <2>1, <2>2, <2>3 DEF y
<1>8. CASE ~(~running \/ x.stopping)
  <2>1. y = [n EXCEPT !.timers = @ \cup {Reconnect}]
    BY <1>4, <1>8
  <2>2. IoOK(y) /\ Quiet(n, y) /\ SameGoals(n, y)
    BY <1>5, <2>1, TimerTypes DEF IoOK, Fields, Quiet, SameGoals
  <2>3. Severed(x, y) /\ GoalsFailed(x, y)
    BY <1>6, <1>8, <2>2 DEF Severed, GoalsFailed, SameGoals, Quiet
  <2> QED BY <1>6, <2>2, <2>3 DEF y, Quiet
<1> QED BY <1>7, <1>8

\* A write that begins takes the head of the queue.
WriteBegun(x, y) ==
    /\ x.active = NoFrame /\ x.pending # <<>>
    /\ y.active = Head(x.pending) /\ y.pending = Tail(x.pending)
    /\ y.ops = x.ops \cup {"write"}

LEMMA StartWriteOf ==
    ASSUME NEW x, IoOK(x)
    PROVE  LET y == StartWrite(x) IN
           /\ IoOK(y) /\ SameGoals(x, y)
           /\ y = x \/ WriteBegun(x, y)
           /\ y.gen = x.gen /\ y.connected = x.connected /\ y.open = x.open
           /\ y.stopping = x.stopping /\ y.finished = x.finished /\ y.exit = x.exit
           /\ y.timers = x.timers /\ y.initial = x.initial
<1> DEFINE y == StartWrite(x)
<1>1. CASE x.active # NoFrame \/ x.pending = <<>> \/ ~x.open
  BY <1>1 DEF StartWrite, SameGoals
<1>2. CASE ~(x.active # NoFrame \/ x.pending = <<>> \/ ~x.open)
  <2>1. y = [x EXCEPT !.active = Head(x.pending), !.pending = Tail(x.pending),
                      !.ops = @ \cup {"write"}]
    BY <1>2 DEF StartWrite
  <2>2. Head(x.pending) \in Frame /\ Tail(x.pending) \in Seq(Frame)
    BY <1>2 DEF IoOK
  <2> HIDE DEF y
  <2>3. IoOK(y) /\ SameGoals(x, y) /\ WriteBegun(x, y)
    BY <1>2, <2>1, <2>2 DEF IoOK, Fields, SameGoals, WriteBegun, Ops
  <2> QED BY <2>1, <2>3 DEF y, IoOK, Fields
<1> QED BY <1>1, <1>2

\* How QueueFrameOnIo changes an open connection's queue.
Queued(pending, frame, mode) ==
    CASE mode = "discardPending" -> <<frame>>
      [] mode = "highPriority"   -> <<frame>> \o pending
      [] mode = "replaceLatest" /\ pending # <<>> -> [pending EXCEPT ![Len(pending)] = frame]
      [] OTHER -> Append(pending, frame)

Modes == {"discardPending", "highPriority", "replaceLatest", "append"}

LEMMA QueuedType ==
    ASSUME NEW p \in Seq(Frame), NEW frame \in Frame, NEW mode \in Modes
    PROVE  Queued(p, frame, mode) \in Seq(Frame)
<1>1. CASE mode = "discardPending"
  BY <1>1 DEF Queued
<1>2. CASE mode = "highPriority"
  BY <1>2, PushOf DEF Queued
<1>3. CASE mode = "replaceLatest" /\ p # <<>>
  BY <1>3 DEF Queued
<1>4. CASE mode = "append" \/ (mode = "replaceLatest" /\ p = <<>>)
  BY <1>4 DEF Queued
<1> QED BY <1>1, <1>2, <1>3, <1>4 DEF Modes

\* x with a frame queued, before the next write is begun.
WithFrame(x, frame, mode) == [x EXCEPT !.pending = Queued(x.pending, frame, mode)]

LEMMA QueueFrameOf ==
    ASSUME NEW x, IoOK(x), x.open, NEW frame \in Frame, NEW mode \in Modes
    PROVE  LET z == WithFrame(x, frame, mode)
           IN  /\ IoOK(z) /\ QueueFrameOnIo(x, frame, mode) = StartWrite(z)
               /\ z.pending = Queued(x.pending, frame, mode)
               /\ z.active = x.active /\ z.ops = x.ops /\ SameGoals(x, z)
               /\ z.gen = x.gen /\ z.connected = x.connected /\ z.open = x.open
               /\ z.stopping = x.stopping /\ z.finished = x.finished /\ z.exit = x.exit
               /\ z.timers = x.timers /\ z.initial = x.initial
<1> DEFINE p == Queued(x.pending, frame, mode)
           z == [x EXCEPT !.pending = p]
<1>1. p \in Seq(Frame)
  BY QueuedType DEF IoOK
<1>2. QueueFrameOnIo(x, frame, mode) = StartWrite(z)
  <2>1. CASE mode = "discardPending"
    BY <2>1 DEF QueueFrameOnIo, Queued
  <2>2. CASE mode = "highPriority"
    BY <2>2 DEF QueueFrameOnIo, Queued
  <2>3. CASE mode = "replaceLatest" /\ x.pending # <<>>
    BY <2>3 DEF QueueFrameOnIo, Queued
  <2>4. CASE mode = "append" \/ (mode = "replaceLatest" /\ x.pending = <<>>)
    BY <2>4 DEF QueueFrameOnIo, Queued
  <2> QED BY <2>1, <2>2, <2>3, <2>4 DEF Modes
<1> HIDE DEF p
<1>3. /\ IoOK(z) /\ z.pending = p
      /\ z.active = x.active /\ z.ops = x.ops /\ SameGoals(x, z)
      /\ z.gen = x.gen /\ z.connected = x.connected /\ z.open = x.open
      /\ z.stopping = x.stopping /\ z.finished = x.finished /\ z.exit = x.exit
      /\ z.timers = x.timers /\ z.initial = x.initial
  BY <1>1 DEF IoOK, Fields, SameGoals
<1> QED BY <1>2, <1>3 DEF p, WithFrame

-----------------------------------------------------------------------------
(* The connection: how the io thread's record, the ready handlers and the robot
   belong together. *)

\* A completion that the io thread will not ignore.
IsCurrent(x, h) == h.run = "op" /\ h.gen = x.gen

IsVelocity(h) == h.run = "velocity"

\* No operation is outstanding twice.
OneOfEach(x, q) ==
    /\ \A i \in DOMAIN q : q[i].run = "op" => q[i].gen <= x.gen
    /\ \A i \in DOMAIN q : IsCurrent(x, q[i]) => q[i].op \notin x.ops
    /\ \A i, j \in DOMAIN q :
          i # j /\ IsCurrent(x, q[i]) /\ IsCurrent(x, q[j]) => q[i].op # q[j].op

\* Whatever is outstanding, or has just completed, uses the open socket.
OpenOK(x, q) ==
    /\ x.ops # {} => x.open
    /\ \A i \in DOMAIN q : IsCurrent(x, q[i]) => x.open

\* Once connected, the robot has had the zero velocity and only writes and reads are
\* outstanding.
ConnectedOK(x, q, r) ==
    x.connected =>
        /\ x.open /\ r.first = "zero" /\ x.ops \subseteq {"write", "read"}
        /\ \A i \in DOMAIN q : IsCurrent(x, q[i]) => q[i].op \in {"write", "read"}

\* Until then nothing is queued, and one step of the handshake is outstanding at most.
ConnectingOK(x, q) ==
    ~x.connected =>
        /\ x.pending = <<>> /\ x.active = NoFrame
        /\ \E o \in {"handshake", "stopWrite"} :
              /\ x.ops \subseteq {o}
              /\ \A i \in DOMAIN q : IsCurrent(x, q[i]) => q[i].op = o

\* A write is outstanding only for the active frame.
WriteOK(x, q) ==
    x.active = NoFrame =>
        /\ "write" \notin x.ops
        /\ \A i \in DOMAIN q : IsCurrent(x, q[i]) => q[i].op # "write"

\* What a write that is known to have succeeded did to the robot.
WrittenOK(x, q, r) ==
    \A i \in DOMAIN q : IsCurrent(x, q[i]) /\ q[i].got # "error" =>
        /\ q[i].op = "stopWrite" => r.first = "zero" /\ r.motion = "stopped"
        /\ q[i].op = "write" /\ x.active.kind \in {"stop", "zero"} => r.motion = "stopped"

\* No velocity waits behind the write that makes the connection count: the ones
\* meant for the connection before are ahead of it.
NoneBehind(x, q) ==
    \A i, j \in DOMAIN q :
        i < j /\ IsCurrent(x, q[i]) /\ q[i].op = "stopWrite" => ~IsVelocity(q[j])

Ended(x) ==
    /\ x.finished => ~x.connected /\ x.ops = {}
    /\ x.exit # "none" => x.finished
    /\ x.stopping => x.connected \/ x.finished

Connection(x, q, r) ==
    /\ OneOfEach(x, q) /\ OpenOK(x, q) /\ ConnectedOK(x, q, r) /\ ConnectingOK(x, q)
    /\ WriteOK(x, q) /\ WrittenOK(x, q, r) /\ NoneBehind(x, q) /\ Ended(x)
    /\ r.first \in {"none", "zero"}

\* A handler that is a completion has the fields of one.
LEMMA HandlerOp ==
    ASSUME NEW h \in Handler, h.run = "op"
    PROVE  h.op \in Ops /\ h.gen \in Nat /\ h.got \in {"ok", "error", "ping", "result"}
BY DEF Handler

\* Taking the oldest handler out.
LEMMA ConnectionTail ==
    ASSUME NEW x, NEW q \in Seq(Handler), NEW r, Connection(x, q, r), q # <<>>
    PROVE  /\ Connection(x, Tail(q), r)
           /\ IsCurrent(x, Head(q)) =>
                 /\ Head(q).op \notin x.ops
                 /\ \A i \in DOMAIN Tail(q) :
                       IsCurrent(x, Tail(q)[i]) => Tail(q)[i].op # Head(q).op
                 /\ Head(q).op = "stopWrite" =>
                       \A i \in DOMAIN Tail(q) : ~IsVelocity(Tail(q)[i])
<1> DEFINE t == Tail(q)
<1>1. /\ t \in Seq(Handler) /\ 1 \in DOMAIN q /\ Head(q) = q[1]
      /\ \A i \in DOMAIN t : i + 1 \in DOMAIN q /\ t[i] = q[i + 1] /\ i \in Nat \ {0}
  BY TailOf
<1> HIDE DEF t
<1>2. OneOfEach(x, t)
  BY <1>1 DEF Connection, OneOfEach, IsCurrent
<1>3. OpenOK(x, t) /\ ConnectedOK(x, t, r) /\ ConnectingOK(x, t) /\ WriteOK(x, t)
  BY <1>1 DEF Connection, OpenOK, ConnectedOK, ConnectingOK, WriteOK
<1>4. WrittenOK(x, t, r)
  BY <1>1 DEF Connection, WrittenOK
<1>5. NoneBehind(x, t)
  BY <1>1 DEF Connection, NoneBehind
<1>6. ASSUME IsCurrent(x, q[1])
      PROVE  /\ q[1].op \notin x.ops
             /\ \A i \in DOMAIN t : IsCurrent(x, t[i]) => t[i].op # q[1].op
             /\ q[1].op = "stopWrite" => \A i \in DOMAIN t : ~IsVelocity(t[i])
  BY <1>1, <1>6 DEF Connection, OneOfEach, NoneBehind
<1> QED BY <1>1, <1>2, <1>3, <1>4, <1>5, <1>6 DEF Connection, t

\* The connection looks at none of the fields a quiet step changes.
LEMMA ConnectionQuiet ==
    ASSUME NEW x, NEW y, NEW q, NEW r, Connection(x, q, r), Quiet(x, y)
    PROVE  Connection(y, q, r)
BY DEF Connection, Quiet, OneOfEach, OpenOK, ConnectedOK, ConnectingOK, WriteOK, WrittenOK,
       NoneBehind, Ended, IsCurrent

\* After a loss every completion that is ready belongs to an earlier generation.
LEMMA ConnectionSevered ==
    ASSUME NEW x, NEW y, NEW q \in Seq(Handler), NEW r, IoOK(x), IoOK(y),
           Connection(x, q, r), Severed(x, y)
    PROVE  Connection(y, q, r)
<1>1. \A i \in DOMAIN q : q[i].run = "op" => q[i].gen \in Nat /\ q[i].gen <= x.gen
  BY HandlerOp DEF Connection, OneOfEach
<1>2. \A i \in DOMAIN q : ~IsCurrent(y, q[i])
  BY <1>1 DEF IsCurrent, Severed, IoOK
<1>3. \A i \in DOMAIN q : q[i].run = "op" => q[i].gen <= y.gen
  BY <1>1 DEF Severed, IoOK
<1> QED BY <1>2, <1>3 DEF Severed, Connection, OneOfEach, OpenOK, ConnectedOK, ConnectingOK,
           WriteOK, WrittenOK, NoneBehind, Ended

\* A write begins only when none is outstanding.
LEMMA ConnectionStartWrite ==
    ASSUME NEW x, NEW q, NEW r, IoOK(x), Connection(x, q, r), x.connected
    PROVE  Connection(StartWrite(x), q, r)
<1> DEFINE y == StartWrite(x)
<1>1. /\ y = x \/ WriteBegun(x, y)
      /\ y.gen = x.gen /\ y.connected = x.connected /\ y.open = x.open
      /\ y.stopping = x.stopping /\ y.finished = x.finished /\ y.exit = x.exit
  BY StartWriteOf
<1> HIDE DEF y
<1>2. ASSUME WriteBegun(x, y) PROVE Connection(y, q, r)
  <2>1. Head(x.pending) \in Frame
    BY <1>2 DEF WriteBegun, IoOK
  <2>2. y.active # NoFrame
    BY <1>2, <2>1, FrameTypes DEF WriteBegun
  <2>3. \A i \in DOMAIN q : IsCurrent(y, q[i]) <=> IsCurrent(x, q[i])
    BY <1>1 DEF IsCurrent
  <2>4. \A i \in DOMAIN q : IsCurrent(x, q[i]) => q[i].op # "write"
    BY <1>2 DEF Connection, WriteOK, WriteBegun
  <2>5. OneOfEach(y, q)
    BY <1>1, <1>2, <2>3, <2>4 DEF Connection, OneOfEach, WriteBegun
  <2>6. /\ OpenOK(y, q) /\ ConnectedOK(y, q, r) /\ ConnectingOK(y, q)
        /\ WriteOK(y, q) /\ Ended(y)
    BY <1>1, <1>2, <2>2, <2>3
       DEF Connection, OpenOK, ConnectedOK, ConnectingOK, WriteOK, WriteBegun, Ended
  <2>7. WrittenOK(y, q, r) /\ NoneBehind(y, q)
    BY <2>3, <2>4 DEF Connection, WrittenOK, NoneBehind
  <2> QED BY <1>1, <2>5, <2>6, <2>7 DEF Connection
<1>3. Connection(y, q, r)
  BY <1>1, <1>2
<1> QED BY <1>3 DEF y

\* A frame is queued.
LEMMA ConnectionQueue ==
    ASSUME NEW x, NEW q, NEW r, IoOK(x), Connection(x, q, r), x.connected,
           NEW frame \in Frame, NEW mode \in Modes
    PROVE  LET y == QueueFrameOnIo(x, frame, mode) IN
           /\ IoOK(y) /\ Connection(y, q, r) /\ SameGoals(x, y)
           /\ y.gen = x.gen /\ y.connected /\ y.stopping = x.stopping
           /\ y.finished = x.finished /\ y.exit = x.exit
           /\ x.ops \subseteq y.ops /\ y.ops \subseteq x.ops \cup {"write"}
           /\ y.timers = x.timers /\ y.initial = x.initial
<1> DEFINE y == QueueFrameOnIo(x, frame, mode)
           z == WithFrame(x, frame, mode)
<1>1. x.open
  BY DEF Connection, ConnectedOK
<1>2. /\ IoOK(z) /\ y = StartWrite(z) /\ SameGoals(x, z)
      /\ z.active = x.active /\ z.ops = x.ops
      /\ z.gen = x.gen /\ z.connected = x.connected /\ z.open = x.open
      /\ z.stopping = x.stopping /\ z.finished = x.finished /\ z.exit = x.exit
      /\ z.timers = x.timers /\ z.initial = x.initial
  BY <1>1, QueueFrameOf
<1> HIDE DEF y, z
<1>3. Connection(z, q, r)
  BY <1>2 DEF Connection, OneOfEach, OpenOK, ConnectedOK, ConnectingOK, WriteOK,
              WrittenOK, NoneBehind, Ended, IsCurrent
<1>4. Connection(y, q, r)
  BY <1>2, <1>3, ConnectionStartWrite
<1>5. /\ IoOK(y) /\ SameGoals(z, y) /\ (y = z \/ WriteBegun(z, y))
      /\ y.gen = z.gen /\ y.connected = z.connected
      /\ y.stopping = z.stopping /\ y.finished = z.finished /\ y.exit = z.exit
      /\ y.timers = z.timers /\ y.initial = z.initial
  BY <1>2, StartWriteOf
<1>6. x.ops \subseteq y.ops /\ y.ops \subseteq x.ops \cup {"write"}
  BY <1>2, <1>5 DEF WriteBegun
<1> QED BY <1>2, <1>4, <1>5, <1>6 DEF SameGoals, y

\* x with an operation begun, and when op may be.
WithOp(x, op) == [x EXCEPT !.ops = @ \cup {op}]

MayBegin(x, q, op) ==
    /\ op \in Ops \ {"write"} /\ ~x.finished /\ x.open
    /\ \A i \in DOMAIN q : IsCurrent(x, q[i]) => q[i].op # op
    /\ x.connected => op = "read"
    /\ ~x.connected => /\ op \in {"handshake", "stopWrite"} /\ x.ops \subseteq {op}
                       /\ \A i \in DOMAIN q : ~IsCurrent(x, q[i])

\* y differs from x in ops only.
OpsOnly(x, y) ==
    /\ IoOK(y) /\ SameGoals(x, y)
    /\ y.gen = x.gen /\ y.connected = x.connected /\ y.open = x.open
    /\ y.stopping = x.stopping /\ y.finished = x.finished /\ y.exit = x.exit
    /\ y.pending = x.pending /\ y.active = x.active
    /\ y.timers = x.timers /\ y.initial = x.initial

\* An operation that was not outstanding is begun.
LEMMA ConnectionBegin ==
    ASSUME NEW x, NEW q, NEW r, NEW op, IoOK(x), Connection(x, q, r), MayBegin(x, q, op)
    PROVE  Connection(WithOp(x, op), q, r) /\ OpsOnly(x, WithOp(x, op))
<1> DEFINE y == WithOp(x, op)
<1>1. /\ IoOK(y) /\ SameGoals(x, y) /\ y.ops = x.ops \cup {op}
      /\ y.gen = x.gen /\ y.connected = x.connected /\ y.open = x.open
      /\ y.stopping = x.stopping /\ y.finished = x.finished /\ y.exit = x.exit
      /\ y.pending = x.pending /\ y.active = x.active
      /\ y.timers = x.timers /\ y.initial = x.initial
  BY DEF IoOK, Fields, SameGoals, WithOp, MayBegin
<1> HIDE DEF y
<1>2. \A i \in DOMAIN q : IsCurrent(y, q[i]) <=> IsCurrent(x, q[i])
  BY <1>1 DEF IsCurrent
<1>3. OneOfEach(y, q)
  BY <1>1, <1>2 DEF Connection, OneOfEach, MayBegin
<1>4. OpenOK(y, q) /\ ConnectedOK(y, q, r) /\ ConnectingOK(y, q)
  BY <1>1, <1>2 DEF Connection, OpenOK, ConnectedOK, ConnectingOK, MayBegin
<1>5. WriteOK(y, q) /\ WrittenOK(y, q, r) /\ NoneBehind(y, q) /\ Ended(y)
  BY <1>1, <1>2 DEF Connection, WriteOK, WrittenOK, NoneBehind, Ended, MayBegin
<1> QED BY <1>1, <1>3, <1>4, <1>5 DEF Connection, OpsOnly, y

-----------------------------------------------------------------------------
(* Types, connection and control. *)

RobotType == [motion : {"moving", "stopped"}, n : Nat,
              first : {"none"} \cup FrameKinds, todo : SUBSET Nat]

Types ==
    /\ main \in {"closed", "opening", "open", "closing"} /\ running \in BOOLEAN
    /\ ready \in Seq(Handler) /\ IoOK(io)
    /\ lastSent \in {"none", "move", "stop"} /\ lastCommand \in {"move", "stop"}
    /\ commands \in Nat /\ goals \in Nat /\ pings \in Nat
    /\ robot \in RobotType

\* A forwarder that is being shut down is not running; while it is closed nothing
\* is left that could run.
Control ==
    /\ io.stopping => ~running
    /\ \A i \in DOMAIN ready : ready[i].run = "beginShutdown" => ~running
    /\ \A i \in DOMAIN ready : ready[i].run = "op" /\ ready[i].op = "read" => ready[i].got # "ok"
    /\ main = "closed" =>
          ready = <<>> /\ ~io.connected /\ io.ops = {} /\ io.timers = {}

Base == Types /\ Connection(io, ready, robot) /\ Control

\* What every handler starts from.
LEMMA RunFacts ==
    ASSUME Base, NEW kind, Run(kind)
    PROVE  /\ ready \in Seq(Handler) /\ ready # <<>> /\ ready' = Tail(ready)
           /\ ready' \in Seq(Handler) /\ Head(ready) \in Handler /\ Head(ready).run = kind
           /\ IoOK(io) /\ ~io.finished /\ io.exit = "none"
           /\ Connection(io, ready', robot)
           /\ IsCurrent(io, Head(ready)) =>
                 /\ Head(ready).op \notin io.ops
                 /\ \A i \in DOMAIN ready' :
                       IsCurrent(io, ready'[i]) => ready'[i].op # Head(ready).op
                 /\ Head(ready).op = "stopWrite" => \A i \in DOMAIN ready' : ~IsVelocity(ready'[i])
           /\ main # "closed"
           /\ UNCHANGED <<main, running, lastSent, commands, lastCommand, goals, pings, robot>>
<1>1. ready \in Seq(Handler) /\ ready # <<>> /\ ready' = Tail(ready)
      /\ Connection(io, ready, robot)
  BY DEF Base, Types, Run
<1>2. IoOK(io) /\ ~io.finished /\ io.exit = "none"
  BY DEF Base, Types, Run, Connection, Ended
<1>3. ready' \in Seq(Handler) /\ Head(ready) \in Handler
  BY <1>1
<1> QED BY <1>1, <1>2, <1>3, ConnectionTail DEF Run, Base, Control

\* A completed operation of the current connection.
LEMMA RunOpFacts ==
    ASSUME Base, NEW op, RunOp(op)
    PROVE  /\ Run("op") /\ IsCurrent(io, Head(ready)) /\ Head(ready).op = op
           /\ io.connected <=> op \in {"write", "read"}
           /\ ~io.connected => \A i \in DOMAIN ready' : ~IsCurrent(io, ready'[i])
           /\ ~io.connected => io.ops = {}
           /\ op = "write" => io.active # NoFrame
           /\ io.open
<1>1. Run("op") /\ IsCurrent(io, Head(ready)) /\ Head(ready).op = op
  BY DEF RunOp, IsCurrent, Run
<1>2. /\ ready \in Seq(Handler) /\ 1 \in DOMAIN ready /\ Head(ready) = ready[1]
      /\ \A i \in DOMAIN ready' : i + 1 \in DOMAIN ready /\ ready'[i] = ready[i + 1]
  <2>1. ready \in Seq(Handler) /\ ready # <<>> /\ ready' = Tail(ready)
    BY <1>1, RunFacts
  <2> QED BY <2>1, TailOf
<1>3. io.connected => op \in {"write", "read"}
  BY <1>1, <1>2 DEF Base, Connection, ConnectedOK
<1>4. ASSUME ~io.connected
      PROVE  /\ op \in {"handshake", "stopWrite"} /\ io.ops = {}
             /\ \A i \in DOMAIN ready' : ~IsCurrent(io, ready'[i])
  <2>1. PICK o \in {"handshake", "stopWrite"} :
            io.ops \subseteq {o} /\ \A i \in DOMAIN ready : IsCurrent(io, ready[i]) => ready[i].op = o
    BY <1>4 DEF Base, Connection, ConnectingOK
  <2>2. o = op
    BY <1>1, <1>2, <2>1
  <2>3. op \notin io.ops
        /\ \A i \in DOMAIN ready' : IsCurrent(io, ready'[i]) => ready'[i].op # op
    BY <1>1, RunFacts
  <2> QED BY <1>2, <2>1, <2>2, <2>3
<1>5. (op = "write" => io.active # NoFrame) /\ io.open
  BY <1>1, <1>2 DEF Base, Connection, WriteOK, OpenOK
<1> QED BY <1>1, <1>3, <1>4, <1>5

\* What a handler is shown to keep.
HandlerKeeps == IoOK(io') /\ Connection(io', ready', robot) /\ (io'.stopping => ~running)

\* A handler that loses the connection, or leaves all but timers and goals alone.
LEMMA KeepsSevered ==
    ASSUME Base, NEW kind, Run(kind), IoOK(io'), Severed(io, io') \/ Quiet(io, io'),
           io'.stopping = io.stopping
    PROVE  HandlerKeeps
BY RunFacts, ConnectionSevered, ConnectionQuiet DEF HandlerKeeps, Base, Control

LEMMA DoConnectOf ==
    ASSUME NEW x, IoOK(x), ~x.finished, x.exit = "none"
    PROVE  LET y == DoConnect(x) IN
           /\ IoOK(y) /\ SameGoals(x, y) /\ y.stopping = x.stopping /\ y.exit = "none"
           /\ y = x \/ Severed(x, y)
<1> DEFINE d == DropConnection(x)
           y == DoConnect(x)
<1>1. CASE ~running \/ x.stopping
  BY <1>1 DEF DoConnect, SameGoals
<1>2. CASE ~(~running \/ x.stopping)
  <2> DEFINE ts == {t \in d.timers : t.timer \notin {"operation", "reconnect"}}
                      \cup {Operation(x.gen + 1)}
  <2>1. /\ IoOK(d) /\ SameGoals(x, d)
        /\ d.gen = x.gen /\ ~d.connected /\ d.pending = <<>> /\ d.active = NoFrame
        /\ d.ops = {} /\ d.stopping = x.stopping /\ d.finished = x.finished
        /\ d.exit = x.exit /\ d.timers = x.timers
    BY DropConnectionOf
  <2>2. y = [d EXCEPT !.gen = @ + 1, !.open = TRUE, !.ops = {"handshake"},
                      !.timers = ts]
    BY <1>2 DEF DoConnect
  <2>3. ts \subseteq Timers
    BY <2>1, TimerTypes DEF IoOK
  <2> HIDE DEF d, y, ts
  <2>4. IoOK(y) /\ SameGoals(d, y) /\ y.gen = d.gen + 1 /\ y.connected = d.connected
        /\ y.pending = d.pending /\ y.active = d.active /\ y.ops = {"handshake"} /\ y.open
        /\ y.stopping = d.stopping /\ y.finished = d.finished /\ y.exit = d.exit
    <3>1. DOMAIN d = Fields /\ {"handshake"} \subseteq Ops
      BY <2>1 DEF IoOK, Ops
    <3>2. /\ DOMAIN y = Fields /\ SameGoals(d, y) /\ y.gen = d.gen + 1 /\ y.timers = ts
          /\ y.connected = d.connected /\ y.initial = d.initial
          /\ y.pending = d.pending /\ y.active = d.active /\ y.ops = {"handshake"}
          /\ y.open /\ y.open \in BOOLEAN
          /\ y.stopping = d.stopping /\ y.finished = d.finished /\ y.exit = d.exit
      BY <2>2, <3>1 DEF Fields, SameGoals
    <3>3. y.gen \in Nat /\ y.connected \in BOOLEAN /\ y.open \in BOOLEAN
          /\ y.stopping \in BOOLEAN /\ y.finished \in BOOLEAN
      <4>1. d.gen \in Nat /\ d.connected \in BOOLEAN
            /\ d.stopping \in BOOLEAN /\ d.finished \in BOOLEAN
        BY <2>1 DEF IoOK
      <4> QED BY <3>2, <4>1
    <3>4. /\ y.pending \in Seq(Frame) /\ y.active \in Frame \cup {NoFrame}
          /\ y.ops \subseteq Ops /\ y.timers \subseteq Timers
      BY <2>1, <2>3, <3>1, <3>2 DEF IoOK
    <3>5. /\ DOMAIN y.goals \subseteq Nat /\ \A id \in DOMAIN y.goals : y.goals[id] \in Nat
          /\ y.initial \in {"none", "failed", "connected"}
          /\ y.answers \in [1..MaxGoals -> Nat]
          /\ y.exit \in {"none", "written", "timeout", "failure", "notConnected"}
      BY <2>1, <3>2 DEF IoOK, SameGoals
    <3>6. IoOK(y)
      BY <3>2, <3>3, <3>4, <3>5 DEF IoOK
    <3> QED BY <3>2, <3>6
  <2> QED BY <1>2, <2>1, <2>4 DEF Severed, SameGoals, IoOK, y
<1> QED BY <1>1, <1>2

LEMMA RunDoConnectKeeps == ASSUME Base, RunDoConnect PROVE HandlerKeeps
<1>1. Run("doConnect") /\ io' = DoConnect(io)
  BY DEF RunDoConnect
<1>2. IoOK(io) /\ ~io.finished /\ io.exit = "none"
  BY <1>1, RunFacts
<1>3. /\ IoOK(io') /\ io'.stopping = io.stopping /\ (io' = io \/ Severed(io, io'))
  BY <1>1, <1>2, DoConnectOf
<1> QED BY <1>1, <1>3, KeepsSevered DEF Quiet

LEMMA RunStaleOpKeeps == ASSUME Base, RunStaleOp PROVE HandlerKeeps
<1>1. Run("op") /\ io' = io
  BY DEF RunStaleOp
<1> QED BY <1>1, RunFacts, KeepsSevered DEF Quiet

LEMMA RunHandshakeKeeps == ASSUME Base, RunHandshake PROVE HandlerKeeps
<1>1. RunOp("handshake") /\ Run("op")
  BY DEF RunHandshake, RunOp
<1>2. IoOK(io) /\ ~io.finished /\ io.exit = "none" /\ Connection(io, ready', robot)
  BY <1>1, RunFacts
<1>3. CASE Failed
  <2>1. io' = HandleConnectionFailure(io)
    BY <1>3 DEF RunHandshake
  <2> QED BY <1>1, <1>2, <2>1, HandleConnectionFailureOf, KeepsSevered
<1>4. CASE ~Failed
  <2>1. io' = WithOp(io, "stopWrite")
    BY <1>4 DEF RunHandshake, WithOp
  <2>2. ~io.connected /\ io.open /\ io.ops = {} /\ \A i \in DOMAIN ready' : ~IsCurrent(io, ready'[i])
    BY <1>1, RunOpFacts
  <2>3. MayBegin(io, ready', "stopWrite")
    BY <1>2, <2>2 DEF MayBegin, Ops
  <2>4. IoOK(io') /\ Connection(io', ready', robot) /\ io'.stopping = io.stopping
    BY <1>2, <2>1, <2>3, ConnectionBegin DEF OpsOnly
  <2> QED BY <2>4 DEF HandlerKeeps, Base, Control
<1> QED BY <1>3, <1>4

\* The connection counts from now on: the robot stands, and no velocity is underway.
ConnectedFrom(x) == [x EXCEPT !.connected = TRUE, !.timers = {t \in @ : t.timer # "operation"}]

LEMMA ConnectedOf ==
    ASSUME NEW x, IoOK(x), NEW q, NEW r, Connection(x, q, r), x.open, ~x.connected,
           ~x.finished, x.ops = {}, r.first = "zero", r.motion = "stopped",
           \A i \in DOMAIN q : ~IsCurrent(x, q[i])
    PROVE  LET u == ConnectedFrom(x)
               s == QueueFrameOnIo(u, FrameOf("subscribe"), "append")
               b == QueueFrameOnIo(s, FrameOf("bootUp"), "append")
               y == Connected(x)
           IN  /\ IoOK(u) /\ Connection(u, q, r) /\ u.connected
               /\ u.pending = <<>> /\ u.active = NoFrame
               /\ IoOK(s) /\ Connection(s, q, r) /\ s.connected
               /\ IoOK(b) /\ b.pending = y.pending /\ b.active = y.active
               /\ IoOK(y) /\ Connection(y, q, r) /\ SameGoals(x, y)
               /\ y.connected /\ y.stopping = x.stopping /\ y.finished = x.finished
               /\ y.exit = x.exit
<1> DEFINE u == ConnectedFrom(x)
           s == QueueFrameOnIo(u, FrameOf("subscribe"), "append")
           b == QueueFrameOnIo(s, FrameOf("bootUp"), "append")
           n == NotifyInitialConnection(b, "connected")
           y == Connected(x)
<1>1. /\ IoOK(u) /\ SameGoals(x, u) /\ u.connected /\ u.open = x.open /\ u.gen = x.gen
      /\ u.pending = x.pending /\ u.active = x.active /\ u.ops = x.ops
      /\ u.stopping = x.stopping /\ u.finished = x.finished /\ u.exit = x.exit
  BY DEF ConnectedFrom, IoOK, Fields, SameGoals
<1>2. y = [n EXCEPT !.ops = @ \cup {"read"}]
  BY DEF Connected, ConnectedFrom
<1>3. "read" \in Ops /\ FrameOf("subscribe") \in Frame /\ FrameOf("bootUp") \in Frame
      /\ "append" \in Modes
  BY FrameTypes DEF Ops, Modes
<1> HIDE DEF u, n, y
<1>4. x.pending = <<>> /\ x.active = NoFrame
  BY DEF Connection, ConnectingOK
<1>5. Connection(u, q, r)
  BY <1>1, <1>4 DEF Connection, OneOfEach, OpenOK, ConnectedOK, ConnectingOK, WriteOK, WrittenOK,
                    NoneBehind, Ended, IsCurrent
<1>6. /\ IoOK(s) /\ Connection(s, q, r) /\ SameGoals(u, s) /\ s.gen = u.gen /\ s.connected
      /\ s.stopping = u.stopping /\ s.finished = u.finished /\ s.exit = u.exit
  BY <1>1, <1>3, <1>5, ConnectionQueue
<1> HIDE DEF s
<1>7. /\ IoOK(b) /\ Connection(b, q, r) /\ SameGoals(s, b) /\ b.gen = s.gen /\ b.connected
      /\ b.stopping = s.stopping /\ b.finished = s.finished /\ b.exit = s.exit
  BY <1>3, <1>6, ConnectionQueue
<1> HIDE DEF b
<1>8. IoOK(n) /\ Quiet(b, n) /\ SameGoals(b, n)
  BY <1>7, NotifyOf DEF n
<1>9. Connection(n, q, r) /\ n.connected /\ ~n.finished /\ n.open
  <2>1. Connection(n, q, r) /\ n.connected /\ ~n.finished
    BY <1>1, <1>4, <1>6, <1>7, <1>8, ConnectionQuiet DEF Quiet
  <2> QED BY <2>1 DEF Connection, ConnectedOK
<1>10. \A i \in DOMAIN q : ~IsCurrent(n, q[i])
  BY <1>1, <1>6, <1>7, <1>8 DEF IsCurrent, Quiet
<1>11. /\ IoOK(y) /\ Connection(y, q, r) /\ SameGoals(n, y) /\ y.connected = n.connected
       /\ y.stopping = n.stopping /\ y.finished = n.finished /\ y.exit = n.exit
       /\ y.pending = n.pending /\ y.active = n.active
  <2>1. \A i \in DOMAIN q : IsCurrent(n, q[i]) => q[i].op # "read"
    BY <1>10
  <2>2. MayBegin(n, q, "read")
    BY <1>3, <1>9, <2>1 DEF MayBegin
  <2>3. y = WithOp(n, "read")
    BY <1>2 DEF WithOp
  <2> HIDE DEF y, n
  <2>4. Connection(WithOp(n, "read"), q, r) /\ OpsOnly(n, WithOp(n, "read"))
    BY <1>8, <1>9, <2>2, ConnectionBegin
  <2> QED BY <2>3, <2>4 DEF OpsOnly
<1>12. SameGoals(x, y)
  BY <1>1, <1>6, <1>7, <1>8, <1>11 DEF SameGoals
<1> QED BY <1>1, <1>4, <1>5, <1>6, <1>7, <1>8, <1>9, <1>11, <1>12 DEF u, s, b, y, Quiet

\* The zero velocity is written: the robot stands.
LEMMA StopWrittenFacts ==
    ASSUME Base, RunOp("stopWrite"), ~Failed
    PROVE  robot.first = "zero" /\ robot.motion = "stopped"
<1>1. Run("op")
  BY DEF RunOp
<1>2. ready \in Seq(Handler) /\ ready # <<>> /\ Connection(io, ready, robot)
      /\ IsCurrent(io, Head(ready)) /\ Head(ready).op = "stopWrite"
  BY <1>1, RunFacts, RunOpFacts DEF Base
<1>3. 1 \in DOMAIN ready /\ Head(ready) = ready[1]
  BY <1>2
<1> QED BY <1>2, <1>3 DEF Connection, WrittenOK, Failed

LEMMA RunConnectionStopWrittenKeeps == ASSUME Base, RunConnectionStopWritten PROVE HandlerKeeps
<1>1. RunOp("stopWrite") /\ Run("op")
  BY DEF RunConnectionStopWritten, RunOp
<1>2. IoOK(io) /\ ~io.finished /\ io.exit = "none" /\ Connection(io, ready', robot)
  BY <1>1, RunFacts
<1>3. CASE Failed
  <2>1. io' = HandleConnectionFailure(io)
    BY <1>3 DEF RunConnectionStopWritten
  <2> QED BY <1>1, <1>2, <2>1, HandleConnectionFailureOf, KeepsSevered
<1>4. CASE ~Failed
  <2>1. io' = Connected(io)
    BY <1>4 DEF RunConnectionStopWritten
  <2>2. /\ ~io.connected /\ io.ops = {} /\ io.open
        /\ \A i \in DOMAIN ready' : ~IsCurrent(io, ready'[i])
    BY <1>1, RunOpFacts
  <2>3. robot.first = "zero" /\ robot.motion = "stopped"
    BY <1>1, <1>4, StopWrittenFacts
  <2>4. IoOK(io') /\ Connection(io', ready', robot) /\ io'.stopping = io.stopping
    BY <1>2, <2>1, <2>2, <2>3, ConnectedOf
  <2> QED BY <2>4 DEF HandlerKeeps, Base, Control
<1> QED BY <1>3, <1>4

\* The record once the active frame is written.
Idle(x) == [x EXCEPT !.active = NoFrame]

LEMMA IdleOf ==
    ASSUME NEW x, IoOK(x)
    PROVE  /\ IoOK(Idle(x)) /\ SameGoals(x, Idle(x)) /\ Idle(x).active = NoFrame
           /\ Idle(x).gen = x.gen /\ Idle(x).connected = x.connected /\ Idle(x).open = x.open
           /\ Idle(x).stopping = x.stopping /\ Idle(x).finished = x.finished
           /\ Idle(x).exit = x.exit /\ Idle(x).pending = x.pending /\ Idle(x).ops = x.ops
BY DEF Idle, IoOK, Fields, SameGoals

\* Nothing has been written after the active frame: the connection is kept.
LEMMA ConnectionIdle ==
    ASSUME NEW x, NEW q, NEW r, IoOK(x), Connection(x, q, r), x.connected,
           "write" \notin x.ops, \A i \in DOMAIN q : IsCurrent(x, q[i]) => q[i].op # "write"
    PROVE  Connection(Idle(x), q, r)
<1>1. \A i \in DOMAIN q : IsCurrent(Idle(x), q[i]) <=> IsCurrent(x, q[i])
  BY IdleOf DEF IsCurrent
<1>2. OneOfEach(Idle(x), q) /\ OpenOK(Idle(x), q) /\ ConnectedOK(Idle(x), q, r)
  BY <1>1, IdleOf DEF Connection, OneOfEach, OpenOK, ConnectedOK
<1>3. ConnectingOK(Idle(x), q) /\ WriteOK(Idle(x), q) /\ Ended(Idle(x))
  BY <1>1, IdleOf DEF Connection, ConnectingOK, WriteOK, Ended
<1>4. WrittenOK(Idle(x), q, r) /\ NoneBehind(Idle(x), q)
  BY <1>1, IdleOf DEF Connection, WrittenOK, NoneBehind
<1> QED BY <1>2, <1>3, <1>4 DEF Connection

LEMMA RunWrittenKeeps == ASSUME Base, RunWritten PROVE HandlerKeeps
<1>1. RunOp("write") /\ Run("op")
  BY DEF RunWritten, RunOp
<1>2. IoOK(io) /\ ~io.finished /\ io.exit = "none" /\ Connection(io, ready', robot)
      /\ ready' \in Seq(Handler)
  BY <1>1, RunFacts
<1>3. CASE Failed
  <2>1. io' = HandleConnectionFailure(io)
    BY <1>3 DEF RunWritten
  <2> QED BY <1>1, <1>2, <2>1, HandleConnectionFailureOf, KeepsSevered
<1>4. CASE ~Failed
  <2>1. \/ io' = StartWrite(Idle(io))
        \/ io' = FinishShutdown(Idle(io), "written")
        \/ io' = Idle(io)
    BY <1>4 DEF RunWritten, Idle
  <2>2. /\ io.connected /\ "write" \notin io.ops
        /\ \A i \in DOMAIN ready' : IsCurrent(io, ready'[i]) => ready'[i].op # "write"
    BY <1>1, RunFacts, RunOpFacts
  <2>3. Connection(Idle(io), ready', robot)
    BY <1>2, <2>2, ConnectionIdle
  <2>4. IoOK(Idle(io)) /\ Idle(io).connected /\ ~Idle(io).finished
        /\ Idle(io).stopping = io.stopping
    BY <1>2, <2>2, IdleOf
  <2>5. CASE io' = Idle(io)
    BY <2>3, <2>4, <2>5 DEF HandlerKeeps, Base, Control
  <2>6. CASE io' = StartWrite(Idle(io))
    <3>1. Connection(io', ready', robot)
      BY <2>3, <2>4, <2>6, ConnectionStartWrite
    <3>2. IoOK(io') /\ io'.stopping = io.stopping
      BY <2>4, <2>6, StartWriteOf
    <3> QED BY <3>1, <3>2 DEF HandlerKeeps, Base, Control
  <2>7. CASE io' = FinishShutdown(Idle(io), "written")
    <3>1. IoOK(io') /\ Severed(Idle(io), io') /\ io'.stopping = io.stopping
      BY <2>4, <2>7, FinishShutdownOf
    <3>2. Connection(io', ready', robot)
      BY <1>2, <2>3, <2>4, <3>1, ConnectionSevered
    <3> QED BY <3>1, <3>2 DEF HandlerKeeps, Base, Control
  <2> QED BY <2>1, <2>5, <2>6, <2>7
<1> QED BY <1>3, <1>4

LEMMA ReadOnOf ==
    ASSUME NEW x, NEW q, NEW r, IoOK(x), Connection(x, q, r), x.connected, ~x.finished,
           \A i \in DOMAIN q : IsCurrent(x, q[i]) => q[i].op # "read"
    PROVE  LET y == ReadOn(x) IN
           /\ IoOK(y) /\ Connection(y, q, r) /\ SameGoals(x, y)
           /\ y.connected = x.connected /\ y.stopping = x.stopping /\ y.exit = x.exit
           /\ y.pending = x.pending /\ y.active = x.active /\ y.gen = x.gen
           /\ y.finished = x.finished
<1>1. CASE x.stopping
  BY <1>1 DEF ReadOn, SameGoals
<1>2. CASE ~x.stopping
  <2>1. ReadOn(x) = WithOp(x, "read")
    BY <1>2 DEF ReadOn, WithOp
  <2>2. "read" \in Ops /\ x.open
    BY DEF Ops, Connection, ConnectedOK
  <2>3. MayBegin(x, q, "read")
    BY <2>2 DEF MayBegin
  <2>4. Connection(WithOp(x, "read"), q, r) /\ OpsOnly(x, WithOp(x, "read"))
    BY <2>3, ConnectionBegin
  <2> QED BY <2>1, <2>4 DEF OpsOnly
<1> QED BY <1>1, <1>2

\* A read completes with an error, a ping or a result.
LEMMA RunReadCases ==
    ASSUME Base, RunRead
    PROVE  \/ io' = HandleConnectionFailure(io)
           \/ io' = ReadOn(QueueFrameOnIo(io, FrameOf("pong"), "highPriority"))
           \/ io' = ReadOn(CompleteBehaviorGoal(io, Head(ready).id))
<1>1. RunOp("read") /\ Run("op")
  BY DEF RunRead, RunOp
<1>2. Head(ready).got \in {"error", "ping", "result"}
  <2>1. Head(ready).got \in {"ok", "error", "ping", "result"} /\ Head(ready).run = "op"
    BY <1>1, RunFacts, HandlerOp
  <2>2. Head(ready).op = "read"
    BY <1>1, RunOpFacts
  <2>3. ready \in Seq(Handler) /\ ready # <<>>
    BY <1>1, RunFacts
  <2>4. 1 \in DOMAIN ready /\ Head(ready) = ready[1]
    BY <2>3
  <2> QED BY <2>1, <2>2, <2>4 DEF Base, Control
<1>3. CASE Head(ready).got = "error"
  BY <1>3 DEF RunRead, Failed
<1>4. CASE Head(ready).got = "ping"
  BY <1>4 DEF RunRead, Failed
<1>5. CASE Head(ready).got = "result"
  BY <1>5 DEF RunRead, Failed
<1> QED BY <1>2, <1>3, <1>4, <1>5

LEMMA RunReadKeeps == ASSUME Base, RunRead PROVE HandlerKeeps
<1>1. RunOp("read") /\ Run("op")
  BY DEF RunRead, RunOp
<1>2. IoOK(io) /\ ~io.finished /\ io.exit = "none" /\ Connection(io, ready', robot)
  BY <1>1, RunFacts
<1>3. /\ io.connected
      /\ \A i \in DOMAIN ready' : IsCurrent(io, ready'[i]) => ready'[i].op # "read"
  BY <1>1, RunFacts, RunOpFacts
<1>4. CASE io' = HandleConnectionFailure(io)
  BY <1>1, <1>2, <1>4, HandleConnectionFailureOf, KeepsSevered
<1>5. CASE io' = ReadOn(QueueFrameOnIo(io, FrameOf("pong"), "highPriority"))
  <2> DEFINE z == QueueFrameOnIo(io, FrameOf("pong"), "highPriority")
  <2>1. FrameOf("pong") \in Frame /\ "highPriority" \in Modes
    BY FrameTypes DEF Modes
  <2>2. /\ IoOK(z) /\ Connection(z, ready', robot) /\ z.gen = io.gen /\ z.connected
        /\ z.stopping = io.stopping /\ z.finished = io.finished
    BY <1>2, <1>3, <2>1, ConnectionQueue
  <2> HIDE DEF z
  <2>3. \A i \in DOMAIN ready' : IsCurrent(z, ready'[i]) => ready'[i].op # "read"
    BY <1>3, <2>2 DEF IsCurrent
  <2>4. IoOK(io') /\ Connection(io', ready', robot) /\ io'.stopping = z.stopping
    BY <1>2, <1>5, <2>2, <2>3, ReadOnOf DEF z
  <2> QED BY <2>2, <2>4 DEF HandlerKeeps, Base, Control
<1>6. CASE io' = ReadOn(CompleteBehaviorGoal(io, Head(ready).id))
  <2> DEFINE z == CompleteBehaviorGoal(io, Head(ready).id)
  <2>1. IoOK(z) /\ Quiet(io, z)
    BY <1>2, CompleteOf
  <2> HIDE DEF z
  <2>2. Connection(z, ready', robot)
    BY <1>2, <2>1, ConnectionQuiet
  <2>3. /\ z.connected /\ ~z.finished
        /\ \A i \in DOMAIN ready' : IsCurrent(z, ready'[i]) => ready'[i].op # "read"
    BY <1>2, <1>3, <2>1 DEF IsCurrent, Quiet
  <2>4. IoOK(io') /\ Connection(io', ready', robot) /\ io'.stopping = z.stopping
    BY <1>6, <2>1, <2>2, <2>3, ReadOnOf DEF z
  <2> QED BY <2>1, <2>4 DEF HandlerKeeps, Base, Control, Quiet
<1> QED BY <1>4, <1>5, <1>6, RunReadCases

LEMMA HandlerFrame ==
    ASSUME NEW h \in Handler, h.run = "velocity"
    PROVE  h.frame \in Frame /\ IsCommand(h.frame)
BY DEF Handler, Frame, FrameKinds, IsCommand

\* A velocity is dropped, or queued on the connection.
VelocityMode(frame) == IF frame.kind = "stop" THEN "discardPending" ELSE "replaceLatest"

LEMMA RunVelocityCases ==
    ASSUME RunVelocity
    PROVE  \/ (~running \/ ~io.connected \/ io.stopping) /\ io' = io
           \/ /\ running /\ io.connected /\ ~io.stopping
              /\ io' = QueueFrameOnIo(io, Head(ready).frame, VelocityMode(Head(ready).frame))
BY DEF RunVelocity, VelocityMode

LEMMA RunVelocityKeeps == ASSUME Base, RunVelocity PROVE HandlerKeeps
<1>1. Run("velocity")
  BY DEF RunVelocity
<1>2. IoOK(io) /\ Connection(io, ready', robot) /\ Head(ready) \in Handler
      /\ Head(ready).run = "velocity"
  BY <1>1, RunFacts
<1>3. CASE io' = io
  BY <1>1, <1>2, <1>3, KeepsSevered DEF Quiet
<1>4. CASE io.connected /\ io' = QueueFrameOnIo(io, Head(ready).frame, VelocityMode(Head(ready).frame))
  <2>1. Head(ready).frame \in Frame /\ VelocityMode(Head(ready).frame) \in Modes
    BY <1>2, HandlerFrame DEF VelocityMode, Modes
  <2>2. IoOK(io') /\ Connection(io', ready', robot) /\ io'.stopping = io.stopping
    BY <1>2, <1>4, <2>1, ConnectionQueue
  <2> QED BY <2>2 DEF HandlerKeeps, Base, Control
<1> QED BY <1>3, <1>4, RunVelocityCases

\* A goal is refused, or remembered with its timer and its frame queued.
WithGoal(x, id, req) ==
    [x EXCEPT !.goals = [i \in DOMAIN @ \cup {id} |-> IF i = id THEN req ELSE @[i]],
              !.timers = @ \cup {GoalTimer(id)}]

\* Request req is remembered as the goal id.
Remembered(x, y, id, req) ==
    /\ y.answers = x.answers /\ DOMAIN y.goals = DOMAIN x.goals \cup {id}
    /\ \A i \in DOMAIN y.goals : y.goals[i] = IF i = id THEN req ELSE x.goals[i]

LEMMA WithGoalOf ==
    ASSUME NEW x, IoOK(x), NEW id \in Nat, NEW req \in Nat
    PROVE  LET y == WithGoal(x, id, req) IN
           IoOK(y) /\ Quiet(x, y) /\ Remembered(x, y, id, req)
<1> DEFINE y == WithGoal(x, id, req)
           g == [i \in DOMAIN x.goals \cup {id} |-> IF i = id THEN req ELSE x.goals[i]]
           ts == x.timers \cup {GoalTimer(id)}
<1>1. y = [x EXCEPT !.goals = g, !.timers = ts]
  BY DEF WithGoal
<1>2. ts \subseteq Timers
  BY TimerTypes DEF IoOK
<1>3. DOMAIN g = DOMAIN x.goals \cup {id}
      /\ \A i \in DOMAIN g : g[i] = IF i = id THEN req ELSE x.goals[i]
  OBVIOUS
<1> HIDE DEF y, g, ts
<1>4. /\ DOMAIN y = Fields /\ y.goals = g /\ y.timers = ts /\ Quiet(x, y)
      /\ y.answers = x.answers /\ y.initial = x.initial
  BY <1>1 DEF IoOK, Fields, Quiet
<1>5. IoOK(y)
  BY <1>2, <1>3, <1>4 DEF IoOK, Quiet
<1>6. Remembered(x, y, id, req)
  BY <1>3, <1>4 DEF Remembered
<1> QED BY <1>4, <1>5, <1>6 DEF y

GoalFrame(id) == [kind |-> "goal", n |-> id]

LEMMA HandlerGoal ==
    ASSUME NEW h \in Handler, h.run = "goal"
    PROVE  h.id \in Nat /\ h.req \in Nat /\ GoalFrame(h.id) \in Frame
BY DEF Handler, GoalFrame, Frame, FrameKinds

LEMMA RunGoalCases ==
    ASSUME Base, RunGoal
    PROVE  \/ io' = Answer(io, {Head(ready).req})
           \/ /\ running /\ io.connected /\ ~io.stopping
              /\ io' = QueueFrameOnIo(WithGoal(io, Head(ready).id, Head(ready).req),
                                      GoalFrame(Head(ready).id), "append")
<1>1. CASE ~running \/ ~io.connected \/ io.stopping \/ ~io.open
  BY <1>1 DEF RunGoal
<1>2. CASE ~(~running \/ ~io.connected \/ io.stopping \/ ~io.open)
  BY <1>2 DEF RunGoal, WithGoal, GoalFrame
<1> QED BY <1>1, <1>2

LEMMA RunGoalKeeps == ASSUME Base, RunGoal PROVE HandlerKeeps
<1>1. Run("goal")
  BY DEF RunGoal
<1>2. IoOK(io) /\ Connection(io, ready', robot) /\ Head(ready) \in Handler
      /\ Head(ready).run = "goal"
  BY <1>1, RunFacts
<1> DEFINE h == Head(ready)
           z == WithGoal(io, h.id, h.req)
<1>3. h.id \in Nat /\ h.req \in Nat /\ GoalFrame(h.id) \in Frame /\ "append" \in Modes
  BY <1>2, HandlerGoal DEF Modes
<1>4. CASE io' = Answer(io, {h.req})
  <2>1. IoOK(io') /\ Quiet(io, io')
    BY <1>2, <1>4, AnswerOf
  <2> QED BY <1>1, <2>1, KeepsSevered DEF Quiet
<1>5. CASE io.connected /\ io' = QueueFrameOnIo(z, GoalFrame(h.id), "append")
  <2>1. IoOK(z) /\ Quiet(io, z)
    BY <1>2, <1>3, WithGoalOf
  <2> HIDE DEF z
  <2>2. Connection(z, ready', robot) /\ z.connected
    BY <1>2, <1>5, <2>1, ConnectionQuiet DEF Quiet
  <2>3. IoOK(io') /\ Connection(io', ready', robot) /\ io'.stopping = z.stopping
    BY <1>3, <1>5, <2>1, <2>2, ConnectionQueue
  <2> QED BY <2>1, <2>3 DEF HandlerKeeps, Base, Control, Quiet
<1> QED BY <1>4, <1>5, RunGoalCases

\* Shutdown: at once without a connection, otherwise after a zero velocity.
Halting(x) == [x EXCEPT !.stopping = TRUE,
                        !.timers = {t \in @ : t.timer \notin {"operation", "reconnect"}}]
HaltingFrame(x) == [Halting(x) EXCEPT !.pending = <<FrameOf("zero")>>,
                                      !.timers = @ \cup {ShutdownTimer}]

LEMMA HaltingOf ==
    ASSUME NEW x, IoOK(x)
    PROVE  /\ IoOK(Halting(x)) /\ SameGoals(x, Halting(x))
           /\ Halting(x).gen = x.gen /\ Halting(x).connected = x.connected
           /\ Halting(x).open = x.open /\ Halting(x).stopping
           /\ Halting(x).finished = x.finished /\ Halting(x).exit = x.exit
           /\ Halting(x).pending = x.pending /\ Halting(x).active = x.active
           /\ Halting(x).ops = x.ops
<1> DEFINE ts == {t \in x.timers : t.timer \notin {"operation", "reconnect"}}
<1>1. Halting(x) = [x EXCEPT !.stopping = TRUE, !.timers = ts]
  BY DEF Halting
<1>2. ts \subseteq Timers
  BY DEF IoOK
<1> HIDE DEF ts
<1> QED BY <1>1, <1>2 DEF IoOK, Fields, SameGoals

LEMMA HaltingFrameOf ==
    ASSUME NEW x, IoOK(x)
    PROVE  /\ IoOK(HaltingFrame(x)) /\ SameGoals(x, HaltingFrame(x))
           /\ HaltingFrame(x).gen = x.gen /\ HaltingFrame(x).connected = x.connected
           /\ HaltingFrame(x).open = x.open /\ HaltingFrame(x).stopping
           /\ HaltingFrame(x).finished = x.finished /\ HaltingFrame(x).exit = x.exit
           /\ HaltingFrame(x).pending = <<FrameOf("zero")>>
           /\ HaltingFrame(x).active = x.active /\ HaltingFrame(x).ops = x.ops
<1> DEFINE z == Halting(x)
           ts == z.timers \cup {ShutdownTimer}
           p == <<FrameOf("zero")>>
<1>1. /\ IoOK(z) /\ SameGoals(x, z) /\ z.gen = x.gen /\ z.connected = x.connected
      /\ z.open = x.open /\ z.stopping /\ z.finished = x.finished /\ z.exit = x.exit
      /\ z.active = x.active /\ z.ops = x.ops
  BY HaltingOf
<1>2. HaltingFrame(x) = [z EXCEPT !.pending = p, !.timers = ts]
  BY DEF HaltingFrame
<1> HIDE DEF z
<1>3. ts \subseteq Timers /\ p \in Seq(Frame)
  BY <1>1, TimerTypes, FrameTypes DEF IoOK
<1> HIDE DEF ts, p
<1>4. /\ IoOK(HaltingFrame(x)) /\ SameGoals(z, HaltingFrame(x))
      /\ HaltingFrame(x).gen = z.gen /\ HaltingFrame(x).connected = z.connected
      /\ HaltingFrame(x).open = z.open /\ HaltingFrame(x).stopping
      /\ HaltingFrame(x).finished = z.finished /\ HaltingFrame(x).exit = z.exit
      /\ HaltingFrame(x).pending = p
      /\ HaltingFrame(x).active = z.active /\ HaltingFrame(x).ops = z.ops
  BY <1>1, <1>2, <1>3 DEF IoOK, Fields, SameGoals
<1> QED BY <1>1, <1>4 DEF SameGoals, p

LEMMA RunBeginShutdownCases ==
    ASSUME Base, RunBeginShutdown
    PROVE  /\ ~running
           /\ \/ ~io.connected /\ io' = FinishShutdown(Halting(io), "notConnected")
              \/ io.connected /\ io' = StartWrite(HaltingFrame(io))
<1>1. Run("beginShutdown") /\ io' = BeginShutdown(io)
  BY DEF RunBeginShutdown
<1>2. ~io.finished /\ ready \in Seq(Handler) /\ ready # <<>> /\ Head(ready).run = "beginShutdown"
  BY <1>1, RunFacts
<1>3. ~running
  <2>1. 1 \in DOMAIN ready /\ Head(ready) = ready[1]
    BY <1>2
  <2> QED BY <1>2, <2>1 DEF Base, Control
<1>4. CASE ~io.connected
  BY <1>1, <1>2, <1>3, <1>4 DEF BeginShutdown, Halting
<1>5. CASE io.connected
  BY <1>1, <1>2, <1>3, <1>5 DEF BeginShutdown, Halting, HaltingFrame
<1> QED BY <1>3, <1>4, <1>5

LEMMA RunBeginShutdownKeeps == ASSUME Base, RunBeginShutdown PROVE HandlerKeeps
<1>1. Run("beginShutdown") /\ ~running
  BY RunBeginShutdownCases DEF RunBeginShutdown
<1>2. IoOK(io) /\ ~io.finished /\ Connection(io, ready', robot) /\ ready' \in Seq(Handler)
  BY <1>1, RunFacts
<1>3. CASE ~io.connected /\ io' = FinishShutdown(Halting(io), "notConnected")
  <2> DEFINE z == Halting(io)
  <2>1. IoOK(z) /\ z.gen = io.gen /\ ~z.finished
    BY <1>2, HaltingOf
  <2> HIDE DEF z
  <2>2. IoOK(io') /\ Severed(z, io')
    BY <1>3, <2>1, FinishShutdownOf DEF z
  <2>3. Severed(io, io')
    BY <2>1, <2>2 DEF Severed
  <2>4. Connection(io', ready', robot)
    BY <1>2, <2>2, <2>3, ConnectionSevered
  <2> QED BY <1>1, <2>2, <2>4 DEF HandlerKeeps
<1>4. CASE io.connected /\ io' = StartWrite(HaltingFrame(io))
  <2> DEFINE z == HaltingFrame(io)
  <2>1. /\ IoOK(z) /\ z.gen = io.gen /\ z.connected = io.connected /\ z.open = io.open
        /\ z.finished = io.finished /\ z.exit = io.exit /\ z.active = io.active /\ z.ops = io.ops
    BY <1>2, HaltingFrameOf
  <2> HIDE DEF z
  <2>2. Connection(z, ready', robot)
    BY <1>2, <1>4, <2>1
       DEF Connection, OneOfEach, OpenOK, ConnectedOK, ConnectingOK, WriteOK, WrittenOK,
           NoneBehind, Ended, IsCurrent
  <2>3. IoOK(io') /\ Connection(io', ready', robot)
    BY <1>4, <2>1, <2>2, StartWriteOf, ConnectionStartWrite DEF z
  <2> QED BY <1>1, <2>3 DEF HandlerKeeps
<1> QED BY <1>3, <1>4, RunBeginShutdownCases

LEMMA RunTimerCases ==
    ASSUME Base, RunTimer
    PROVE  \/ io' = io \/ io' = HandleConnectionFailure(io) \/ io' = DoConnect(io)
           \/ io' = FinishShutdown(io, "timeout")
           \/ io' = CompleteBehaviorGoal(io, Head(ready).timer.n)
<1>1. Run("timer")
  BY DEF RunTimer
<1>2. Head(ready).timer.timer \in {"operation", "reconnect", "shutdown", "goal"}
  BY <1>1, RunFacts DEF Handler, Timers
<1>3. CASE Head(ready).timer.timer = "operation"
  BY <1>3 DEF RunTimer
<1>4. CASE Head(ready).timer.timer = "reconnect"
  BY <1>4 DEF RunTimer
<1>5. CASE Head(ready).timer.timer = "shutdown"
  BY <1>5 DEF RunTimer
<1>6. CASE Head(ready).timer.timer = "goal"
  BY <1>6 DEF RunTimer
<1> QED BY <1>2, <1>3, <1>4, <1>5, <1>6

LEMMA RunTimerKeeps == ASSUME Base, RunTimer PROVE HandlerKeeps
<1>1. Run("timer")
  BY DEF RunTimer
<1>2. IoOK(io) /\ ~io.finished /\ io.exit = "none"
  BY <1>1, RunFacts
<1>3. IoOK(io') /\ (Severed(io, io') \/ Quiet(io, io')) /\ io'.stopping = io.stopping
  <2>1. CASE io' = io
    BY <1>2, <2>1 DEF Quiet
  <2>2. CASE io' = HandleConnectionFailure(io)
    BY <1>2, <2>2, HandleConnectionFailureOf
  <2>3. CASE io' = DoConnect(io)
    BY <1>2, <2>3, DoConnectOf DEF Quiet
  <2>4. CASE io' = FinishShutdown(io, "timeout")
    BY <1>2, <2>4, FinishShutdownOf
  <2>5. CASE io' = CompleteBehaviorGoal(io, Head(ready).timer.n)
    BY <1>2, <2>5, CompleteOf DEF Quiet
  <2> QED BY <2>1, <2>2, <2>3, <2>4, <2>5, RunTimerCases
<1> QED BY <1>1, <1>3, KeepsSevered

LEMMA RunHandlerKeeps == ASSUME Base, RunHandler PROVE HandlerKeeps
BY RunStaleOpKeeps, RunDoConnectKeeps, RunHandshakeKeeps, RunConnectionStopWrittenKeeps,
   RunWrittenKeeps, RunReadKeeps, RunVelocityKeeps, RunGoalKeeps, RunBeginShutdownKeeps,
   RunTimerKeeps DEF RunHandler

LEMMA RunHandlerBase == ASSUME Base, RunHandler PROVE Base'
<1>1. HandlerKeeps
  BY RunHandlerKeeps
<1>2. PICK kind : Run(kind)
  BY DEF RunHandler, RunStaleOp, RunDoConnect, RunHandshake, RunConnectionStopWritten,
         RunWritten, RunRead, RunVelocity, RunGoal, RunBeginShutdown, RunTimer, RunOp
<1>3. /\ ready \in Seq(Handler) /\ ready # <<>> /\ ready' = Tail(ready)
      /\ ready' \in Seq(Handler) /\ main # "closed"
      /\ UNCHANGED <<main, running, lastSent, commands, lastCommand, goals, pings, robot>>
  BY <1>2, RunFacts
<1>4. \A i \in DOMAIN ready' : i + 1 \in DOMAIN ready /\ ready'[i] = ready[i + 1]
  BY <1>3, TailOf
<1>5. Types'
  BY <1>1, <1>3 DEF HandlerKeeps, Base, Types
<1>6. Control'
  BY <1>1, <1>3, <1>4 DEF HandlerKeeps, Base, Control
<1> QED BY <1>1, <1>3, <1>5, <1>6 DEF HandlerKeeps, Base

\* Posting a handler that is no completion; velocities are posted while connected.
LEMMA ConnectionAppend ==
    ASSUME NEW x, NEW q \in Seq(Handler), NEW r, Connection(x, q, r),
           NEW h \in Handler, h.run # "op", IsVelocity(h) => x.connected
    PROVE  Connection(x, Append(q, h), r)
<1> DEFINE p == Append(q, h)
<1>1. \A i \in DOMAIN p : \/ i \in DOMAIN q /\ p[i] = q[i] /\ i \in Nat /\ i < Len(q) + 1
                          \/ i = Len(q) + 1 /\ p[i] = h
  BY AppendOf
<1> HIDE DEF p
<1>2. ~IsCurrent(x, h)
  BY DEF IsCurrent
<1>3. OneOfEach(x, p) /\ OpenOK(x, p) /\ ConnectedOK(x, p, r) /\ ConnectingOK(x, p)
  BY <1>1, <1>2 DEF Connection, OneOfEach, OpenOK, ConnectedOK, ConnectingOK
<1>4. WriteOK(x, p) /\ WrittenOK(x, p, r)
  BY <1>1, <1>2 DEF Connection, WriteOK, WrittenOK
<1>5. NoneBehind(x, p)
  <2> SUFFICES ASSUME NEW i \in DOMAIN p, NEW j \in DOMAIN p, i < j,
                      IsCurrent(x, p[i]), p[i].op = "stopWrite"
               PROVE  ~IsVelocity(p[j])
    BY DEF NoneBehind
  <2>1. i \in DOMAIN q /\ p[i] = q[i]
    BY <1>1, <1>2
  <2>2. ~x.connected
    BY <2>1 DEF Connection, ConnectedOK
  <2>3. CASE p[j] = h
    BY <2>2, <2>3
  <2>4. CASE j \in DOMAIN q /\ p[j] = q[j]
    BY <2>1, <2>4 DEF Connection, NoneBehind
  <2> QED BY <1>1, <2>3, <2>4
<1> QED BY <1>3, <1>4, <1>5 DEF Connection, p

\* x without an operation, the handler of its completion, and what the operation may
\* make of the robot r.
WithoutOp(x, op) == [x EXCEPT !.ops = @ \ {op}]

CompletionOf(x, op, got, id) == [run |-> "op", op |-> op, gen |-> x.gen, got |-> got, id |-> id]

RobotAfter(x, op, got, r, s) ==
    /\ s.first \in {"none", "zero"}
    /\ x.connected => s.first = r.first /\ (op = "write" \/ s.motion = r.motion)
    /\ got # "error" =>
          /\ op = "stopWrite" => s.first = "zero" /\ s.motion = "stopped"
          /\ op = "write" /\ x.active.kind \in {"stop", "zero"} => s.motion = "stopped"

Completing(x, q, s, y, h) ==
    h \in Handler /\ IoOK(y) /\ Connection(y, Append(q, h), s) /\ y.stopping = x.stopping

\* An outstanding operation completes; s is the robot afterwards.
LEMMA ConnectionCompletes ==
    ASSUME NEW x, NEW q \in Seq(Handler), NEW r, NEW s, IoOK(x), Connection(x, q, r),
           NEW op \in x.ops, NEW got \in {"ok", "error", "ping", "result"}, NEW id \in Nat,
           RobotAfter(x, op, got, r, s)
    PROVE  Completing(x, q, s, WithoutOp(x, op), CompletionOf(x, op, got, id))
<1> DEFINE y == WithoutOp(x, op)
           h == CompletionOf(x, op, got, id)
           p == Append(q, h)
<1>r. /\ s.first \in {"none", "zero"}
      /\ x.connected => s.first = r.first /\ (op = "write" \/ s.motion = r.motion)
      /\ got # "error" =>
            /\ op = "stopWrite" => s.first = "zero" /\ s.motion = "stopped"
            /\ op = "write" /\ x.active.kind \in {"stop", "zero"} => s.motion = "stopped"
  BY DEF RobotAfter
<1>1. h \in Handler
  BY DEF Handler, IoOK, CompletionOf
<1>2. /\ IoOK(y) /\ SameGoals(x, y) /\ y.ops = x.ops \ {op}
      /\ y.pending = x.pending /\ y.active = x.active /\ y.connected = x.connected
      /\ y.stopping = x.stopping /\ y.finished = x.finished /\ y.exit = x.exit
      /\ y.timers = x.timers /\ y.gen = x.gen /\ y.open = x.open
  BY DEF IoOK, Fields, SameGoals, WithoutOp
<1>3. h.run = "op" /\ h.op = op /\ h.gen = x.gen /\ h.got = got /\ x.gen \in Nat
  BY DEF IoOK, CompletionOf
<1> HIDE DEF h, y
<1>4. \A i \in DOMAIN p : \/ i \in DOMAIN q /\ p[i] = q[i] /\ i \in Nat /\ i < Len(q) + 1
                          \/ i = Len(q) + 1 /\ p[i] = h
  BY <1>1, AppendOf
<1> HIDE DEF p
<1>5. \A i \in DOMAIN q : IsCurrent(y, q[i]) <=> IsCurrent(x, q[i])
  BY <1>2 DEF IsCurrent
<1>6. IsCurrent(y, h)
  BY <1>2, <1>3 DEF IsCurrent
<1>7. \A i \in DOMAIN q : IsCurrent(x, q[i]) => q[i].op # op
  BY DEF Connection, OneOfEach
<1>8. ~x.connected => \A i \in DOMAIN q : ~IsCurrent(x, q[i])
  BY <1>7 DEF Connection, ConnectingOK
<1>9. OneOfEach(y, p)
  <2>1. OneOfEach(x, q)
    BY DEF Connection
  <2>2. \A i \in DOMAIN p : p[i].run = "op" => p[i].gen <= y.gen
    BY <1>2, <1>3, <1>4, <2>1 DEF OneOfEach
  <2>3. \A i \in DOMAIN p : IsCurrent(y, p[i]) => p[i].op \notin y.ops
    BY <1>2, <1>3, <1>4, <1>5, <2>1 DEF OneOfEach
  <2>4. \A i, j \in DOMAIN p :
           i # j /\ IsCurrent(y, p[i]) /\ IsCurrent(y, p[j]) => p[i].op # p[j].op
    BY <1>3, <1>4, <1>5, <1>7, <2>1 DEF OneOfEach
  <2> QED BY <2>2, <2>3, <2>4 DEF OneOfEach
<1>10. OpenOK(y, p) /\ ConnectedOK(y, p, s)
  BY <1>2, <1>3, <1>4, <1>5, <1>6, <1>r DEF Connection, OpenOK, ConnectedOK
<1>11. ConnectingOK(y, p)
  BY <1>2, <1>3, <1>4, <1>5, <1>6, <1>8 DEF Connection, ConnectingOK
<1>12. WriteOK(y, p) /\ Ended(y)
  <2>1. WriteOK(x, q) /\ Ended(x)
    BY DEF Connection
  <2>2. WriteOK(y, p)
    BY <1>2, <1>3, <1>4, <1>5, <2>1 DEF WriteOK
  <2>3. Ended(y)
    BY <1>2, <2>1 DEF Ended
  <2> QED BY <2>2, <2>3
<1>13. WrittenOK(y, p, s)
  <2> SUFFICES ASSUME NEW i \in DOMAIN p, IsCurrent(y, p[i]), p[i].got # "error"
               PROVE  /\ p[i].op = "stopWrite" => s.first = "zero" /\ s.motion = "stopped"
                      /\ p[i].op = "write" /\ y.active.kind \in {"stop", "zero"}
                            => s.motion = "stopped"
    BY DEF WrittenOK
  <2>1. CASE p[i] = h
    BY <1>2, <1>3, <1>r, <2>1
  <2>2. CASE i \in DOMAIN q /\ p[i] = q[i]
    <3>1. IsCurrent(x, q[i]) /\ x.connected /\ q[i].op # op
      BY <1>5, <1>7, <1>8, <2>2
    <3>2. q[i].op \in {"write", "read"}
      BY <2>2, <3>1 DEF Connection, ConnectedOK
    <3>3. q[i].op = "write" /\ x.active.kind \in {"stop", "zero"} => r.motion = "stopped"
      BY <2>2, <3>1 DEF Connection, WrittenOK
    <3> QED BY <1>2, <1>r, <2>2, <3>1, <3>2, <3>3
  <2> QED BY <1>4, <2>1, <2>2
<1>14. NoneBehind(y, p)
  <2> SUFFICES ASSUME NEW i \in DOMAIN p, NEW j \in DOMAIN p, i < j,
                      IsCurrent(y, p[i]), p[i].op = "stopWrite"
               PROVE  ~IsVelocity(p[j])
    BY DEF NoneBehind
  <2>1. CASE p[j] = h
    BY <1>3, <2>1 DEF IsVelocity
  <2>2. CASE j \in DOMAIN q /\ p[j] = q[j]
    <3>1. i \in DOMAIN q /\ p[i] = q[i]
      BY <1>4, <2>2
    <3> QED BY <1>5, <2>2, <3>1 DEF Connection, NoneBehind
  <2> QED BY <1>4, <2>1, <2>2
<1> QED BY <1>1, <1>2, <1>9, <1>10, <1>11, <1>12, <1>13, <1>14, <1>r DEF Connection, Completing, h, y, p

\* Posting changes nothing of what Control says of the queue, except for a shutdown.
LEMMA ControlAppend ==
    ASSUME Base, NEW h \in Handler, ready' = Append(ready, h),
           h.run = "op" /\ h.op = "read" => h.got # "ok",
           h.run = "beginShutdown" => ~running',
           running' = running \/ ~running', main' # "closed",
           io'.stopping = io.stopping
    PROVE  Control' /\ ready' \in Seq(Handler)
<1>1. \A i \in DOMAIN ready' : (i \in DOMAIN ready /\ ready'[i] = ready[i]) \/ ready'[i] = h
  BY AppendOf DEF Base, Types
<1>2. ready' \in Seq(Handler)
  BY AppendOf DEF Base, Types
<1> QED BY <1>1, <1>2 DEF Base, Control

LEMMA CompletesBase ==
    ASSUME Base, NEW op \in Ops, NEW got \in {"ok", "error", "ping", "result"}, NEW id \in Nat,
           Completes(op, got, id), op = "read" => got # "ok",
           robot' \in RobotType, pings' \in Nat, RobotAfter(io, op, got, robot, robot')
    PROVE  Base' /\ io'.stopping = io.stopping
<1> DEFINE h == CompletionOf(io, op, got, id)
<1>1. /\ op \in io.ops /\ io' = WithoutOp(io, op) /\ ready' = Append(ready, h)
      /\ UNCHANGED <<main, running, lastSent, commands, lastCommand, goals>>
  BY DEF Completes, Post, WithoutOp, CompletionOf
<1>2. /\ h \in Handler /\ IoOK(io') /\ Connection(io', ready', robot')
      /\ io'.stopping = io.stopping
  <2>1. IoOK(io) /\ Connection(io, ready, robot) /\ ready \in Seq(Handler)
    BY DEF Base, Types
  <2>2. op \in io.ops
    BY <1>1
  <2>3. Completing(io, ready, robot', WithoutOp(io, op), h)
    BY <2>1, <2>2, ConnectionCompletes
  <2> HIDE DEF h
  <2> QED BY <1>1, <2>3 DEF Completing
<1>3. main # "closed"
  BY <1>1 DEF Base, Control
<1>4. h.run = "op" /\ h.op = op /\ h.got = got
  BY DEF CompletionOf
<1> HIDE DEF h
<1>5. Control' /\ ready' \in Seq(Handler)
  BY <1>1, <1>2, <1>3, <1>4, ControlAppend
<1> QED BY <1>1, <1>2, <1>5 DEF Base, Types

LEMMA WriteCompletesFrame ==
    ASSUME Base, NEW op \in {"stopWrite", "write"}, op \in io.ops
    PROVE  LET frame == IF op = "write" THEN io.active ELSE FrameOf("zero") IN
           /\ frame \in Frame /\ (op = "write" <=> io.connected)
           /\ Received(robot, frame) \in RobotType
           /\ Received(robot, frame).first = "zero"
<1> DEFINE frame == IF op = "write" THEN io.active ELSE FrameOf("zero")
<1>1. op = "write" => io.connected /\ io.active # NoFrame
  BY DEF Base, Connection, ConnectingOK, WriteOK
<1>2. op = "stopWrite" => ~io.connected
  BY DEF Base, Connection, ConnectedOK
<1>3. frame \in Frame
  BY <1>1, FrameTypes DEF Base, Types, IoOK
<1>4. robot \in RobotType /\ robot.first \in {"none", "zero"}
      /\ (io.connected => robot.first = "zero")
  BY DEF Base, Types, Connection, ConnectedOK
<1>5. frame.kind \in FrameKinds /\ frame.n \in Nat /\ (~io.connected => frame.kind = "zero")
  BY <1>1, <1>3, FrameTypes
<1> HIDE DEF frame
<1>6. Received(robot, frame) \in RobotType
  BY <1>4, <1>5 DEF Received, RobotType
<1>7. Received(robot, frame).first = "zero"
  BY <1>4, <1>5 DEF Received
<1> QED BY <1>1, <1>2, <1>3, <1>6, <1>7 DEF frame

LEMMA EnvironmentBase == ASSUME Base, Environment PROVE Base'
<1>0. robot \in RobotType /\ robot.first \in {"none", "zero"} /\ pings \in Nat
      /\ (io.connected => robot.first = "zero" /\ io.ops \subseteq {"write", "read"})
  BY DEF Base, Types, Connection, ConnectedOK
<1>1. ASSUME NEW got \in {"ok", "error"}, HandshakeCompletes(got) PROVE Base'
  <2>1. Completes("handshake", got, 0) /\ robot' = [robot EXCEPT !.first = "none"]
        /\ pings' = pings
    BY <1>1 DEF HandshakeCompletes
  <2>2. "handshake" \in io.ops /\ "handshake" \in Ops
    BY <2>1 DEF Completes, Ops
  <2>3. ~io.connected
    BY <1>0, <2>2
  <2>4. robot' \in RobotType /\ robot'.first = "none"
    BY <1>0, <2>1 DEF RobotType
  <2>5. pings' \in Nat /\ got \in {"ok", "error", "ping", "result"} /\ 0 \in Nat
    BY <1>0, <2>1
  <2>6. RobotAfter(io, "handshake", got, robot, robot')
    BY <2>3, <2>4 DEF RobotAfter
  <2> QED BY <2>1, <2>2, <2>4, <2>5, <2>6, CompletesBase
<1>2. ASSUME NEW got \in {"ok", "error"}, NEW op \in Ops, WriteCompletes(op, got) PROVE Base'
  <2> DEFINE frame == IF op = "write" THEN io.active ELSE FrameOf("zero")
  <2>1. /\ op \in {"stopWrite", "write"} /\ Completes(op, got, 0) /\ op \in io.ops
        /\ robot' = Received(robot, frame) \/ (got = "error" /\ robot' = robot)
        /\ pings' = pings
    BY <1>2 DEF WriteCompletes, Completes
  <2>2. /\ frame \in Frame /\ (op = "write" <=> io.connected)
        /\ Received(robot, frame) \in RobotType
        /\ Received(robot, frame).first = "zero"
    BY <2>1, WriteCompletesFrame
  <2>3. frame.kind \in {"stop", "zero"} => Received(robot, frame).motion = "stopped"
    BY DEF Received
  <2>4. op = "stopWrite" => frame.kind = "zero"
    BY FrameTypes
  <2>5. op = "write" => frame = io.active
    OBVIOUS
  <2> HIDE DEF frame
  <2>6. RobotAfter(io, op, got, robot, robot')
    BY <1>0, <2>1, <2>2, <2>3, <2>4, <2>5 DEF RobotAfter
  <2>7. robot' \in RobotType /\ pings' \in Nat /\ got \in {"ok", "error", "ping", "result"} /\ 0 \in Nat
    BY <1>0, <2>1, <2>2
  <2>8. op # "read" /\ op \in Ops
    BY <2>1
  <2> QED BY <2>1, <2>6, <2>7, <2>8, CompletesBase
<1>3. ASSUME NEW got \in {"error", "ping", "result"}, NEW id \in Nat, ReadCompletes(got, id)
      PROVE  Base'
  <2>1. /\ Completes("read", got, id) /\ pings' \in {pings, pings + 1}
        /\ robot' = [robot EXCEPT !.todo = IF got = "result" THEN @ \ {id} ELSE @]
    BY <1>3 DEF ReadCompletes
  <2>2. "read" \in io.ops /\ "read" \in Ops
    BY <2>1 DEF Completes, Ops
  <2>3. robot' \in RobotType /\ robot'.first = robot.first /\ robot'.motion = robot.motion
    BY <1>0, <2>1 DEF RobotType
  <2>4. pings' \in Nat /\ got \in {"ok", "error", "ping", "result"} /\ got # "ok"
    BY <1>0, <2>1
  <2>5. RobotAfter(io, "read", got, robot, robot')
    BY <1>0, <2>2, <2>3 DEF RobotAfter
  <2> QED BY <2>1, <2>2, <2>3, <2>4, <2>5, CompletesBase
<1>4. ASSUME NEW kind, SomeTimerExpires(kind) PROVE Base'
  <2>1. PICK t \in io.timers : TimerExpires(t)
    BY <1>4 DEF SomeTimerExpires
  <2> DEFINE h == [run |-> "timer", timer |-> t]
  <2>2. /\ io' = [io EXCEPT !.timers = @ \ {t}] /\ ready' = Append(ready, h)
        /\ UNCHANGED <<main, running, lastSent, commands, lastCommand, goals, pings, robot>>
    BY <2>1 DEF TimerExpires, Post
  <2>3. h \in Handler /\ h.run = "timer"
    BY DEF Base, Types, IoOK, Handler
  <2>4. main # "closed"
    BY DEF Base, Control
  <2>5. IoOK(io') /\ Quiet(io, io')
    BY <2>2 DEF Base, Types, IoOK, Fields, Quiet
  <2> HIDE DEF h
  <2>6. Control' /\ ready' \in Seq(Handler)
    BY <2>2, <2>3, <2>4, <2>5, ControlAppend DEF Quiet
  <2>7. Connection(io, ready', robot)
    BY <2>2, <2>3, ConnectionAppend DEF Base, Types, IsVelocity
  <2>8. Connection(io', ready', robot')
    BY <2>2, <2>5, <2>7, ConnectionQuiet
  <2> QED BY <2>2, <2>5, <2>6, <2>8 DEF Base, Types
<1> QED BY <1>1, <1>2, <1>3, <1>4 DEF Environment

\* The main thread.
LEMMA MainThreadBase == ASSUME Base, MainThread PROVE Base'
<1>0. ready \in Seq(Handler) /\ IoOK(io) /\ Connection(io, ready, robot)
  BY DEF Base, Types
<1>1. CASE Start
  <2>1. /\ main = "closed" /\ main' = "opening" /\ running' = TRUE
        /\ io' = [io EXCEPT !.initial = "none", !.stopping = FALSE, !.finished = FALSE,
                            !.exit = "none"]
        /\ ready' = <<[run |-> "doConnect"]>>
        /\ UNCHANGED <<lastSent, commands, lastCommand, goals, pings, robot>>
    BY <1>1 DEF Start
  <2>2. /\ IoOK(io') /\ ~io'.stopping /\ ~io'.finished /\ io'.exit = "none"
        /\ io'.connected = io.connected /\ io'.ops = io.ops /\ io'.gen = io.gen
        /\ io'.pending = io.pending /\ io'.active = io.active
    BY <1>0, <2>1 DEF IoOK, Fields
  <2>3. [run |-> "doConnect"] \in Handler
    BY DEF Handler
  <2>4. /\ ready' \in Seq(Handler) /\ DOMAIN ready' = {1} /\ ready'[1].run = "doConnect"
    BY <2>1, <2>3
  <2>5. ~io.connected /\ io.ops = {}
    BY <2>1 DEF Base, Control
  <2>6. Connection(io', ready', robot')
    BY <1>0, <2>1, <2>2, <2>4, <2>5
       DEF Connection, OneOfEach, OpenOK, ConnectedOK, ConnectingOK, WriteOK, WrittenOK,
           NoneBehind, Ended, IsCurrent
  <2>7. Control'
    BY <2>1, <2>2, <2>4 DEF Control
  <2> QED BY <2>1, <2>2, <2>4, <2>6, <2>7 DEF Base, Types
<1>2. CASE StartSucceeds
  BY <1>2 DEF StartSucceeds, Base, Types, Control
<1>3. CASE Stop
  <2> DEFINE h == [run |-> "beginShutdown"]
  <2>1. /\ main' = "closing" /\ running' = FALSE /\ ready' = Append(ready, h)
        /\ UNCHANGED <<io, lastSent, commands, lastCommand, goals, pings, robot>>
    BY <1>3 DEF Stop, Post
  <2>2. h \in Handler /\ h.run = "beginShutdown"
    BY DEF Handler
  <2> HIDE DEF h
  <2>3. Control' /\ ready' \in Seq(Handler)
    BY <2>1, <2>2, ControlAppend
  <2>4. Connection(io', ready', robot')
    BY <1>0, <2>1, <2>2, ConnectionAppend DEF IsVelocity
  <2> QED BY <2>1, <2>3, <2>4 DEF Base, Types
<1>4. CASE StopJoins
  <2> DEFINE d == DropConnection(io)
  <2>1. /\ io.finished /\ main' = "closed" /\ io' = [d EXCEPT !.timers = {}] /\ ready' = <<>>
        /\ UNCHANGED <<running, lastSent, commands, lastCommand, goals, pings, robot>>
    BY <1>4 DEF StopJoins
  <2>2. /\ IoOK(d) /\ ~d.connected /\ d.pending = <<>> /\ d.active = NoFrame
        /\ d.ops = {} /\ d.stopping = io.stopping /\ d.finished = io.finished
        /\ d.exit = io.exit
    BY <1>0, DropConnectionOf
  <2> HIDE DEF d
  <2>3. /\ IoOK(io') /\ io'.connected = d.connected /\ io'.pending = d.pending
        /\ io'.active = d.active /\ io'.ops = d.ops /\ io'.stopping = d.stopping
        /\ io'.finished = d.finished /\ io'.exit = d.exit /\ io'.timers = {}
    BY <2>1, <2>2 DEF IoOK, Fields
  <2>4. ready' \in Seq(Handler) /\ DOMAIN ready' = {}
    BY <2>1
  <2>5. Connection(io', ready', robot')
    BY <1>0, <2>1, <2>2, <2>3, <2>4
       DEF Connection, OneOfEach, OpenOK, ConnectedOK, ConnectingOK, WriteOK, WrittenOK,
           NoneBehind, Ended, IsCurrent
  <2>6. Control'
    BY <2>1, <2>2, <2>3, <2>4 DEF Base, Control
  <2> QED BY <2>1, <2>3, <2>4, <2>5, <2>6 DEF Base, Types
<1>5. ASSUME NEW h \in Handler, h.run \in {"velocity", "goal"}, io.connected, ready' = Append(ready, h),
             UNCHANGED <<main, running, io, pings, robot>>, main = "open",
             lastSent' \in {"none", "move", "stop"}, lastCommand' \in {"move", "stop"},
             commands' \in Nat, goals' \in Nat
      PROVE  Base'
  <2>1. Control' /\ ready' \in Seq(Handler)
    BY <1>5, ControlAppend
  <2>2. Connection(io', ready', robot')
    BY <1>0, <1>5, ConnectionAppend
  <2> QED BY <1>5, <2>1, <2>2 DEF Base, Types
<1>6. ASSUME ready' = ready, UNCHANGED <<main, running, io, pings, robot>>,
             lastSent' \in {"none", "move", "stop"}, lastCommand' \in {"move", "stop"},
             commands' \in Nat, goals' \in Nat
      PROVE  Base'
  BY <1>6 DEF Base, Types, Control
<1>7. ASSUME NEW repeated \in BOOLEAN, ForwardMove(repeated) PROVE Base'
  <2> DEFINE h == [run |-> "velocity", frame |-> [kind |-> "move", n |-> commands']]
  <2>1. commands' \in Nat /\ lastCommand' = "move" /\ goals' = goals /\ goals \in Nat
        /\ lastSent \in {"none", "move", "stop"}
    BY <1>7 DEF ForwardMove, Base, Types
  <2>2. h \in Handler /\ h.run = "velocity"
    BY <2>1 DEF Handler
  <2>3. /\ io.connected /\ UNCHANGED <<main, running, io, pings, robot>> /\ main = "open"
        /\ \/ UNCHANGED <<ready, lastSent>>
           \/ ready' = Append(ready, h) /\ lastSent' = "move"
    BY <1>7 DEF ForwardMove, Post
  <2> HIDE DEF h
  <2> QED BY <1>5, <1>6, <2>1, <2>2, <2>3
<1>8. CASE ForwardStop
  <2> DEFINE h == [run |-> "velocity", frame |-> [kind |-> "stop", n |-> commands']]
  <2>1. commands' \in Nat /\ lastCommand' = "stop" /\ goals' = goals /\ goals \in Nat
        /\ lastSent \in {"none", "move", "stop"}
    BY <1>8 DEF ForwardStop, Base, Types
  <2>2. h \in Handler /\ h.run = "velocity"
    BY <2>1 DEF Handler
  <2>3. /\ UNCHANGED <<main, running, io, pings, robot>> /\ main = "open"
        /\ \/ UNCHANGED <<ready, lastSent>>
           \/ io.connected /\ ready' = Append(ready, h) /\ lastSent' = "stop"
    BY <1>8 DEF ForwardStop, Post
  <2> HIDE DEF h
  <2> QED BY <1>5, <1>6, <2>1, <2>2, <2>3
<1>9. CASE ForwardDogBehaviorGoal
  <2> DEFINE h == [run |-> "goal", id |-> goals', req |-> goals']
  <2>1. commands' = commands /\ lastCommand' = lastCommand /\ goals' \in Nat
        /\ lastSent' = lastSent
    BY <1>9 DEF ForwardDogBehaviorGoal, Base, Types
  <2>2. h \in Handler /\ h.run = "goal"
    BY <2>1 DEF Handler
  <2>3. /\ UNCHANGED <<main, running, io, pings, robot>> /\ main = "open"
        /\ io.connected /\ ready' = Append(ready, h)
    BY <1>9 DEF ForwardDogBehaviorGoal, Post
  <2> HIDE DEF h
  <2> QED BY <1>5, <2>1, <2>2, <2>3 DEF Base, Types
<1> QED BY <1>1, <1>2, <1>3, <1>4, <1>7, <1>8, <1>9 DEF MainThread

LEMMA InitBase == Init => Base
<1> SUFFICES ASSUME Init PROVE Base
  OBVIOUS
<1>1. io = IoInit /\ ready = <<>> /\ running = FALSE /\ main = "closed"
  BY DEF Init
<1>2. [r \in 1..MaxGoals |-> 0] \in [1..MaxGoals -> Nat] /\ DOMAIN <<>> = {}
  OBVIOUS
<1>3. IoOK(io)
  BY <1>1, <1>2 DEF IoInit, IoOK, Fields
<1>4. /\ io.ops = {} /\ ~io.connected /\ io.pending = <<>> /\ io.active = NoFrame
      /\ ~io.finished /\ io.exit = "none" /\ ~io.stopping /\ io.timers = {}
  BY <1>1 DEF IoInit
<1>5. robot \in RobotType /\ robot.first = "none"
  BY DEF Init, RobotType
<1>6. Connection(io, ready, robot)
  BY <1>1, <1>2, <1>4, <1>5
     DEF Connection, OneOfEach, OpenOK, ConnectedOK, ConnectingOK, WriteOK, WrittenOK,
         NoneBehind, Ended
<1>7. Types
  <2>1. <<>> \in Seq(Handler) /\ 0 \in Nat
    OBVIOUS
  <2> QED BY <1>1, <1>3, <1>5, <2>1 DEF Init, Types
<1>8. Control
  BY <1>1, <1>2, <1>4 DEF Control
<1> QED BY <1>6, <1>7, <1>8 DEF Base

LEMMA NextBase == Base /\ [Next]_vars => Base'
<1> SUFFICES ASSUME Base, [Next]_vars PROVE Base'
  OBVIOUS
<1>1. CASE UNCHANGED vars
  BY <1>1 DEF vars, Base, Types, Control
<1> QED BY <1>1, MainThreadBase, RunHandlerBase, EnvironmentBase DEF Next

LEMMA BaseInvariant == Spec => []Base
BY InitBase, NextBase, PTL DEF Spec

\* Every variable of the forwarder stays within its type, for any number of commands,
\* goals, reconnections and pings.
THEOREM ForwarderTypes == Spec => []TypeOK
<1>1. Base => TypeOK
  <2> SUFFICES ASSUME Base PROVE TypeOK
    OBVIOUS
  <2>1. IoOK(io) /\ DOMAIN IoInit = Fields
    BY DEF Base, Types, IoInit, Fields
  <2>2. io.connected \/ io.active # NoFrame => io.open
    BY DEF Base, Connection, ConnectedOK, ConnectingOK
  <2> QED BY <2>1, <2>2 DEF Base, Types, IoOK, TypeOK, RobotType
<1> QED BY <1>1, BaseInvariant, PTL

\* On every connection the first frame the robot gets is the zero velocity, so it never
\* goes on with the motion an earlier connection left it in.
THEOREM ConnectionsBeginStanding == Spec => []FirstFrameIsZero
<1>1. Base => FirstFrameIsZero
  BY DEF Base, Connection, FirstFrameIsZero
<1> QED BY <1>1, BaseInvariant, PTL

-----------------------------------------------------------------------------
(* What the queue ends in: why a stop and a shutdown leave a robot that stands. *)

\* No move waits after some frame of kind k; none waits at all; the active frame is
\* of kind k, or the robot stands and the active frame will not move it.
EndsQueued(p, k) ==
    \E i \in DOMAIN p : p[i].kind = k /\ \A j \in DOMAIN p : j > i => p[j].kind # "move"
NoMove(p) == \A i \in DOMAIN p : p[i].kind # "move"
Standing(x, r, k) == x.active.kind = k \/ (x.active.kind # "move" /\ r.motion = "stopped")
EndsIn(x, r, k) == EndsQueued(x.pending, k) \/ (NoMove(x.pending) /\ Standing(x, r, k))

Halts == {"stop", "zero"}

\* The queue decides, whatever else changes.
LEMMA EndsSame ==
    ASSUME NEW x, NEW y, NEW r, NEW k, EndsIn(x, r, k),
           y.pending = x.pending, y.active = x.active
    PROVE  EndsIn(y, r, k)
BY DEF EndsIn, Standing

\* Taking the head of the queue for the next write.
LEMMA EndsStartWrite ==
    ASSUME NEW x, NEW r, NEW k \in Halts, IoOK(x), EndsIn(x, r, k)
    PROVE  EndsIn(StartWrite(x), r, k)
<1> DEFINE y == StartWrite(x)
           p == x.pending
           t == Tail(p)
<1>1. y = x \/ WriteBegun(x, y)
  BY StartWriteOf
<1> HIDE DEF y
<1>2. CASE WriteBegun(x, y)
  <2> SUFFICES EndsIn(y, r, k)
    BY DEF y
  <2>1. x.active = NoFrame /\ p # <<>> /\ y.active = Head(p) /\ y.pending = t /\ p \in Seq(Frame)
    BY <1>2 DEF WriteBegun, IoOK
  <2>2. /\ 1 \in DOMAIN p /\ Head(p) = p[1]
        /\ \A i \in DOMAIN t : i + 1 \in DOMAIN p /\ t[i] = p[i + 1] /\ i \in Nat \ {0}
        /\ \A i \in DOMAIN p : i # 1 => i - 1 \in DOMAIN t /\ t[i - 1] = p[i]
        /\ \A i \in DOMAIN p : i \in Nat
    BY <2>1, TailOf
  <2> HIDE DEF p, t
  <2>3. CASE EndsQueued(p, k)
    <3>1. PICK i \in DOMAIN p : p[i].kind = k /\ \A j \in DOMAIN p : j > i => p[j].kind # "move"
      BY <2>3 DEF EndsQueued
    <3>2. \A j \in DOMAIN t : j + 1 > i => t[j].kind # "move"
      BY <2>2, <3>1
    <3>3. CASE i = 1
      <4>1. NoMove(t)
        BY <2>2, <3>2, <3>3 DEF NoMove
      <4> QED BY <2>1, <2>2, <3>1, <3>3, <4>1 DEF EndsIn, Standing
    <3>4. CASE i # 1
      <4>1. i - 1 \in DOMAIN t /\ t[i - 1].kind = k
        BY <2>2, <3>1, <3>4
      <4>2. \A j \in DOMAIN t : j > i - 1 => t[j].kind # "move"
        BY <2>2, <3>2
      <4> QED BY <2>1, <4>1, <4>2 DEF EndsIn, EndsQueued
    <3> QED BY <3>3, <3>4
  <2>4. CASE NoMove(p) /\ Standing(x, r, k)
    <3>1. r.motion = "stopped"
      BY <2>1, <2>4, FrameTypes DEF Standing, Halts
    <3>2. NoMove(t) /\ y.active.kind # "move"
      BY <2>1, <2>2, <2>4 DEF NoMove
    <3> QED BY <2>1, <3>1, <3>2 DEF EndsIn, Standing
  <2> QED BY <2>3, <2>4 DEF EndsIn, p
<1> QED BY <1>1, <1>2 DEF y

\* A frame that is no move, put at either end of the queue.
LEMMA EndsQueue ==
    ASSUME NEW x, NEW r, NEW k \in Halts, IoOK(x), x.open, EndsIn(x, r, k),
           NEW frame \in Frame, frame.kind # "move", NEW mode \in {"append", "highPriority"}
    PROVE  EndsIn(QueueFrameOnIo(x, frame, mode), r, k)
<1> DEFINE p == x.pending
           z == WithFrame(x, frame, mode)
           n == Queued(x.pending, frame, mode)
<1>1. mode \in Modes
  BY DEF Modes
<1>2. /\ IoOK(z) /\ QueueFrameOnIo(x, frame, mode) = StartWrite(z)
      /\ z.pending = n /\ z.active = x.active
  BY <1>1, QueueFrameOf
<1> HIDE DEF z
<1>3. EndsIn(z, r, k)
  <2>0. p \in Seq(Frame)
    BY DEF IoOK
  <2>1. CASE mode = "append"
    <3>1. n = Append(p, frame)
      BY <2>1 DEF Queued
    <3> HIDE DEF p, n
    <3>2. /\ \A i \in DOMAIN p : i \in DOMAIN n /\ n[i] = p[i] /\ i \in Nat
          /\ \A i \in DOMAIN n : n[i] = frame \/ (i \in DOMAIN p /\ n[i] = p[i])
      BY <2>0, <3>1, AppendOf
    <3>3. EndsQueued(p, k) => EndsQueued(n, k)
      BY <3>2 DEF EndsQueued
    <3>4. NoMove(p) => NoMove(n)
      BY <3>2 DEF NoMove
    <3> QED BY <1>2, <3>3, <3>4 DEF EndsIn, Standing, p
  <2>2. CASE mode = "highPriority"
    <3>1. n = <<frame>> \o p
      BY <2>2 DEF Queued
    <3> HIDE DEF p, n
    <3>2. /\ \A i \in DOMAIN p : i + 1 \in DOMAIN n /\ n[i + 1] = p[i] /\ i \in Nat
          /\ \A i \in DOMAIN n : /\ i \in Nat
                                 /\ n[i] = frame \/ (i - 1 \in DOMAIN p /\ n[i] = p[i - 1])
      BY <2>0, <3>1, PushOf
    <3>3. EndsQueued(p, k) => EndsQueued(n, k)
      <4> SUFFICES ASSUME EndsQueued(p, k) PROVE EndsQueued(n, k)
        OBVIOUS
      <4>1. PICK i \in DOMAIN p : p[i].kind = k /\ \A j \in DOMAIN p : j > i => p[j].kind # "move"
        BY DEF EndsQueued
      <4>2. i + 1 \in DOMAIN n /\ n[i + 1].kind = k
        BY <3>2, <4>1
      <4>3. \A j \in DOMAIN n : j > i + 1 => n[j].kind # "move"
        BY <3>2, <4>1
      <4> QED BY <4>2, <4>3 DEF EndsQueued
    <3>4. NoMove(p) => NoMove(n)
      BY <3>2 DEF NoMove
    <3> QED BY <1>2, <3>3, <3>4 DEF EndsIn, Standing, p
  <2> QED BY <2>1, <2>2
<1> QED BY <1>2, <1>3, EndsStartWrite

\* A stop that replaces the queue.
LEMMA EndsDiscard ==
    ASSUME NEW x, NEW r, IoOK(x), x.open, NEW frame \in Frame, frame.kind \in Halts
    PROVE  EndsIn(QueueFrameOnIo(x, frame, "discardPending"), r, frame.kind)
<1> DEFINE z == WithFrame(x, frame, "discardPending")
<1>1. /\ IoOK(z) /\ QueueFrameOnIo(x, frame, "discardPending") = StartWrite(z)
      /\ z.pending = Queued(x.pending, frame, "discardPending")
  BY QueueFrameOf DEF Modes
<1> HIDE DEF z
<1>2. z.pending = <<frame>>
  BY <1>1 DEF Queued
<1>3. EndsIn(z, r, frame.kind)
  BY <1>2 DEF EndsIn, EndsQueued
<1> QED BY <1>1, <1>3, EndsStartWrite

\* The active frame is written.
LEMMA EndsIdle ==
    ASSUME NEW x, NEW r, NEW k \in Halts, IoOK(x), EndsIn(x, r, k),
           x.active.kind \in Halts => r.motion = "stopped"
    PROVE  EndsIn(Idle(x), r, k)
<1>1. Idle(x).pending = x.pending /\ Idle(x).active.kind = "none"
  BY IdleOf, FrameTypes
<1>2. Standing(x, r, k) => Standing(Idle(x), r, k)
  BY <1>1 DEF Standing, Halts
<1> QED BY <1>1, <1>2 DEF EndsIn

\* The last velocity among the ready handlers is a stop, or none is left.
StopReady(q) ==
    \E i \in DOMAIN q : /\ IsVelocity(q[i]) /\ q[i].frame.kind = "stop"
                        /\ \A j \in DOMAIN q : j > i => ~IsVelocity(q[j])
NoVelocity(q) == \A i \in DOMAIN q : ~IsVelocity(q[i])
StopLast(x, q, r) == StopReady(q) \/ (NoVelocity(q) /\ EndsIn(x, r, "stop"))

LEMMA StopTail ==
    ASSUME NEW q \in Seq(Handler), q # <<>>
    PROVE  /\ StopReady(q) =>
                \/ StopReady(Tail(q))
                \/ IsVelocity(Head(q)) /\ Head(q).frame.kind = "stop" /\ NoVelocity(Tail(q))
           /\ NoVelocity(q) => NoVelocity(Tail(q)) /\ ~IsVelocity(Head(q))
<1> DEFINE t == Tail(q)
<1>1. /\ 1 \in DOMAIN q /\ Head(q) = q[1]
      /\ \A i \in DOMAIN t : i + 1 \in DOMAIN q /\ t[i] = q[i + 1] /\ i \in Nat \ {0}
      /\ \A i \in DOMAIN q : i # 1 => i - 1 \in DOMAIN t /\ t[i - 1] = q[i]
      /\ \A i \in DOMAIN q : i \in Nat
  BY TailOf
<1> HIDE DEF t
<1>2. NoVelocity(q) => NoVelocity(t) /\ ~IsVelocity(q[1])
  BY <1>1 DEF NoVelocity
<1>3. ASSUME StopReady(q)
      PROVE  StopReady(t) \/ (IsVelocity(q[1]) /\ q[1].frame.kind = "stop" /\ NoVelocity(t))
  <2>1. PICK i \in DOMAIN q : /\ IsVelocity(q[i]) /\ q[i].frame.kind = "stop"
                              /\ \A j \in DOMAIN q : j > i => ~IsVelocity(q[j])
    BY <1>3 DEF StopReady
  <2>2. \A j \in DOMAIN t : j + 1 > i => ~IsVelocity(t[j])
    BY <1>1, <2>1
  <2>3. CASE i = 1
    BY <1>1, <2>1, <2>2, <2>3 DEF NoVelocity
  <2>4. CASE i # 1
    <3>1. i - 1 \in DOMAIN t /\ IsVelocity(t[i - 1]) /\ t[i - 1].frame.kind = "stop"
      BY <1>1, <2>1, <2>4
    <3>2. \A j \in DOMAIN t : j > i - 1 => ~IsVelocity(t[j])
      BY <1>1, <2>2
    <3> QED BY <3>1, <3>2 DEF StopReady
  <2> QED BY <2>3, <2>4
<1> QED BY <1>1, <1>2, <1>3 DEF t

LEMMA StopAppend ==
    ASSUME NEW q \in Seq(Handler), NEW h \in Handler
    PROVE  /\ ~IsVelocity(h) => /\ StopReady(q) => StopReady(Append(q, h))
                                /\ NoVelocity(q) => NoVelocity(Append(q, h))
           /\ IsVelocity(h) /\ h.frame.kind = "stop" => StopReady(Append(q, h))
<1> DEFINE p == Append(q, h)
           n == Len(q) + 1
<1>1. /\ n \in DOMAIN p /\ p[n] = h /\ n \in Nat
      /\ \A i \in DOMAIN q : i \in DOMAIN p /\ p[i] = q[i] /\ i \in Nat /\ i < n
      /\ \A i \in DOMAIN p : i = n \/ i \in DOMAIN q
  BY AppendOf
<1> HIDE DEF p, n
<1>2. ~IsVelocity(h) /\ StopReady(q) => StopReady(p)
  BY <1>1 DEF StopReady
<1>3. ~IsVelocity(h) /\ NoVelocity(q) => NoVelocity(p)
  BY <1>1 DEF NoVelocity
<1>4. IsVelocity(h) /\ h.frame.kind = "stop" => StopReady(p)
  BY <1>1 DEF StopReady
<1> QED BY <1>2, <1>3, <1>4 DEF p

\* The invariant.  The first conjunct is about a forwarder that runs, the second about
\* one that is being shut down, the third about how the shutdown ended.
Ends ==
    /\ running /\ io.connected /\ lastCommand = "stop" => StopLast(io, ready, robot)
    /\ io.stopping /\ io.connected => EndsIn(io, robot, "zero")
    /\ io.exit = "written" => robot.motion = "stopped"

\* Handlers that are no velocities: the queue still ends as it did, or it ends in
\* everything because the connection has just begun, or the shutdown has.
LEMMA EndsFrom ==
    ASSUME Base, Ends, NEW kind, Run(kind), kind # "velocity",
           io'.exit = "written" => robot.motion = "stopped",
           io'.connected =>
               \/ /\ io.connected /\ io'.stopping = io.stopping
                  /\ \A k \in Halts : EndsIn(io, robot, k) => EndsIn(io', robot, k)
               \/ NoVelocity(ready') /\ \A k \in Halts : EndsIn(io', robot, k)
               \/ ~running /\ EndsIn(io', robot, "zero")
    PROVE  Ends'
<1>1. /\ ready \in Seq(Handler) /\ ready # <<>> /\ ready' = Tail(ready)
      /\ ~IsVelocity(Head(ready))
      /\ UNCHANGED <<main, running, lastSent, commands, lastCommand, goals, pings, robot>>
  BY RunFacts DEF IsVelocity
<1>2. /\ StopReady(ready) => StopReady(ready')
      /\ NoVelocity(ready) => NoVelocity(ready')
  BY <1>1, StopTail
<1>3. "stop" \in Halts /\ "zero" \in Halts
  BY DEF Halts
<1>4. running' /\ io'.connected /\ lastCommand' = "stop" => StopLast(io', ready', robot')
  BY <1>1, <1>2, <1>3 DEF Ends, StopLast
<1>5. io'.stopping /\ io'.connected => EndsIn(io', robot', "zero")
  BY <1>1, <1>3 DEF Ends
<1> QED BY <1>1, <1>4, <1>5 DEF Ends

\* A handler that loses the connection, or leaves all but timers and goals alone.
LEMMA EndsSevered ==
    ASSUME Base, Ends, NEW kind, Run(kind), kind # "velocity", io'.exit # "written",
           Severed(io, io') \/ Quiet(io, io')
    PROVE  Ends'
<1>1. CASE Severed(io, io')
  BY <1>1, EndsFrom DEF Severed
<1>2. CASE Quiet(io, io')
  <2>1. io'.connected = io.connected /\ io'.stopping = io.stopping
        /\ \A k \in Halts : EndsIn(io, robot, k) => EndsIn(io', robot, k)
    BY <1>2, EndsSame DEF Quiet
  <2> QED BY <2>1, EndsFrom
<1> QED BY <1>1, <1>2

LEMMA RunHandshakeEnds == ASSUME Base, Ends, RunHandshake PROVE Ends'
<1>1. RunOp("handshake") /\ Run("op") /\ "op" # "velocity"
  BY DEF RunHandshake, RunOp
<1>2. IoOK(io) /\ ~io.finished /\ io.exit = "none"
  BY <1>1, RunFacts
<1>3. CASE Failed
  <2>1. io' = HandleConnectionFailure(io)
    BY <1>3 DEF RunHandshake
  <2>2. Severed(io, io') /\ io'.exit # "written"
    BY <1>2, <2>1, HandleConnectionFailureOf
  <2> QED BY <1>1, <2>2, EndsSevered
<1>4. CASE ~Failed
  <2>1. io' = [io EXCEPT !.ops = @ \cup {"stopWrite"}]
    BY <1>4 DEF RunHandshake
  <2>2. ~io.connected
    BY <1>1, RunOpFacts
  <2>3. ~io'.connected /\ io'.exit = "none"
    BY <1>2, <2>1, <2>2 DEF IoOK, Fields
  <2> QED BY <1>1, <2>3, EndsFrom
<1> QED BY <1>3, <1>4

\* A connection begins with a robot that stands and no velocity underway, so it holds
\* whatever the last command was.
LEMMA RunConnectionStopWrittenEnds == ASSUME Base, Ends, RunConnectionStopWritten PROVE Ends'
<1>1. RunOp("stopWrite") /\ Run("op") /\ "op" # "velocity"
  BY DEF RunConnectionStopWritten, RunOp
<1>2. IoOK(io) /\ ~io.finished /\ io.exit = "none" /\ Connection(io, ready', robot)
      /\ ready' \in Seq(Handler)
  BY <1>1, RunFacts
<1>3. CASE Failed
  <2>1. io' = HandleConnectionFailure(io)
    BY <1>3 DEF RunConnectionStopWritten
  <2>2. Severed(io, io') /\ io'.exit # "written"
    BY <1>2, <2>1, HandleConnectionFailureOf
  <2> QED BY <1>1, <2>2, EndsSevered
<1>4. CASE ~Failed
  <2> DEFINE u == ConnectedFrom(io)
             s == QueueFrameOnIo(u, FrameOf("subscribe"), "append")
             b == QueueFrameOnIo(s, FrameOf("bootUp"), "append")
  <2>1. io' = Connected(io)
    BY <1>4 DEF RunConnectionStopWritten
  <2>2. /\ ~io.connected /\ io.ops = {} /\ io.open
        /\ \A i \in DOMAIN ready' : ~IsCurrent(io, ready'[i])
    BY <1>1, RunOpFacts
  <2>3. robot.first = "zero" /\ robot.motion = "stopped"
    BY <1>1, <1>4, StopWrittenFacts
  <2>4. /\ IoOK(u) /\ u.pending = <<>> /\ u.active = NoFrame /\ Connection(u, ready', robot)
        /\ u.connected
    BY <1>2, <2>2, <2>3, ConnectedOf
  <2>5. IoOK(s) /\ Connection(s, ready', robot) /\ s.connected
    BY <1>2, <2>2, <2>3, ConnectedOf
  <2>6. io'.pending = b.pending /\ io'.active = b.active /\ io'.exit = io.exit
    BY <1>2, <2>1, <2>2, <2>3, ConnectedOf
  <2> HIDE DEF u
  <2>7. u.open
    BY <2>4 DEF Connection, ConnectedOK
  <2>8. /\ FrameOf("subscribe") \in Frame /\ FrameOf("subscribe").kind # "move"
        /\ FrameOf("bootUp") \in Frame /\ FrameOf("bootUp").kind # "move"
    BY FrameTypes
  <2>9. \A k \in Halts : EndsIn(u, robot, k)
    BY <2>3, <2>4, FrameTypes DEF EndsIn, NoMove, Standing
  <2>10. \A k \in Halts : EndsIn(s, robot, k)
    BY <2>4, <2>7, <2>8, <2>9, EndsQueue
  <2> HIDE DEF s
  <2>11. s.open
    BY <2>5 DEF Connection, ConnectedOK
  <2>12. \A k \in Halts : EndsIn(b, robot, k)
    BY <2>5, <2>8, <2>10, <2>11, EndsQueue
  <2> HIDE DEF b
  <2>13. \A k \in Halts : EndsIn(io', robot, k)
    BY <2>6, <2>12, EndsSame
  <2>14. NoVelocity(ready')
    BY <1>1, RunFacts, RunOpFacts DEF NoVelocity
  <2> QED BY <1>1, <1>2, <2>6, <2>13, <2>14, EndsFrom
<1> QED BY <1>3, <1>4

\* A write that succeeded leaves a robot that stands if its frame was to stop it.
LEMMA RunWrittenEnds == ASSUME Base, Ends, RunWritten PROVE Ends'
<1>1. RunOp("write") /\ Run("op") /\ "op" # "velocity"
  BY DEF RunWritten, RunOp
<1>2. IoOK(io) /\ ~io.finished /\ io.exit = "none"
  BY <1>1, RunFacts
<1>3. CASE Failed
  <2>1. io' = HandleConnectionFailure(io)
    BY <1>3 DEF RunWritten
  <2>2. Severed(io, io') /\ io'.exit # "written"
    BY <1>2, <2>1, HandleConnectionFailureOf
  <2> QED BY <1>1, <2>2, EndsSevered
<1>4. CASE ~Failed
  <2> DEFINE idle == Idle(io)
  <2>1. /\ io.connected /\ IsCurrent(io, Head(ready)) /\ Head(ready).op = "write"
    BY <1>1, RunOpFacts
  <2>2. io.active.kind \in Halts => robot.motion = "stopped"
    <3>1. ready \in Seq(Handler) /\ ready # <<>>
      BY <1>1, RunFacts
    <3>2. 1 \in DOMAIN ready /\ Head(ready) = ready[1]
      BY <3>1
    <3> QED BY <1>4, <2>1, <3>2 DEF Base, Connection, WrittenOK, Failed, Halts
  <2>3. /\ IoOK(idle) /\ idle.active = NoFrame /\ idle.connected = io.connected
        /\ idle.stopping = io.stopping /\ idle.exit = io.exit /\ ~idle.finished
        /\ idle.pending = io.pending
    BY <1>2, IdleOf
  <2>4. \A k \in Halts : EndsIn(io, robot, k) => EndsIn(idle, robot, k)
    BY <1>2, <2>2, EndsIdle
  <2>5. \/ io' = StartWrite(idle)
        \/ idle.pending = <<>> /\ io.stopping /\ io' = FinishShutdown(idle, "written")
        \/ io' = idle
    BY <1>4 DEF RunWritten, Idle
  <2> HIDE DEF idle
  <2>6. CASE io' = idle
    BY <1>1, <1>2, <2>1, <2>3, <2>4, <2>6, EndsFrom
  <2>7. CASE io' = StartWrite(idle)
    <3>1. io'.stopping = idle.stopping /\ io'.exit = idle.exit
      BY <2>3, <2>7, StartWriteOf
    <3>2. \A k \in Halts : EndsIn(idle, robot, k) => EndsIn(io', robot, k)
      BY <2>3, <2>7, EndsStartWrite
    <3> QED BY <1>1, <1>2, <2>1, <2>3, <2>4, <3>1, <3>2, EndsFrom
  <2>8. CASE idle.pending = <<>> /\ io.stopping /\ io' = FinishShutdown(idle, "written")
    <3>1. Severed(idle, io')
      BY <2>3, <2>8, FinishShutdownOf
    <3>2. "zero" \in Halts /\ DOMAIN idle.pending = {}
      BY <2>8 DEF Halts
    <3>3. EndsIn(idle, robot, "zero")
      BY <2>1, <2>4, <2>8, <3>2 DEF Ends
    <3>4. robot.motion = "stopped"
      BY <2>3, <3>2, <3>3, FrameTypes DEF EndsIn, EndsQueued, Standing
    <3> QED BY <1>1, <3>1, <3>4, EndsFrom DEF Severed
  <2> QED BY <2>5, <2>6, <2>7, <2>8
<1> QED BY <1>3, <1>4

LEMMA RunReadEnds == ASSUME Base, Ends, RunRead PROVE Ends'
<1>1. RunOp("read") /\ Run("op") /\ "op" # "velocity"
  BY DEF RunRead, RunOp
<1>2. IoOK(io) /\ ~io.finished /\ io.exit = "none"
  BY <1>1, RunFacts
<1>3. io.connected /\ io.open
  BY <1>1, RunOpFacts
<1>4. ASSUME NEW z, IoOK(z), io' = ReadOn(z), z.stopping = io.stopping, z.exit = io.exit,
             \A k \in Halts : EndsIn(io, robot, k) => EndsIn(z, robot, k)
      PROVE  Ends'
  <2>1. /\ io'.stopping = z.stopping /\ io'.exit = z.exit
        /\ io'.pending = z.pending /\ io'.active = z.active
    BY <1>4 DEF ReadOn, IoOK, Fields
  <2>2. \A k \in Halts : EndsIn(z, robot, k) => EndsIn(io', robot, k)
    BY <2>1, EndsSame
  <2> QED BY <1>1, <1>2, <1>3, <1>4, <2>1, <2>2, EndsFrom
<1>5. CASE io' = HandleConnectionFailure(io)
  <2>1. Severed(io, io') /\ io'.exit # "written"
    BY <1>2, <1>5, HandleConnectionFailureOf
  <2> QED BY <1>1, <2>1, EndsSevered
<1>6. CASE io' = ReadOn(QueueFrameOnIo(io, FrameOf("pong"), "highPriority"))
  <2> DEFINE z == QueueFrameOnIo(io, FrameOf("pong"), "highPriority")
  <2>1. FrameOf("pong") \in Frame /\ FrameOf("pong").kind # "move" /\ "highPriority" \in Modes
    BY FrameTypes DEF Modes
  <2>2. IoOK(z) /\ z.stopping = io.stopping /\ z.exit = io.exit
    BY <1>2, <1>3, <2>1, ConnectionQueue DEF Base
  <2>3. \A k \in Halts : EndsIn(io, robot, k) => EndsIn(z, robot, k)
    BY <1>2, <1>3, <2>1, EndsQueue
  <2> HIDE DEF z
  <2> QED BY <1>4, <1>6, <2>2, <2>3 DEF z
<1>7. CASE io' = ReadOn(CompleteBehaviorGoal(io, Head(ready).id))
  <2> DEFINE z == CompleteBehaviorGoal(io, Head(ready).id)
  <2>1. IoOK(z) /\ Quiet(io, z)
    BY <1>2, CompleteOf
  <2> HIDE DEF z
  <2>2. \A k \in Halts : EndsIn(io, robot, k) => EndsIn(z, robot, k)
    BY <2>1, EndsSame DEF Quiet
  <2> QED BY <1>4, <1>7, <2>1, <2>2 DEF z, Quiet
<1> QED BY <1>5, <1>6, <1>7, RunReadCases

\* A stop clears the queue and is then its only frame; a move that is last leaves no
\* stop to hold, because it was commanded after it.
LEMMA RunVelocityEnds == ASSUME Base, Ends, RunVelocity PROVE Ends'
<1>1. Run("velocity")
  BY DEF RunVelocity
<1>2. /\ IoOK(io) /\ io.exit = "none" /\ Head(ready) \in Handler /\ IsVelocity(Head(ready))
      /\ ready \in Seq(Handler) /\ ready # <<>> /\ ready' = Tail(ready)
      /\ UNCHANGED <<main, running, lastSent, commands, lastCommand, goals, pings, robot>>
  BY <1>1, RunFacts DEF IsVelocity
<1> DEFINE frame == Head(ready).frame
<1>3. frame \in Frame
  BY <1>2, HandlerFrame DEF IsVelocity
<1>4. CASE (~running \/ ~io.connected \/ io.stopping) /\ io' = io
  <2>1. io.connected => ~running
    BY <1>4 DEF Base, Control
  <2> QED BY <1>2, <1>4, <2>1 DEF Ends
<1>5. CASE /\ running /\ io.connected /\ ~io.stopping
           /\ io' = QueueFrameOnIo(io, frame, VelocityMode(frame))
  <2>1. io.open /\ VelocityMode(frame) \in Modes
    BY <1>5 DEF Base, Connection, ConnectedOK, VelocityMode, Modes
  <2>2. io'.stopping = io.stopping /\ io'.exit = io.exit
    BY <1>2, <1>3, <1>5, <2>1, ConnectionQueue DEF Base
  <2>3. frame.kind = "stop" => EndsIn(io', robot, "stop")
    BY <1>2, <1>3, <1>5, <2>1, EndsDiscard DEF VelocityMode, Halts
  <2>4. lastCommand = "stop" => StopReady(ready') \/ (frame.kind = "stop" /\ NoVelocity(ready'))
    BY <1>2, <1>5, StopTail DEF Ends, StopLast
  <2> QED BY <1>2, <1>5, <2>2, <2>3, <2>4 DEF Ends, StopLast
<1> QED BY <1>4, <1>5, RunVelocityCases

LEMMA RunGoalEnds == ASSUME Base, Ends, RunGoal PROVE Ends'
<1>1. Run("goal") /\ "goal" # "velocity"
  BY DEF RunGoal
<1>2. IoOK(io) /\ io.exit = "none" /\ Head(ready) \in Handler /\ Head(ready).run = "goal"
  BY <1>1, RunFacts
<1> DEFINE h == Head(ready)
           z == WithGoal(io, h.id, h.req)
<1>3. h.id \in Nat /\ h.req \in Nat /\ GoalFrame(h.id) \in Frame /\ "append" \in Modes
      /\ GoalFrame(h.id).kind # "move"
  BY <1>2, HandlerGoal DEF Modes, GoalFrame
<1>4. CASE io' = Answer(io, {h.req})
  <2>1. Quiet(io, io')
    BY <1>2, <1>4, AnswerOf
  <2> QED BY <1>1, <1>2, <2>1, EndsSevered DEF Quiet
<1>5. CASE io.connected /\ io' = QueueFrameOnIo(z, GoalFrame(h.id), "append")
  <2>1. IoOK(z) /\ Quiet(io, z)
    BY <1>2, <1>3, WithGoalOf
  <2> HIDE DEF z
  <2>2. Connection(z, ready, robot) /\ z.connected
    BY <1>5, <2>1, ConnectionQuiet DEF Quiet, Base
  <2>3. io'.stopping = z.stopping /\ io'.exit = z.exit /\ z.open
    BY <1>3, <1>5, <2>1, <2>2, ConnectionQueue DEF Connection, ConnectedOK
  <2>4. \A k \in Halts : EndsIn(io, robot, k) => EndsIn(z, robot, k)
    BY <2>1, EndsSame DEF Quiet
  <2>5. \A k \in Halts : EndsIn(z, robot, k) => EndsIn(io', robot, k)
    BY <1>3, <1>5, <2>1, <2>3, EndsQueue
  <2>6. io'.stopping = io.stopping /\ io'.exit = "none"
    BY <1>2, <2>1, <2>3 DEF Quiet
  <2> HIDE DEF h
  <2> QED BY <1>1, <1>5, <2>4, <2>5, <2>6, EndsFrom
<1> QED BY <1>4, <1>5, RunGoalCases

LEMMA RunBeginShutdownEnds == ASSUME Base, Ends, RunBeginShutdown PROVE Ends'
<1>1. Run("beginShutdown") /\ ~running /\ "beginShutdown" # "velocity"
  BY RunBeginShutdownCases DEF RunBeginShutdown
<1>2. IoOK(io) /\ ~io.finished /\ io.exit = "none"
  BY <1>1, RunFacts
<1>3. CASE ~io.connected /\ io' = FinishShutdown(Halting(io), "notConnected")
  <2>1. IoOK(Halting(io)) /\ ~Halting(io).finished
    BY <1>2, HaltingOf
  <2>2. ~io'.connected /\ io'.exit # "written"
    BY <1>3, <2>1, FinishShutdownOf DEF Severed
  <2> QED BY <1>1, <2>2, EndsFrom
<1>4. CASE io.connected /\ io' = StartWrite(HaltingFrame(io))
  <2> DEFINE z == HaltingFrame(io)
  <2>1. IoOK(z) /\ z.exit = io.exit /\ z.pending = <<FrameOf("zero")>>
    BY <1>2, HaltingFrameOf
  <2> HIDE DEF z
  <2>2. EndsIn(z, robot, "zero")
    BY <2>1, FrameTypes DEF EndsIn, EndsQueued, FrameKinds
  <2>3. EndsIn(io', robot, "zero")
    BY <1>4, <2>1, <2>2, EndsStartWrite DEF z, Halts
  <2>4. io'.exit = "none"
    BY <1>2, <1>4, <2>1, StartWriteOf DEF z
  <2> QED BY <1>1, <2>3, <2>4, EndsFrom
<1> QED BY <1>3, <1>4, RunBeginShutdownCases

LEMMA RunOtherEnds ==
    ASSUME Base, Ends, RunStaleOp \/ RunDoConnect \/ RunTimer PROVE Ends'
<1>1. CASE RunStaleOp
  <2>1. Run("op") /\ io' = io /\ "op" # "velocity"
    BY <1>1 DEF RunStaleOp
  <2> QED BY <2>1, RunFacts, EndsSevered DEF Quiet
<1>2. CASE RunDoConnect
  <2>1. Run("doConnect") /\ io' = DoConnect(io) /\ "doConnect" # "velocity"
    BY <1>2 DEF RunDoConnect
  <2>2. IoOK(io) /\ ~io.finished /\ io.exit = "none"
    BY <2>1, RunFacts
  <2>3. io'.exit = "none" /\ (io' = io \/ Severed(io, io'))
    BY <2>1, <2>2, DoConnectOf
  <2> QED BY <2>1, <2>3, EndsSevered DEF Quiet
<1>3. CASE RunTimer
  <2>1. Run("timer") /\ "timer" # "velocity"
    BY <1>3 DEF RunTimer
  <2>2. IoOK(io) /\ ~io.finished /\ io.exit = "none"
    BY <2>1, RunFacts
  <2>3. io'.exit # "written" /\ (Severed(io, io') \/ Quiet(io, io'))
    <3>1. CASE io' = io
      BY <2>2, <3>1 DEF Quiet
    <3>2. CASE io' = HandleConnectionFailure(io)
      BY <2>2, <3>2, HandleConnectionFailureOf
    <3>3. CASE io' = DoConnect(io)
      BY <2>2, <3>3, DoConnectOf DEF Quiet
    <3>4. CASE io' = FinishShutdown(io, "timeout")
      BY <2>2, <3>4, FinishShutdownOf
    <3>5. CASE io' = CompleteBehaviorGoal(io, Head(ready).timer.n)
      BY <2>2, <3>5, CompleteOf DEF Quiet
    <3> QED BY <1>3, <3>1, <3>2, <3>3, <3>4, <3>5, RunTimerCases
  <2> QED BY <2>1, <2>3, EndsSevered
<1> QED BY <1>1, <1>2, <1>3

LEMMA RunHandlerEnds == ASSUME Base, Ends, RunHandler PROVE Ends'
BY RunHandshakeEnds, RunConnectionStopWrittenEnds, RunWrittenEnds, RunReadEnds,
   RunVelocityEnds, RunGoalEnds, RunBeginShutdownEnds, RunOtherEnds DEF RunHandler

\* A write that the robot takes keeps what the queue ends in, and so does one it does not.
LEMMA EnvironmentEnds == ASSUME Base, Ends, Environment PROVE Ends'
<1>0. IoOK(io) /\ ready \in Seq(Handler)
  BY DEF Base, Types
<1>1. ASSUME NEW h \in Handler, ~IsVelocity(h), ready' = Append(ready, h),
             UNCHANGED <<running, lastCommand>>, io'.exit = io.exit,
             io'.connected = io.connected, io'.stopping = io.stopping,
             io.exit = "written" /\ robot.motion = "stopped" => robot'.motion = "stopped",
             io.connected => \A k \in Halts : EndsIn(io, robot, k) => EndsIn(io', robot', k)
      PROVE  Ends'
  <2>1. /\ StopReady(ready) => StopReady(ready')
        /\ NoVelocity(ready) => NoVelocity(ready')
    BY <1>0, <1>1, StopAppend
  <2>2. "stop" \in Halts /\ "zero" \in Halts
    BY DEF Halts
  <2> QED BY <1>1, <2>1, <2>2 DEF Ends, StopLast
<1>2. ASSUME NEW op \in Ops, NEW got \in {"ok", "error", "ping", "result"}, NEW id \in Nat,
             Completes(op, got, id),
             \/ robot'.motion = robot.motion
             \/ /\ op = "write"
                /\ robot'.motion = Received(robot, io.active).motion
             \/ robot'.motion = "stopped"
      PROVE  Ends'
  <2> DEFINE h == [run |-> "op", op |-> op, gen |-> io.gen, got |-> got, id |-> id]
  <2>1. /\ op \in io.ops /\ io' = [io EXCEPT !.ops = @ \ {op}] /\ ready' = Append(ready, h)
        /\ UNCHANGED <<main, running, lastSent, commands, lastCommand, goals>>
    BY <1>2 DEF Completes, Post
  <2>2. h \in Handler /\ ~IsVelocity(h)
    BY <1>0 DEF Handler, IoOK, IsVelocity
  <2> HIDE DEF h
  <2>3. /\ io'.exit = io.exit /\ io'.connected = io.connected /\ io'.stopping = io.stopping
        /\ io'.pending = io.pending /\ io'.active = io.active
    BY <1>0, <2>1 DEF IoOK, Fields
  <2>4. io.exit = "none"
    BY <2>1 DEF Base, Connection, Ended
  <2>5. ASSUME NEW k \in Halts, Standing(io, robot, k) PROVE Standing(io', robot', k)
    BY <1>2, <2>3, <2>5 DEF Standing, Received
  <2>6. \A k \in Halts : EndsIn(io, robot, k) => EndsIn(io', robot', k)
    BY <2>3, <2>5 DEF EndsIn
  <2> QED BY <1>1, <2>1, <2>2, <2>3, <2>4, <2>6
<1>3. ASSUME NEW got \in {"ok", "error"}, HandshakeCompletes(got) PROVE Ends'
  <2>1. Completes("handshake", got, 0) /\ robot'.motion = robot.motion
    BY <1>3 DEF HandshakeCompletes, Base, Types, RobotType
  <2> QED BY <1>2, <2>1 DEF Ops
<1>4. ASSUME NEW got \in {"ok", "error"}, NEW op \in Ops, WriteCompletes(op, got) PROVE Ends'
  <2>1. /\ Completes(op, got, 0) /\ op \in {"stopWrite", "write"}
        /\ robot' = Received(robot, IF op = "write" THEN io.active ELSE FrameOf("zero"))
           \/ robot' = robot
    BY <1>4 DEF WriteCompletes
  <2>2. Received(robot, FrameOf("zero")).motion = "stopped"
    BY DEF Received, FrameOf
  <2> QED BY <1>2, <2>1, <2>2
<1>5. ASSUME NEW got \in {"error", "ping", "result"}, NEW id \in Nat, ReadCompletes(got, id)
      PROVE  Ends'
  <2>1. Completes("read", got, id) /\ robot'.motion = robot.motion
    BY <1>5 DEF ReadCompletes, Base, Types, RobotType
  <2> QED BY <1>2, <2>1 DEF Ops
<1>6. ASSUME NEW kind, SomeTimerExpires(kind) PROVE Ends'
  <2>1. PICK t \in io.timers : TimerExpires(t)
    BY <1>6 DEF SomeTimerExpires
  <2> DEFINE h == [run |-> "timer", timer |-> t]
  <2>2. /\ io' = [io EXCEPT !.timers = @ \ {t}] /\ ready' = Append(ready, h)
        /\ UNCHANGED <<main, running, lastSent, commands, lastCommand, goals, pings, robot>>
    BY <2>1 DEF TimerExpires, Post
  <2>3. h \in Handler /\ ~IsVelocity(h)
    BY <1>0 DEF Handler, IsVelocity, IoOK
  <2> HIDE DEF h
  <2>4. /\ io'.exit = io.exit /\ io'.connected = io.connected /\ io'.stopping = io.stopping
        /\ io'.pending = io.pending /\ io'.active = io.active
    BY <1>0, <2>2 DEF IoOK, Fields
  <2>5. \A k \in Halts : EndsIn(io, robot, k) => EndsIn(io', robot', k)
    BY <2>2, <2>4, EndsSame
  <2> QED BY <1>1, <2>2, <2>3, <2>4, <2>5
<1> QED BY <1>3, <1>4, <1>5, <1>6 DEF Environment

LEMMA MainThreadEnds == ASSUME Base, Ends, MainThread PROVE Ends'
<1>0. IoOK(io) /\ ready \in Seq(Handler)
  BY DEF Base, Types
<1>1. CASE Start
  <2>1. /\ main = "closed" /\ robot' = robot
        /\ io' = [io EXCEPT !.initial = "none", !.stopping = FALSE, !.finished = FALSE,
                            !.exit = "none"]
    BY <1>1 DEF Start
  <2>2. ~io'.connected /\ io'.exit = "none"
    BY <1>0, <2>1 DEF IoOK, Fields, Base, Control
  <2> QED BY <2>2 DEF Ends
<1>2. CASE StartSucceeds
  BY <1>2 DEF StartSucceeds, Ends
<1>3. CASE Stop
  BY <1>3 DEF Stop, Ends
<1>4. CASE StopJoins
  <2> DEFINE d == DropConnection(io)
  <2>1. io' = [d EXCEPT !.timers = {}] /\ robot' = robot
    BY <1>4 DEF StopJoins
  <2>2. IoOK(d) /\ ~d.connected /\ d.exit = io.exit
    BY <1>0, DropConnectionOf
  <2> HIDE DEF d
  <2>3. ~io'.connected /\ io'.exit = io.exit
    BY <2>1, <2>2 DEF IoOK, Fields
  <2> QED BY <2>1, <2>3 DEF Ends
<1>5. ASSUME NEW repeated \in BOOLEAN, ForwardMove(repeated) PROVE Ends'
  <2>1. lastCommand' = "move" /\ io' = io /\ robot' = robot
    BY <1>5 DEF ForwardMove
  <2> QED BY <2>1 DEF Ends
<1>6. CASE ForwardStop
  <2> DEFINE h == [run |-> "velocity", frame |-> [kind |-> "stop", n |-> commands']]
  <2>1. /\ UNCHANGED <<running, io, robot>>
        /\ running /\ io.connected => ready' = Append(ready, h)
    BY <1>6 DEF ForwardStop, Post
  <2>2. h \in Handler /\ IsVelocity(h) /\ h.frame.kind = "stop"
    BY <1>6 DEF ForwardStop, Handler, IsVelocity, Base, Types
  <2> HIDE DEF h
  <2>3. running /\ io.connected => StopReady(ready')
    BY <1>0, <2>1, <2>2, StopAppend
  <2> QED BY <2>1, <2>3 DEF Ends, StopLast
<1>7. CASE ForwardDogBehaviorGoal
  <2> DEFINE h == [run |-> "goal", id |-> goals', req |-> goals']
  <2>1. /\ UNCHANGED <<running, io, robot, lastCommand>> /\ ready' = Append(ready, h)
    BY <1>7 DEF ForwardDogBehaviorGoal, Post
  <2>2. h \in Handler /\ ~IsVelocity(h)
    BY <1>7 DEF ForwardDogBehaviorGoal, Handler, IsVelocity, Base, Types
  <2> HIDE DEF h
  <2>3. /\ StopReady(ready) => StopReady(ready')
        /\ NoVelocity(ready) => NoVelocity(ready')
    BY <1>0, <2>1, <2>2, StopAppend
  <2> QED BY <2>1, <2>3 DEF Ends, StopLast
<1> QED BY <1>1, <1>2, <1>3, <1>4, <1>5, <1>6, <1>7 DEF MainThread

LEMMA EndsInvariant == Spec => [](Base /\ Ends)
<1>1. Init => Base /\ Ends
  BY InitBase DEF Init, IoInit, Ends
<1>2. Base /\ Ends /\ [Next]_vars => (Base /\ Ends)'
  <2> SUFFICES ASSUME Base, Ends, [Next]_vars PROVE Base' /\ Ends'
    OBVIOUS
  <2>1. CASE UNCHANGED vars
    BY <2>1, NextBase DEF vars, Ends
  <2> QED BY <2>1, NextBase, MainThreadEnds, RunHandlerEnds, EnvironmentEnds DEF Next
<1> QED BY <1>1, <1>2, PTL DEF Spec

\* When the last command was a stop and no velocity is underway, a connected robot
\* stands: also when the stop was issued without a connection, when an older move was
\* being written, or when the connection was lost in between.
THEOREM StopsHold == Spec => []StopHolds
<1>1. Base /\ Ends => StopHolds
  <2> SUFFICES ASSUME Base, Ends, running, io.connected, lastCommand = "stop", ~VelocityUnderway
               PROVE  robot.motion = "stopped"
    BY DEF StopHolds
  <2>1. StopLast(io, ready, robot)
    BY DEF Ends
  <2>2. ~StopReady(ready)
    BY DEF VelocityUnderway, StopReady, IsVelocity
  <2>3. EndsIn(io, robot, "stop")
    BY <2>1, <2>2 DEF StopLast
  <2> QED BY <2>3 DEF EndsIn, EndsQueued, Standing, VelocityUnderway, IsCommand
<1> QED BY <1>1, EndsInvariant, PTL

\* A shutdown that ends because everything is written leaves a robot that stands.
THEOREM CleanShutdownStands == Spec => []CleanShutdownStops
<1>1. Ends => CleanShutdownStops
  BY DEF Ends, CleanShutdownStops
<1> QED BY <1>1, EndsInvariant, PTL

-----------------------------------------------------------------------------
(* The order of the velocities. *)

\* The commands being written and queued are in order, none below lo, none above hi.
Sorted(x) ==
    /\ \A i, j \in DOMAIN x.pending :
          i < j /\ IsCommand(x.pending[i]) /\ IsCommand(x.pending[j])
             => x.pending[i].n <= x.pending[j].n
    /\ \A i \in DOMAIN x.pending :
          IsCommand(x.active) /\ IsCommand(x.pending[i]) => x.active.n <= x.pending[i].n
Within(x, lo, hi) ==
    /\ \A i \in DOMAIN x.pending :
          IsCommand(x.pending[i]) => lo <= x.pending[i].n /\ x.pending[i].n <= hi
    /\ IsCommand(x.active) => lo <= x.active.n /\ x.active.n <= hi
InOrder(x, lo, hi) == Sorted(x) /\ Within(x, lo, hi)

\* y has no command that x has not, and in the same order.
OrderKept(x, y) == \A lo, hi \in Nat : InOrder(x, lo, hi) => InOrder(y, lo, hi)

LEMMA FrameN ==
    ASSUME NEW x, IoOK(x)
    PROVE  /\ \A i \in DOMAIN x.pending : i \in Nat /\ x.pending[i] \in Frame /\ x.pending[i].n \in Nat
           /\ IsCommand(x.active) => x.active \in Frame /\ x.active.n \in Nat
           /\ ~IsCommand(NoFrame)
BY FrameTypes DEF IoOK, IsCommand

\* The queue decides, whatever else changes; an empty one is in order.
LEMMA OrderSame ==
    ASSUME NEW x, NEW y, y.pending = x.pending, y.active = x.active
    PROVE  OrderKept(x, y)
BY DEF OrderKept, InOrder, Sorted, Within

LEMMA OrderEmpty ==
    ASSUME NEW y, y.pending = <<>>, y.active = NoFrame
    PROVE  \A x : OrderKept(x, y)
<1>1. DOMAIN y.pending = {} /\ ~IsCommand(y.active)
  BY FrameTypes DEF IsCommand
<1> QED BY <1>1 DEF OrderKept, InOrder, Sorted, Within

LEMMA OrderStartWrite == ASSUME NEW x, IoOK(x) PROVE OrderKept(x, StartWrite(x))
<1> DEFINE y == StartWrite(x)
           p == x.pending
           t == Tail(p)
<1>1. y = x \/ WriteBegun(x, y)
  BY StartWriteOf
<1> HIDE DEF y
<1>2. CASE WriteBegun(x, y)
  <2>1. x.active = NoFrame /\ p # <<>> /\ y.active = Head(p) /\ y.pending = t /\ p \in Seq(Frame)
    BY <1>2 DEF WriteBegun, IoOK
  <2>2. /\ 1 \in DOMAIN p /\ Head(p) = p[1]
        /\ \A i \in DOMAIN t : i + 1 \in DOMAIN p /\ t[i] = p[i + 1] /\ i \in Nat \ {0}
    BY <2>1, TailOf
  <2> HIDE DEF t
  <2>3. SUFFICES ASSUME NEW lo \in Nat, NEW hi \in Nat, InOrder(x, lo, hi) PROVE InOrder(y, lo, hi)
    BY DEF OrderKept, y
  <2>4. Sorted(y)
    <3>1. \A i, j \in DOMAIN p : i < j /\ IsCommand(p[i]) /\ IsCommand(p[j]) => p[i].n <= p[j].n
      BY <2>3 DEF InOrder, Sorted
    <3> HIDE DEF p
    <3>2. ASSUME NEW i \in DOMAIN t, NEW j \in DOMAIN t, i < j, IsCommand(t[i]), IsCommand(t[j])
          PROVE  t[i].n <= t[j].n
      <4>1. i + 1 \in DOMAIN p /\ t[i] = p[i + 1] /\ j + 1 \in DOMAIN p /\ t[j] = p[j + 1]
            /\ i + 1 < j + 1
        BY <2>2, <3>2
      <4> QED BY <3>1, <3>2, <4>1
    <3>3. ASSUME NEW i \in DOMAIN t, IsCommand(p[1]), IsCommand(t[i]) PROVE p[1].n <= t[i].n
      <4>1. i + 1 \in DOMAIN p /\ t[i] = p[i + 1] /\ 1 < i + 1
        BY <2>2
      <4> QED BY <2>2, <3>1, <3>3, <4>1
    <3> QED BY <2>1, <2>2, <3>2, <3>3 DEF Sorted
  <2>5. Within(y, lo, hi)
    BY <2>1, <2>2, <2>3 DEF InOrder, Within
  <2> QED BY <2>4, <2>5 DEF InOrder
<1> QED BY <1>1, <1>2, OrderSame DEF y

LEMMA OrderIdle == ASSUME NEW x, IoOK(x) PROVE OrderKept(x, Idle(x))
<1>1. Idle(x).pending = x.pending /\ ~IsCommand(Idle(x).active)
  BY IdleOf, FrameN
<1> QED BY <1>1 DEF OrderKept, InOrder, Sorted, Within

LEMMA OrderTrans ==
    ASSUME NEW x, NEW y, NEW z, OrderKept(x, y), OrderKept(y, z)
    PROVE  OrderKept(x, z)
BY DEF OrderKept

\* A frame that is no velocity, put at either end.
LEMMA OrderQueue ==
    ASSUME NEW x, IoOK(x), x.open, NEW frame \in Frame, ~IsCommand(frame),
           NEW mode \in {"append", "highPriority"}
    PROVE  OrderKept(x, QueueFrameOnIo(x, frame, mode))
<1> DEFINE p == x.pending
           n == Queued(x.pending, frame, mode)
           z == WithFrame(x, frame, mode)
<1>1. mode \in Modes
  BY DEF Modes
<1>2. IoOK(z) /\ QueueFrameOnIo(x, frame, mode) = StartWrite(z)
      /\ z.pending = n /\ z.active = x.active
  BY <1>1, QueueFrameOf
<1> HIDE DEF z
<1>3. OrderKept(x, z)
  <2>0. p \in Seq(Frame)
    BY DEF IoOK
  <2>1. CASE mode = "append"
    <3>1. n = Append(p, frame)
      BY <2>1 DEF Queued
    <3> HIDE DEF n
    <3>2. \A i \in DOMAIN n :
              \/ i = Len(p) + 1 /\ n[i] = frame
              \/ i \in DOMAIN p /\ n[i] = p[i] /\ i \in Nat /\ i < Len(p) + 1
      BY <2>0, <3>1, AppendOf
    <3> HIDE DEF p
    <3>3. \A i \in DOMAIN n : IsCommand(n[i]) => i \in DOMAIN p /\ n[i] = p[i]
      BY <3>2
    <3>4. Sorted(x) => Sorted(z)
      BY <1>2, <3>3 DEF Sorted, p
    <3>5. \A lo, hi \in Nat : Within(x, lo, hi) => Within(z, lo, hi)
      BY <1>2, <3>3 DEF Within, p
    <3> QED BY <3>4, <3>5 DEF OrderKept, InOrder
  <2>2. CASE mode = "highPriority"
    <3>1. n = <<frame>> \o p
      BY <2>2 DEF Queued
    <3> HIDE DEF n
    <3>2. \A i \in DOMAIN n :
              i \in Nat /\ (n[i] = frame \/ (i - 1 \in DOMAIN p /\ n[i] = p[i - 1]))
      BY <2>0, <3>1, PushOf
    <3> HIDE DEF p
    <3>3. \A i \in DOMAIN n : IsCommand(n[i]) => i \in Nat /\ i - 1 \in DOMAIN p /\ n[i] = p[i - 1]
      BY <3>2
    <3>4. Sorted(x) => Sorted(z)
      <4> SUFFICES ASSUME Sorted(x) PROVE Sorted(z)
        OBVIOUS
      <4>1. ASSUME NEW i \in DOMAIN n, NEW j \in DOMAIN n, i < j, IsCommand(n[i]), IsCommand(n[j])
            PROVE  n[i].n <= n[j].n
        <5>1. i - 1 \in DOMAIN p /\ n[i] = p[i - 1] /\ j - 1 \in DOMAIN p /\ n[j] = p[j - 1]
              /\ i - 1 < j - 1
          BY <3>3, <4>1
        <5> QED BY <4>1, <5>1 DEF Sorted, p
      <4>2. \A i \in DOMAIN n : IsCommand(x.active) /\ IsCommand(n[i]) => x.active.n <= n[i].n
        BY <3>3 DEF Sorted, p
      <4> QED BY <1>2, <4>1, <4>2 DEF Sorted
    <3>5. \A lo, hi \in Nat : Within(x, lo, hi) => Within(z, lo, hi)
      BY <1>2, <3>3 DEF Within, p
    <3> QED BY <3>4, <3>5 DEF OrderKept, InOrder
  <2> QED BY <2>1, <2>2
<1>4. OrderKept(z, StartWrite(z))
  BY <1>2, OrderStartWrite
<1> QED BY <1>2, <1>3, <1>4, OrderTrans

\* A velocity that replaces the queue or its last frame comes after all that stays.
LEMMA OrderVelocity ==
    ASSUME NEW x, IoOK(x), x.open, NEW frame \in Frame, IsCommand(frame),
           NEW mode \in {"discardPending", "replaceLatest"},
           NEW lo \in Nat, NEW hi \in Nat, InOrder(x, lo, frame.n), lo <= frame.n, frame.n <= hi
    PROVE  InOrder(QueueFrameOnIo(x, frame, mode), lo, hi)
<1> DEFINE p == x.pending
           n == Queued(x.pending, frame, mode)
           z == WithFrame(x, frame, mode)
<1>1. mode \in Modes
  BY DEF Modes
<1>2. IoOK(z) /\ QueueFrameOnIo(x, frame, mode) = StartWrite(z)
      /\ z.pending = n /\ z.active = x.active
  BY <1>1, QueueFrameOf
<1> HIDE DEF z
<1>3. p \in Seq(Frame) /\ frame.n \in Nat
  BY FrameTypes DEF IoOK
<1>4. /\ \A i \in DOMAIN p : i \in Nat /\ p[i].n \in Nat
      /\ IsCommand(x.active) => x.active.n \in Nat
  BY FrameN
<1>5. \A i \in DOMAIN n :
          \/ n[i] = frame /\ \A j \in DOMAIN n : j <= i
          \/ i \in DOMAIN p /\ n[i] = p[i]
  <2>1. CASE mode = "discardPending"
    <3>1. n = <<frame>>
      BY <2>1 DEF Queued
    <3> QED BY <3>1
  <2>2. CASE mode = "replaceLatest" /\ p # <<>>
    <3>1. n = [p EXCEPT ![Len(p)] = frame]
      BY <2>2 DEF Queued
    <3>2. DOMAIN n = 1..Len(p) /\ Len(p) \in Nat /\ n[Len(p)] = frame
          /\ \A i \in 1..Len(p) : i # Len(p) => n[i] = p[i]
      BY <1>3, <2>2, <3>1
    <3>3. DOMAIN p = 1..Len(p)
      BY <1>3
    <3> QED BY <3>2, <3>3
  <2>3. CASE mode = "replaceLatest" /\ p = <<>>
    <3>1. n = Append(p, frame)
      BY <2>3 DEF Queued
    <3>2. n = <<frame>>
      BY <2>3, <3>1
    <3> QED BY <3>2
  <2> QED BY <2>1, <2>2, <2>3
<1>6. \A i \in DOMAIN n : i \in Nat
  <2>1. n \in Seq(Frame)
    BY <1>1, <1>3, QueuedType
  <2> QED BY <2>1
<1> HIDE DEF n, p
<1>7. \A i \in DOMAIN p : IsCommand(p[i]) => lo <= p[i].n /\ p[i].n <= frame.n
  BY DEF InOrder, Within, p
<1>8. IsCommand(x.active) => lo <= x.active.n /\ x.active.n <= frame.n
  BY DEF InOrder, Within
<1>9. \A i, j \in DOMAIN p : i < j /\ IsCommand(p[i]) /\ IsCommand(p[j]) => p[i].n <= p[j].n
  BY DEF InOrder, Sorted, p
<1>10. \A i \in DOMAIN p : IsCommand(x.active) /\ IsCommand(p[i]) => x.active.n <= p[i].n
  BY DEF InOrder, Sorted, p
<1>11. Sorted(z)
  <2>1. ASSUME NEW i \in DOMAIN n, NEW j \in DOMAIN n, i < j, IsCommand(n[i]), IsCommand(n[j])
        PROVE  n[i].n <= n[j].n
    <3>1. i \in DOMAIN p /\ n[i] = p[i]
      BY <1>5, <1>6, <2>1
    <3> QED BY <1>3, <1>5, <1>7, <1>9, <2>1, <3>1
  <2>2. \A i \in DOMAIN n : IsCommand(x.active) /\ IsCommand(n[i]) => x.active.n <= n[i].n
    BY <1>5, <1>8, <1>10
  <2> QED BY <1>2, <2>1, <2>2 DEF Sorted
<1>12. Within(z, lo, hi)
  BY <1>2, <1>3, <1>4, <1>5, <1>7, <1>8 DEF Within
<1>13. OrderKept(z, StartWrite(z))
  BY <1>2, OrderStartWrite
<1> QED BY <1>2, <1>11, <1>12, <1>13 DEF OrderKept, InOrder

\* The invariant: what the robot had last, what is queued on the connection, and what
\* waits among the ready handlers, in this order.
ReadySorted(q) ==
    \A i, j \in DOMAIN q :
        i < j /\ IsVelocity(q[i]) /\ IsVelocity(q[j]) => q[i].frame.n <= q[j].frame.n
Order ==
    /\ robot.n <= commands /\ InOrder(io, robot.n, commands)
    /\ ReadySorted(ready)
    /\ \A i \in DOMAIN ready : IsVelocity(ready[i]) =>
          /\ robot.n <= ready[i].frame.n /\ ready[i].frame.n <= commands
          /\ InOrder(io, robot.n, ready[i].frame.n)

LEMMA VelocityN ==
    ASSUME NEW q \in Seq(Handler), NEW i \in DOMAIN q, IsVelocity(q[i])
    PROVE  q[i].frame \in Frame /\ q[i].frame.n \in Nat /\ IsCommand(q[i].frame)
<1>1. q[i] \in Handler
  OBVIOUS
<1> QED BY <1>1, HandlerFrame, FrameTypes DEF IsVelocity

LEMMA OrderFacts ==
    ASSUME Base
    PROVE  IoOK(io) /\ ready \in Seq(Handler) /\ robot.n \in Nat /\ commands \in Nat
BY DEF Base, Types, RobotType

\* Taking a handler out keeps the order of the rest.
LEMMA OrderTail ==
    ASSUME Base, Order, NEW kind, Run(kind)
    PROVE  /\ ReadySorted(ready')
           /\ \A i \in DOMAIN ready' : i + 1 \in DOMAIN ready /\ ready'[i] = ready[i + 1]
           /\ IsVelocity(Head(ready)) => 1 \in DOMAIN ready /\ Head(ready) = ready[1]
                 /\ \A i \in DOMAIN ready' : IsVelocity(ready'[i]) =>
                       Head(ready).frame.n <= ready'[i].frame.n
<1>1. ready \in Seq(Handler) /\ ready # <<>> /\ ready' = Tail(ready)
  BY RunFacts
<1>2. /\ 1 \in DOMAIN ready /\ Head(ready) = ready[1]
      /\ \A i \in DOMAIN ready' : i + 1 \in DOMAIN ready /\ ready'[i] = ready[i + 1]
                                  /\ i \in Nat \ {0}
  BY <1>1, TailOf
<1>3. ReadySorted(ready')
  BY <1>2 DEF Order, ReadySorted
<1>4. IsVelocity(ready[1]) => \A i \in DOMAIN ready' : IsVelocity(ready'[i]) =>
          ready[1].frame.n <= ready'[i].frame.n
  BY <1>2 DEF Order, ReadySorted
<1> QED BY <1>2, <1>3, <1>4

LEMMA OrderFrom ==
    ASSUME Base, Order, NEW kind, Run(kind), OrderKept(io, io')
    PROVE  Order'
<1>1. UNCHANGED <<commands, robot>> /\ ready \in Seq(Handler)
  BY RunFacts
<1>2. ReadySorted(ready')
      /\ \A i \in DOMAIN ready' : i + 1 \in DOMAIN ready /\ ready'[i] = ready[i + 1]
  BY OrderTail
<1>3. \A i \in DOMAIN ready : IsVelocity(ready[i]) => ready[i].frame.n \in Nat
  BY <1>1, VelocityN
<1>4. InOrder(io', robot.n, commands)
  BY OrderFacts DEF Order, OrderKept
<1>5. ASSUME NEW i \in DOMAIN ready', IsVelocity(ready'[i])
      PROVE  /\ robot.n <= ready'[i].frame.n /\ ready'[i].frame.n <= commands
             /\ InOrder(io', robot.n, ready'[i].frame.n)
  BY <1>2, <1>3, <1>5, OrderFacts DEF Order, OrderKept
<1> QED BY <1>1, <1>2, <1>4, <1>5 DEF Order

LEMMA RunVelocityOrder == ASSUME Base, Order, RunVelocity PROVE Order'
<1>1. Run("velocity")
  BY DEF RunVelocity
<1>2. /\ IoOK(io) /\ Head(ready) \in Handler /\ IsVelocity(Head(ready))
      /\ ready \in Seq(Handler) /\ ready' \in Seq(Handler) /\ UNCHANGED <<commands, robot>>
  BY <1>1, RunFacts DEF IsVelocity
<1> DEFINE frame == Head(ready).frame
<1>3. frame \in Frame /\ IsCommand(frame) /\ frame.n \in Nat
  BY <1>2, HandlerFrame, FrameTypes DEF IsVelocity
<1>4. CASE io' = io
  BY <1>1, <1>4, OrderFrom, OrderSame
<1>5. CASE io.connected /\ io' = QueueFrameOnIo(io, frame, VelocityMode(frame))
  <2>1. io.open /\ VelocityMode(frame) \in {"discardPending", "replaceLatest"}
    BY <1>5 DEF Base, Connection, ConnectedOK, VelocityMode
  <2>2. /\ ReadySorted(ready') /\ 1 \in DOMAIN ready /\ Head(ready) = ready[1]
        /\ \A i \in DOMAIN ready' : IsVelocity(ready'[i]) => frame.n <= ready'[i].frame.n
        /\ \A i \in DOMAIN ready' : i + 1 \in DOMAIN ready /\ ready'[i] = ready[i + 1]
    BY <1>1, <1>2, OrderTail
  <2>3. /\ robot.n <= frame.n /\ frame.n <= commands /\ InOrder(io, robot.n, frame.n)
        /\ robot.n <= commands
    BY <1>2, <2>2 DEF Order
  <2>4. \A hi \in Nat : frame.n <= hi => InOrder(io', robot.n, hi)
    BY <1>2, <1>3, <1>5, <2>1, <2>3, OrderVelocity, OrderFacts
  <2>5. ASSUME NEW i \in DOMAIN ready', IsVelocity(ready'[i])
        PROVE  /\ robot.n <= ready'[i].frame.n /\ ready'[i].frame.n <= commands
               /\ InOrder(io', robot.n, ready'[i].frame.n)
    <3>1. ready'[i].frame.n \in Nat
      BY <1>2, <2>5, VelocityN
    <3> QED BY <2>2, <2>4, <2>5, <3>1 DEF Order
  <2>6. InOrder(io', robot.n, commands)
    BY <2>3, <2>4, OrderFacts
  <2> QED BY <1>2, <2>2, <2>3, <2>5, <2>6 DEF Order
<1> QED BY <1>4, <1>5, RunVelocityCases

\* All other handlers only take commands out of the queue.
LEMMA RunOtherOrder == ASSUME Base, Order, RunHandler, ~RunVelocity PROVE Order'
<1>1. PICK kind : Run(kind)
  BY DEF RunHandler, RunStaleOp, RunDoConnect, RunHandshake, RunConnectionStopWritten,
         RunWritten, RunRead, RunVelocity, RunGoal, RunBeginShutdown, RunTimer, RunOp
<1>2. IoOK(io) /\ ~io.finished /\ io.exit = "none" /\ Head(ready) \in Handler
      /\ Head(ready).run = kind
  BY <1>1, RunFacts
<1> SUFFICES OrderKept(io, io')
  BY <1>1, OrderFrom
<1>3. CASE Severed(io, io')
  BY <1>3, OrderEmpty DEF Severed
<1>4. CASE Quiet(io, io')
  BY <1>4, OrderSame DEF Quiet
<1>5. CASE io' = HandleConnectionFailure(io)
  BY <1>2, <1>3, <1>5, HandleConnectionFailureOf
<1>6. CASE RunStaleOp
  BY <1>6, OrderSame DEF RunStaleOp
<1>7. CASE RunDoConnect
  BY <1>2, <1>3, <1>4, <1>7, DoConnectOf DEF RunDoConnect, Quiet
<1>8. CASE RunHandshake
  <2>1. io' = HandleConnectionFailure(io) \/ io' = [io EXCEPT !.ops = @ \cup {"stopWrite"}]
    BY <1>8 DEF RunHandshake
  <2>2. CASE io' = [io EXCEPT !.ops = @ \cup {"stopWrite"}]
    <3>1. io'.pending = io.pending /\ io'.active = io.active
      BY <1>2, <2>2 DEF IoOK, Fields
    <3> QED BY <3>1, OrderSame
  <2> QED BY <1>5, <2>1, <2>2
<1>9. CASE RunConnectionStopWritten
  <2> DEFINE u == ConnectedFrom(io)
             s == QueueFrameOnIo(u, FrameOf("subscribe"), "append")
             b == QueueFrameOnIo(s, FrameOf("bootUp"), "append")
  <2>1. CASE Failed
    BY <1>5, <1>9, <2>1 DEF RunConnectionStopWritten
  <2>2. CASE ~Failed
    <3>1. RunOp("stopWrite") /\ Run("op") /\ io' = Connected(io)
      BY <1>9, <2>2 DEF RunConnectionStopWritten, RunOp
    <3>2. /\ ~io.connected /\ io.ops = {} /\ io.open /\ Connection(io, ready', robot)
          /\ \A i \in DOMAIN ready' : ~IsCurrent(io, ready'[i])
      BY <3>1, RunFacts, RunOpFacts
    <3>3. robot.first = "zero" /\ robot.motion = "stopped"
      BY <2>2, <3>1, StopWrittenFacts
    <3>4. IoOK(u) /\ u.pending = <<>> /\ u.active = NoFrame /\ Connection(u, ready', robot)
          /\ u.connected
      BY <1>2, <3>2, <3>3, ConnectedOf
    <3>5. IoOK(s) /\ Connection(s, ready', robot) /\ s.connected
      BY <1>2, <3>2, <3>3, ConnectedOf
    <3>6. io'.pending = b.pending /\ io'.active = b.active
      BY <1>2, <3>1, <3>2, <3>3, ConnectedOf
    <3>7. /\ FrameOf("subscribe") \in Frame /\ ~IsCommand(FrameOf("subscribe"))
          /\ FrameOf("bootUp") \in Frame /\ ~IsCommand(FrameOf("bootUp"))
      BY FrameTypes DEF IsCommand
    <3>8. OrderKept(io, u)
      BY <3>4, OrderEmpty
    <3> HIDE DEF u
    <3>9. OrderKept(u, s)
      BY <3>4, <3>7, OrderQueue DEF Connection, ConnectedOK
    <3> HIDE DEF s
    <3>10. OrderKept(s, b)
      BY <3>5, <3>7, OrderQueue DEF Connection, ConnectedOK
    <3> HIDE DEF b
    <3>11. OrderKept(b, io')
      BY <3>6, OrderSame
    <3> QED BY <3>8, <3>9, <3>10, <3>11, OrderTrans
  <2> QED BY <2>1, <2>2
<1>10. CASE RunWritten
  <2>1. \/ io' = HandleConnectionFailure(io)
        \/ io' = StartWrite(Idle(io))
        \/ io' = FinishShutdown(Idle(io), "written")
        \/ io' = Idle(io)
    BY <1>10 DEF RunWritten, Idle
  <2>2. IoOK(Idle(io)) /\ ~Idle(io).finished /\ OrderKept(io, Idle(io))
    BY <1>2, IdleOf, OrderIdle
  <2>3. CASE io' = StartWrite(Idle(io))
    <3>1. OrderKept(Idle(io), io')
      BY <2>2, <2>3, OrderStartWrite
    <3> QED BY <2>2, <3>1, OrderTrans
  <2>4. CASE io' = FinishShutdown(Idle(io), "written")
    <3>1. Severed(Idle(io), io')
      BY <2>2, <2>4, FinishShutdownOf
    <3> QED BY <3>1, OrderEmpty DEF Severed
  <2> QED BY <1>5, <2>1, <2>2, <2>3, <2>4
<1>11. CASE RunRead
  <2>1. RunOp("read") /\ Run("op")
    BY <1>11 DEF RunRead, RunOp
  <2>2. io.open
    BY <2>1, RunOpFacts
  <2>3. \A x : IoOK(x) => OrderKept(x, ReadOn(x))
    <3> SUFFICES ASSUME NEW x, IoOK(x) PROVE OrderKept(x, ReadOn(x))
      OBVIOUS
    <3>1. ReadOn(x).pending = x.pending /\ ReadOn(x).active = x.active
      BY DEF ReadOn, IoOK, Fields
    <3> QED BY <3>1, OrderSame
  <2>4. CASE io' = ReadOn(QueueFrameOnIo(io, FrameOf("pong"), "highPriority"))
    <3> DEFINE z == QueueFrameOnIo(io, FrameOf("pong"), "highPriority")
    <3>1. FrameOf("pong") \in Frame /\ ~IsCommand(FrameOf("pong")) /\ "highPriority" \in Modes
      BY FrameTypes DEF Modes, IsCommand
    <3>2. OrderKept(io, z)
      BY <1>2, <2>2, <3>1, OrderQueue
    <3>3. IoOK(z)
      BY <1>2, <2>1, <3>1, ConnectionQueue, RunOpFacts DEF Base
    <3> HIDE DEF z
    <3>4. OrderKept(z, io')
      BY <2>3, <2>4, <3>3 DEF z
    <3> QED BY <3>2, <3>4, OrderTrans
  <2>5. CASE io' = ReadOn(CompleteBehaviorGoal(io, Head(ready).id))
    <3> DEFINE z == CompleteBehaviorGoal(io, Head(ready).id)
    <3>1. IoOK(z) /\ Quiet(io, z)
      BY <1>2, CompleteOf
    <3> HIDE DEF z
    <3>2. OrderKept(io, z)
      BY <3>1, OrderSame DEF Quiet
    <3>3. OrderKept(z, io')
      BY <2>3, <2>5, <3>1 DEF z
    <3> QED BY <3>2, <3>3, OrderTrans
  <2> QED BY <1>5, <1>11, <2>4, <2>5, RunReadCases
<1>12. CASE RunGoal
  <2> DEFINE h == Head(ready)
             z == WithGoal(io, h.id, h.req)
  <2>1. Run("goal")
    BY <1>12 DEF RunGoal
  <2>2. h \in Handler /\ h.run = "goal"
    BY <2>1, RunFacts
  <2>3. /\ h.id \in Nat /\ h.req \in Nat /\ GoalFrame(h.id) \in Frame
        /\ ~IsCommand(GoalFrame(h.id))
    BY <2>2, HandlerGoal DEF GoalFrame, IsCommand
  <2>4. CASE io' = Answer(io, {h.req})
    BY <1>2, <1>4, <2>4, AnswerOf
  <2>5. CASE io.connected /\ io' = QueueFrameOnIo(z, GoalFrame(h.id), "append")
    <3>1. IoOK(z) /\ Quiet(io, z)
      BY <1>2, <2>3, WithGoalOf
    <3> HIDE DEF z
    <3>2. z.open
      BY <2>5, <3>1 DEF Quiet, Base, Connection, ConnectedOK
    <3>3. OrderKept(io, z)
      BY <3>1, OrderSame DEF Quiet
    <3>4. OrderKept(z, io')
      BY <2>3, <2>5, <3>1, <3>2, OrderQueue
    <3> QED BY <3>3, <3>4, OrderTrans
  <2> QED BY <1>12, <2>4, <2>5, RunGoalCases
<1>13. CASE RunBeginShutdown
  <2>1. CASE io' = FinishShutdown(Halting(io), "notConnected")
    <3>1. Severed(Halting(io), io')
      BY <1>2, <2>1, HaltingOf, FinishShutdownOf
    <3> QED BY <3>1, OrderEmpty DEF Severed
  <2>2. CASE io' = StartWrite(HaltingFrame(io))
    <3> DEFINE z == HaltingFrame(io)
    <3>1. IoOK(z) /\ z.pending = <<FrameOf("zero")>> /\ z.active = io.active
      BY <1>2, HaltingFrameOf
    <3> HIDE DEF z
    <3>2. \A i \in DOMAIN z.pending : ~IsCommand(z.pending[i])
      BY <3>1, FrameTypes DEF IsCommand, FrameKinds
    <3>3. OrderKept(io, z)
      BY <3>1, <3>2 DEF OrderKept, InOrder, Sorted, Within
    <3>4. OrderKept(z, io')
      BY <2>2, <3>1, OrderStartWrite DEF z
    <3> QED BY <3>3, <3>4, OrderTrans
  <2> QED BY <1>13, <2>1, <2>2, RunBeginShutdownCases
<1>14. CASE RunTimer
  <2>1. CASE io' = FinishShutdown(io, "timeout")
    BY <1>2, <1>3, <2>1, FinishShutdownOf
  <2>2. CASE io' = DoConnect(io)
    BY <1>2, <1>3, <1>4, <2>2, DoConnectOf DEF Quiet
  <2>3. CASE io' = CompleteBehaviorGoal(io, Head(ready).timer.n)
    BY <1>2, <1>4, <2>3, CompleteOf
  <2> QED BY <1>4, <1>5, <1>14, <2>1, <2>2, <2>3, RunTimerCases DEF Quiet
<1> QED BY <1>6, <1>7, <1>8, <1>9, <1>10, <1>11, <1>12, <1>13, <1>14 DEF RunHandler

\* The robot takes the active frame, the oldest command there is.
LEMMA EnvironmentOrder == ASSUME Base, Order, Environment PROVE Order' /\ robot'.n >= robot.n
<1>0. IoOK(io) /\ ready \in Seq(Handler) /\ robot.n \in Nat /\ commands \in Nat
  BY OrderFacts
<1>1. ASSUME NEW h \in Handler, ~IsVelocity(h), ready' = Append(ready, h), commands' = commands,
             io'.pending = io.pending, io'.active = io.active,
             \/ robot'.n = robot.n
             \/ IsCommand(io.active) /\ robot'.n = io.active.n
      PROVE  Order' /\ robot'.n >= robot.n
  <2>1. \A i \in DOMAIN ready' :
           \/ i \in DOMAIN ready /\ ready'[i] = ready[i]
           \/ ~IsVelocity(ready'[i])
    BY <1>0, <1>1, AppendOf
  <2>2. ReadySorted(ready')
    BY <2>1 DEF Order, ReadySorted
  <2>3. /\ IsCommand(io.active) => io.active.n \in Nat
        /\ \A i \in DOMAIN io.pending : io.pending[i].n \in Nat
        /\ \A i \in DOMAIN ready : IsVelocity(ready[i]) => ready[i].frame.n \in Nat
    BY <1>0, FrameN, VelocityN
  <2>4. robot'.n >= robot.n /\ robot'.n <= commands
    BY <1>0, <1>1, <2>3 DEF Order, InOrder, Within
  <2>5. \A hi \in Nat : InOrder(io, robot.n, hi) => InOrder(io', robot'.n, hi)
    <3> SUFFICES ASSUME NEW hi \in Nat, InOrder(io, robot.n, hi) PROVE InOrder(io', robot'.n, hi)
      OBVIOUS
    <3>1. Sorted(io')
      BY <1>1 DEF InOrder, Sorted
    <3>2. Within(io', robot'.n, hi)
      <4>1. CASE robot'.n = robot.n
        BY <1>1, <4>1 DEF InOrder, Within
      <4>2. CASE IsCommand(io.active) /\ robot'.n = io.active.n
        BY <1>1, <2>3, <4>2 DEF InOrder, Within, Sorted
      <4> QED BY <1>1, <4>1, <4>2
    <3> QED BY <3>1, <3>2 DEF InOrder
  <2>6. ASSUME NEW i \in DOMAIN ready', IsVelocity(ready'[i])
        PROVE  /\ robot'.n <= ready'[i].frame.n /\ ready'[i].frame.n <= commands
               /\ InOrder(io', robot'.n, ready'[i].frame.n)
    <3>1. i \in DOMAIN ready /\ ready'[i] = ready[i]
      BY <2>1, <2>6
    <3>2. /\ robot.n <= ready[i].frame.n /\ ready[i].frame.n <= commands
          /\ InOrder(io, robot.n, ready[i].frame.n) /\ ready[i].frame.n \in Nat
      BY <2>3, <2>6, <3>1 DEF Order
    <3>3. robot'.n <= ready[i].frame.n
      BY <1>1, <3>2 DEF InOrder, Within
    <3> QED BY <2>5, <3>1, <3>2, <3>3
  <2>7. InOrder(io', robot'.n, commands)
    BY <1>0, <2>5 DEF Order
  <2> QED BY <1>1, <2>2, <2>4, <2>6, <2>7 DEF Order
<1>2. ASSUME NEW op \in Ops, NEW got \in {"ok", "error", "ping", "result"}, NEW id \in Nat,
             Completes(op, got, id),
             \/ robot'.n = robot.n
             \/ IsCommand(io.active) /\ robot'.n = io.active.n
      PROVE  Order' /\ robot'.n >= robot.n
  <2> DEFINE h == [run |-> "op", op |-> op, gen |-> io.gen, got |-> got, id |-> id]
  <2>1. /\ io' = [io EXCEPT !.ops = @ \ {op}] /\ ready' = Append(ready, h)
        /\ commands' = commands
    BY <1>2 DEF Completes, Post
  <2>2. h \in Handler /\ ~IsVelocity(h)
    BY <1>0 DEF Handler, IoOK, IsVelocity
  <2> HIDE DEF h
  <2>3. io'.pending = io.pending /\ io'.active = io.active
    BY <1>0, <2>1 DEF IoOK, Fields
  <2> QED BY <1>1, <1>2, <2>1, <2>2, <2>3
<1>3. ASSUME NEW got \in {"ok", "error"}, HandshakeCompletes(got)
      PROVE  Order' /\ robot'.n >= robot.n
  <2>1. Completes("handshake", got, 0) /\ robot'.n = robot.n
    BY <1>3 DEF HandshakeCompletes, Base, Types, RobotType
  <2> QED BY <1>2, <2>1 DEF Ops
<1>4. ASSUME NEW got \in {"ok", "error"}, NEW op \in Ops, WriteCompletes(op, got)
      PROVE  Order' /\ robot'.n >= robot.n
  <2>1. /\ Completes(op, got, 0) /\ op \in {"stopWrite", "write"}
        /\ robot' = Received(robot, IF op = "write" THEN io.active ELSE FrameOf("zero"))
           \/ robot' = robot
    BY <1>4 DEF WriteCompletes
  <2>2. Received(robot, FrameOf("zero")).n = robot.n
    BY DEF Received, FrameOf
  <2>3. Received(robot, io.active).n = IF IsCommand(io.active) THEN io.active.n ELSE robot.n
    BY DEF Received, IsCommand
  <2> QED BY <1>2, <2>1, <2>2, <2>3
<1>5. ASSUME NEW got \in {"error", "ping", "result"}, NEW id \in Nat, ReadCompletes(got, id)
      PROVE  Order' /\ robot'.n >= robot.n
  <2>1. Completes("read", got, id) /\ robot'.n = robot.n
    BY <1>5 DEF ReadCompletes, Base, Types, RobotType
  <2> QED BY <1>2, <2>1 DEF Ops
<1>6. ASSUME NEW kind, SomeTimerExpires(kind) PROVE Order' /\ robot'.n >= robot.n
  <2>1. PICK t \in io.timers : TimerExpires(t)
    BY <1>6 DEF SomeTimerExpires
  <2> DEFINE h == [run |-> "timer", timer |-> t]
  <2>2. /\ io' = [io EXCEPT !.timers = @ \ {t}] /\ ready' = Append(ready, h)
        /\ commands' = commands /\ robot' = robot
    BY <2>1 DEF TimerExpires, Post
  <2>3. h \in Handler /\ ~IsVelocity(h)
    BY <1>0 DEF Handler, IsVelocity, IoOK
  <2> HIDE DEF h
  <2>4. io'.pending = io.pending /\ io'.active = io.active
    BY <1>0, <2>2 DEF IoOK, Fields
  <2> QED BY <1>1, <2>2, <2>3, <2>4
<1> QED BY <1>3, <1>4, <1>5, <1>6 DEF Environment

LEMMA MainThreadOrder == ASSUME Base, Order, MainThread PROVE Order' /\ robot' = robot
<1>0. IoOK(io) /\ ready \in Seq(Handler) /\ robot.n \in Nat /\ commands \in Nat
  BY OrderFacts
<1>1. robot' = robot
  BY DEF MainThread, Start, StartSucceeds, Stop, StopJoins, ForwardMove, ForwardStop,
         ForwardDogBehaviorGoal
<1>2. ASSUME DOMAIN ready' = {} \/ (DOMAIN ready' = {1} /\ ~IsVelocity(ready'[1])),
             commands' = commands, OrderKept(io, io')
      PROVE  Order'
  BY <1>0, <1>1, <1>2 DEF Order, OrderKept, ReadySorted
<1>3. CASE Start
  <2>1. /\ io' = [io EXCEPT !.initial = "none", !.stopping = FALSE, !.finished = FALSE,
                            !.exit = "none"]
        /\ ready' = <<[run |-> "doConnect"]>> /\ commands' = commands
    BY <1>3 DEF Start
  <2>2. io'.pending = io.pending /\ io'.active = io.active
    BY <1>0, <2>1 DEF IoOK, Fields
  <2>3. DOMAIN ready' = {1} /\ ~IsVelocity(ready'[1])
    BY <2>1 DEF IsVelocity
  <2>4. OrderKept(io, io')
    BY <2>2, OrderSame
  <2> QED BY <1>1, <1>2, <2>1, <2>3, <2>4
<1>4. CASE StopJoins
  <2> DEFINE d == DropConnection(io)
  <2>1. io' = [d EXCEPT !.timers = {}] /\ ready' = <<>> /\ commands' = commands
    BY <1>4 DEF StopJoins
  <2>2. IoOK(d) /\ d.pending = <<>> /\ d.active = NoFrame
    BY <1>0, DropConnectionOf
  <2> HIDE DEF d
  <2>3. io'.pending = <<>> /\ io'.active = NoFrame
    BY <2>1, <2>2 DEF IoOK, Fields
  <2>4. DOMAIN ready' = {}
    BY <2>1
  <2>5. OrderKept(io, io')
    BY <2>3, OrderEmpty
  <2> QED BY <1>1, <1>2, <2>1, <2>4, <2>5
<1>5. ASSUME NEW h \in Handler, ready' = Append(ready, h), io' = io,
             commands' \in Nat, commands <= commands',
             IsVelocity(h) => h.frame.n = commands'
      PROVE  Order'
  <2>1. \A i \in DOMAIN ready' :
           \/ i \in DOMAIN ready /\ ready'[i] = ready[i] /\ i \in Nat /\ i < Len(ready) + 1
           \/ i = Len(ready) + 1 /\ ready'[i] = h
    BY <1>0, <1>5, AppendOf
  <2>2. \A i \in DOMAIN ready : IsVelocity(ready[i]) => ready[i].frame.n \in Nat
                                                        /\ ready[i].frame.n <= commands
    BY <1>0, VelocityN DEF Order
  <2>3. ReadySorted(ready')
    <3> SUFFICES ASSUME NEW i \in DOMAIN ready', NEW j \in DOMAIN ready', i < j,
                        IsVelocity(ready'[i]), IsVelocity(ready'[j])
                 PROVE  ready'[i].frame.n <= ready'[j].frame.n
      BY DEF ReadySorted
    <3>1. Len(ready) \in Nat
      BY <1>0
    <3>2. i \in DOMAIN ready /\ ready'[i] = ready[i]
      BY <2>1, <3>1
    <3>3. CASE ready'[j] = h
      BY <1>0, <1>5, <2>2, <3>2, <3>3
    <3>4. CASE j \in DOMAIN ready /\ ready'[j] = ready[j]
      BY <3>2, <3>4 DEF Order, ReadySorted
    <3> QED BY <2>1, <3>3, <3>4
  <2>4. InOrder(io', robot'.n, commands')
    <3>1. /\ \A i \in DOMAIN io.pending : io.pending[i].n \in Nat
          /\ IsCommand(io.active) => io.active.n \in Nat
      BY <1>0, FrameN
    <3> QED BY <1>0, <1>1, <1>5, <3>1 DEF Order, InOrder, Within
  <2>5. robot'.n <= commands'
    BY <1>0, <1>1, <1>5 DEF Order
  <2>6. ASSUME NEW i \in DOMAIN ready', IsVelocity(ready'[i])
        PROVE  /\ robot'.n <= ready'[i].frame.n /\ ready'[i].frame.n <= commands'
               /\ InOrder(io', robot'.n, ready'[i].frame.n)
    <3>1. CASE ready'[i] = h
      BY <1>5, <2>4, <2>5, <2>6, <3>1
    <3>2. CASE i \in DOMAIN ready /\ ready'[i] = ready[i]
      BY <1>0, <1>1, <1>5, <2>2, <2>6, <3>2 DEF Order
    <3> QED BY <2>1, <3>1, <3>2
  <2> QED BY <2>3, <2>4, <2>5, <2>6 DEF Order
<1>6. ASSUME ready' = ready, io' = io, commands' \in Nat, commands <= commands'
      PROVE  Order'
  <2>1. \A i \in DOMAIN ready : IsVelocity(ready[i]) => ready[i].frame.n \in Nat
    BY <1>0, VelocityN
  <2>2. /\ \A i \in DOMAIN io.pending : io.pending[i].n \in Nat
        /\ IsCommand(io.active) => io.active.n \in Nat
    BY <1>0, FrameN
  <2>3. InOrder(io, robot.n, commands')
    BY <1>0, <1>6, <2>2 DEF Order, InOrder, Within
  <2> QED BY <1>0, <1>1, <1>6, <2>1, <2>3 DEF Order
<1>7. ASSUME NEW repeated \in BOOLEAN, ForwardMove(repeated) PROVE Order'
  <2> DEFINE h == [run |-> "velocity", frame |-> [kind |-> "move", n |-> commands']]
  <2>1. /\ commands' = commands + 1 /\ io' = io
        /\ ready' = ready \/ ready' = Append(ready, h)
    BY <1>7 DEF ForwardMove, Post
  <2>2. commands' \in Nat /\ commands <= commands'
    BY <1>0, <2>1
  <2>3. h \in Handler /\ h.frame.n = commands'
    BY <2>2 DEF Handler
  <2> HIDE DEF h
  <2>4. ready' = Append(ready, h) => Order'
    BY <1>5, <2>1, <2>2, <2>3
  <2>5. ready' = ready => Order'
    BY <1>6, <2>1, <2>2
  <2> QED BY <1>1, <2>1, <2>4, <2>5
<1>8. CASE ForwardStop
  <2> DEFINE h == [run |-> "velocity", frame |-> [kind |-> "stop", n |-> commands']]
  <2>1. /\ commands' = commands + 1 /\ io' = io
        /\ ready' = ready \/ ready' = Append(ready, h)
    BY <1>8 DEF ForwardStop, Post
  <2>2. commands' \in Nat /\ commands <= commands'
    BY <1>0, <2>1
  <2>3. h \in Handler /\ h.frame.n = commands'
    BY <2>2 DEF Handler
  <2> HIDE DEF h
  <2>4. ready' = Append(ready, h) => Order'
    BY <1>5, <2>1, <2>2, <2>3
  <2>5. ready' = ready => Order'
    BY <1>6, <2>1, <2>2
  <2> QED BY <1>1, <2>1, <2>4, <2>5
<1>9. CASE ForwardDogBehaviorGoal
  <2> DEFINE h == [run |-> "goal", id |-> goals', req |-> goals']
  <2>1. commands' = commands /\ io' = io /\ ready' = Append(ready, h)
    BY <1>9 DEF ForwardDogBehaviorGoal, Post
  <2>2. h \in Handler /\ ~IsVelocity(h)
    BY <1>9 DEF ForwardDogBehaviorGoal, Handler, IsVelocity, Base, Types
  <2> HIDE DEF h
  <2>3. commands' \in Nat /\ commands <= commands'
    BY <1>0, <2>1
  <2> QED BY <1>1, <1>5, <2>1, <2>2, <2>3
<1>10. CASE StartSucceeds
  BY <1>0, <1>6, <1>10 DEF StartSucceeds
<1>11. CASE Stop
  <2> DEFINE h == [run |-> "beginShutdown"]
  <2>1. commands' = commands /\ io' = io /\ ready' = Append(ready, h)
    BY <1>11 DEF Stop, Post
  <2>2. h \in Handler /\ ~IsVelocity(h)
    BY DEF Handler, IsVelocity
  <2> HIDE DEF h
  <2>3. commands' \in Nat /\ commands <= commands'
    BY <1>0, <2>1
  <2> QED BY <1>1, <1>5, <2>1, <2>2, <2>3
<1> QED BY <1>1, <1>3, <1>4, <1>7, <1>8, <1>9, <1>10, <1>11 DEF MainThread

LEMMA NextOrder == Base /\ Order /\ [Next]_vars => Order' /\ robot'.n >= robot.n
<1> SUFFICES ASSUME Base, Order, [Next]_vars PROVE Order' /\ robot'.n >= robot.n
  OBVIOUS
<1>1. robot.n \in Nat
  BY OrderFacts
<1>2. CASE UNCHANGED vars
  BY <1>1, <1>2 DEF vars, Order
<1>3. CASE MainThread
  BY <1>1, <1>3, MainThreadOrder
<1>4. CASE RunHandler
  <2>1. PICK kind : Run(kind)
    BY <1>4 DEF RunHandler, RunStaleOp, RunDoConnect, RunHandshake, RunConnectionStopWritten,
         RunWritten, RunRead, RunVelocity, RunGoal, RunBeginShutdown, RunTimer, RunOp
  <2>2. robot' = robot
    BY <2>1, RunFacts
  <2> QED BY <1>1, <1>4, <2>2, RunVelocityOrder, RunOtherOrder
<1>5. CASE Environment
  BY <1>5, EnvironmentOrder
<1> QED BY <1>2, <1>3, <1>4, <1>5 DEF Next

LEMMA OrderInvariant == Spec => [](Base /\ Order)
<1>1. Init => Base /\ Order
  <2> SUFFICES ASSUME Init PROVE Base /\ Order
    OBVIOUS
  <2>1. /\ robot.n = 0 /\ commands = 0 /\ DOMAIN ready = {}
        /\ io.pending = <<>> /\ io.active = NoFrame
    BY DEF Init, IoInit
  <2>2. InOrder(io, 0, 0)
    BY <2>1, FrameN, InitBase DEF InOrder, Sorted, Within, Base, Types
  <2> QED BY <2>1, <2>2, InitBase DEF Order, ReadySorted
<1> QED BY <1>1, NextBase, NextOrder, PTL DEF Spec

\* Velocities reach the robot in the order of the commands: on one connection, over
\* reconnections, and whatever is replaced or discarded on the way.
THEOREM VelocitiesArriveInOrder == Spec => VelocityInOrder
<1>1. Base /\ Order /\ [Next]_vars => [robot'.n >= robot.n]_vars
  BY NextOrder
<1> QED BY <1>1, OrderInvariant, PTL DEF Spec, VelocityInOrder

-----------------------------------------------------------------------------
(* The goals. *)

IsGoal(h) == h.run = "goal"

\* y has no goal that x has not, and has reported the goals that it has forgotten, and
\* no others, once.
Settled(x, y) ==
    /\ \A id \in DOMAIN y.goals : id \in DOMAIN x.goals /\ y.goals[id] = x.goals[id]
    /\ \A r \in 1..MaxGoals :
          \/ y.answers[r] = x.answers[r]
          \/ /\ y.answers[r] = x.answers[r] + 1
             /\ \E id \in DOMAIN x.goals : id \notin DOMAIN y.goals /\ x.goals[id] = r
    /\ \A id \in DOMAIN x.goals : x.goals[id] \in 1..MaxGoals =>
          id \in DOMAIN y.goals \/ y.answers[x.goals[id]] = x.answers[x.goals[id]] + 1

LEMMA SettledSame == ASSUME NEW x, NEW y, SameGoals(x, y) PROVE Settled(x, y)
BY DEF SameGoals, Settled

LEMMA SettledFailed ==
    ASSUME NEW x, NEW y, IoOK(x), GoalsFailed(x, y) PROVE Settled(x, y)
<1>1. DOMAIN x.answers = 1..MaxGoals
  BY DEF IoOK
<1> QED BY <1>1 DEF GoalsFailed, Settled

LEMMA SettledCompleted ==
    ASSUME NEW x, NEW y, NEW id, Completed(x, y, id) PROVE Settled(x, y)
<1>1. CASE id \notin DOMAIN x.goals
  BY <1>1 DEF Completed, Settled
<1>2. CASE id \in DOMAIN x.goals
  BY <1>2 DEF Completed, Settled
<1> QED BY <1>1, <1>2

LEMMA SettledTrans ==
    ASSUME NEW x, NEW y, NEW z,
           \/ SameGoals(x, y) /\ Settled(y, z)
           \/ Settled(x, y) /\ SameGoals(y, z)
    PROVE  Settled(x, z)
BY DEF SameGoals, Settled

\* The invariant: every accepted goal is in one place at most, unanswered while it is
\* there; the goals to come are unanswered too.
Goals ==
    /\ goals \in 0..MaxGoals
    /\ \A id \in DOMAIN io.goals :
          io.goals[id] = id /\ id \in 1..goals /\ io.answers[id] = 0
    /\ \A i \in DOMAIN ready : IsGoal(ready[i]) =>
          /\ ready[i].id = ready[i].req /\ ready[i].req \in 1..goals
          /\ ready[i].req \notin DOMAIN io.goals /\ io.answers[ready[i].req] = 0
    /\ \A i, j \in DOMAIN ready :
          i # j /\ IsGoal(ready[i]) /\ IsGoal(ready[j]) => ready[i].req # ready[j].req
    /\ \A r \in 1..MaxGoals : io.answers[r] <= 1 /\ (r > goals => io.answers[r] = 0)

\* Taking out the oldest handler.
LEMMA GoalsTail ==
    ASSUME Base, Goals, NEW kind, Run(kind)
    PROVE  /\ goals' = goals /\ 1 \in DOMAIN ready /\ Head(ready) = ready[1]
           /\ \A i \in DOMAIN ready' :
                 i + 1 \in DOMAIN ready /\ ready'[i] = ready[i + 1] /\ i + 1 # 1
           /\ \A i, j \in DOMAIN ready' :
                 i # j /\ IsGoal(ready'[i]) /\ IsGoal(ready'[j]) => ready'[i].req # ready'[j].req
<1>1. ready \in Seq(Handler) /\ ready # <<>> /\ ready' = Tail(ready) /\ goals' = goals
  BY RunFacts
<1>2. /\ 1 \in DOMAIN ready /\ Head(ready) = ready[1]
      /\ \A i \in DOMAIN ready' : i + 1 \in DOMAIN ready /\ ready'[i] = ready[i + 1]
                                  /\ i \in Nat \ {0}
  BY <1>1, TailOf
<1>3. ASSUME NEW i \in DOMAIN ready', NEW j \in DOMAIN ready', i # j,
             IsGoal(ready'[i]), IsGoal(ready'[j])
      PROVE  ready'[i].req # ready'[j].req
  <2>1. i + 1 # j + 1
    BY <1>2, <1>3
  <2> QED BY <1>2, <1>3, <2>1 DEF Goals
<1> QED BY <1>1, <1>2, <1>3

LEMMA GoalsFrom ==
    ASSUME Base, Goals, NEW kind, Run(kind), kind # "goal", Settled(io, io')
    PROVE  Goals'
<1>1. /\ goals' = goals
      /\ \A i \in DOMAIN ready' : i + 1 \in DOMAIN ready /\ ready'[i] = ready[i + 1]
      /\ \A i, j \in DOMAIN ready' :
            i # j /\ IsGoal(ready'[i]) /\ IsGoal(ready'[j]) => ready'[i].req # ready'[j].req
  BY GoalsTail
<1>2. goals \in 0..MaxGoals /\ 1..goals \subseteq 1..MaxGoals
  BY DEF Goals
<1>3. \A r \in 1..MaxGoals : r \notin DOMAIN io.goals \/ r \in DOMAIN io'.goals
                                => io'.answers[r] = io.answers[r]
  BY DEF Goals, Settled
<1>4. ASSUME NEW id \in DOMAIN io'.goals
      PROVE  io'.goals[id] = id /\ id \in 1..goals /\ io'.answers[id] = 0
  <2>1. id \in DOMAIN io.goals /\ io'.goals[id] = io.goals[id]
    BY DEF Settled
  <2> QED BY <1>2, <1>3, <2>1 DEF Goals
<1>5. ASSUME NEW i \in DOMAIN ready', IsGoal(ready'[i])
      PROVE  /\ ready'[i].id = ready'[i].req /\ ready'[i].req \in 1..goals
             /\ ready'[i].req \notin DOMAIN io'.goals /\ io'.answers[ready'[i].req] = 0
  <2>1. /\ ready'[i].id = ready'[i].req /\ ready'[i].req \in 1..goals
        /\ ready'[i].req \notin DOMAIN io.goals /\ io.answers[ready'[i].req] = 0
    BY <1>1, <1>5 DEF Goals
  <2>2. ready'[i].req \notin DOMAIN io'.goals
    BY <2>1 DEF Settled
  <2> QED BY <1>2, <1>3, <2>1, <2>2
<1>6. ASSUME NEW r \in 1..MaxGoals
      PROVE  io'.answers[r] <= 1 /\ (r > goals => io'.answers[r] = 0)
  <2>1. CASE io'.answers[r] = io.answers[r]
    BY <2>1 DEF Goals
  <2>2. CASE io'.answers[r] = io.answers[r] + 1 /\ \E id \in DOMAIN io.goals : io.goals[id] = r
    <3>1. io.answers[r] = 0 /\ r \in 1..goals
      BY <2>2 DEF Goals
    <3> QED BY <1>2, <2>2, <3>1
  <2> QED BY <2>1, <2>2 DEF Settled
<1> QED BY <1>1, <1>2, <1>4, <1>5, <1>6 DEF Goals

\* A goal that is refused is reported at once; one that is sent is remembered.
LEMMA RunGoalGoals == ASSUME Base, Goals, RunGoal PROVE Goals'
<1>1. Run("goal")
  BY DEF RunGoal
<1>2. IoOK(io) /\ Head(ready) \in Handler /\ Head(ready).run = "goal"
  BY <1>1, RunFacts
<1> DEFINE h == Head(ready)
           z == WithGoal(io, h.id, h.req)
<1>3. h.id \in Nat /\ h.req \in Nat /\ GoalFrame(h.id) \in Frame /\ "append" \in Modes
  BY <1>2, HandlerGoal DEF Modes
<1>4. /\ goals' = goals /\ 1 \in DOMAIN ready /\ h = ready[1]
      /\ \A i \in DOMAIN ready' : i + 1 \in DOMAIN ready /\ ready'[i] = ready[i + 1] /\ i + 1 # 1
      /\ \A i, j \in DOMAIN ready' :
            i # j /\ IsGoal(ready'[i]) /\ IsGoal(ready'[j]) => ready'[i].req # ready'[j].req
  BY <1>1, GoalsTail
<1> DEFINE req == h.req
<1>5. h.id = req /\ req \in 1..goals /\ req \notin DOMAIN io.goals /\ io.answers[req] = 0
  BY <1>2, <1>4 DEF Goals, IsGoal
<1>6. \A i \in DOMAIN ready' : IsGoal(ready'[i]) =>
          /\ ready'[i].id = ready'[i].req /\ ready'[i].req \in 1..goals
          /\ ready'[i].req \notin DOMAIN io.goals /\ io.answers[ready'[i].req] = 0
          /\ ready'[i].req # req
  BY <1>2, <1>4 DEF Goals, IsGoal
<1>7. goals \in 0..MaxGoals /\ 1..goals \subseteq 1..MaxGoals
  BY DEF Goals
<1>8. CASE io' = Answer(io, {req})
  <2>1. /\ io'.goals = io.goals
        /\ \A r \in 1..MaxGoals : io'.answers[r] = IF r = req THEN io.answers[r] + 1
                                                              ELSE io.answers[r]
    BY <1>2, <1>8, AnswerOf
  <2> HIDE DEF req, h
  <2>2. \A id \in DOMAIN io'.goals : io'.goals[id] = id /\ id \in 1..goals /\ io'.answers[id] = 0
    BY <1>5, <1>7, <2>1 DEF Goals
  <2>3. \A i \in DOMAIN ready' : IsGoal(ready'[i]) =>
          /\ ready'[i].id = ready'[i].req /\ ready'[i].req \in 1..goals
          /\ ready'[i].req \notin DOMAIN io'.goals /\ io'.answers[ready'[i].req] = 0
    BY <1>6, <1>7, <2>1
  <2>4. \A r \in 1..MaxGoals : io'.answers[r] <= 1 /\ (r > goals => io'.answers[r] = 0)
    BY <1>5, <1>7, <2>1 DEF Goals
  <2> QED BY <1>4, <1>7, <2>2, <2>3, <2>4 DEF Goals
<1>9. CASE io.connected /\ io' = QueueFrameOnIo(z, GoalFrame(h.id), "append")
  <2>1. IoOK(z) /\ Quiet(io, z)
    BY <1>2, <1>3, WithGoalOf
  <2>2. /\ z.answers = io.answers /\ DOMAIN z.goals = DOMAIN io.goals \cup {req}
        /\ \A i \in DOMAIN z.goals : z.goals[i] = IF i = req THEN req ELSE io.goals[i]
    <3>1. Remembered(io, z, h.id, h.req)
      BY <1>2, <1>3, WithGoalOf
    <3> HIDE DEF z, h
    <3> QED BY <1>5, <3>1 DEF Remembered
  <2> HIDE DEF z
  <2>3. Connection(z, ready, robot) /\ z.connected
    BY <1>9, <2>1, ConnectionQuiet DEF Quiet, Base
  <2>4. SameGoals(z, io')
    BY <1>3, <1>9, <2>1, <2>3, ConnectionQueue
  <2>5. io'.goals = z.goals /\ io'.answers = io.answers
    BY <2>2, <2>4 DEF SameGoals
  <2> HIDE DEF req, h
  <2>6. \A id \in DOMAIN io'.goals : io'.goals[id] = id /\ id \in 1..goals /\ io'.answers[id] = 0
    BY <1>5, <2>2, <2>5 DEF Goals
  <2>7. \A i \in DOMAIN ready' : IsGoal(ready'[i]) =>
          /\ ready'[i].id = ready'[i].req /\ ready'[i].req \in 1..goals
          /\ ready'[i].req \notin DOMAIN io'.goals /\ io'.answers[ready'[i].req] = 0
    BY <1>6, <2>2, <2>5
  <2>8. \A r \in 1..MaxGoals : io'.answers[r] <= 1 /\ (r > goals => io'.answers[r] = 0)
    BY <2>5 DEF Goals
  <2> QED BY <1>4, <1>7, <2>6, <2>7, <2>8 DEF Goals
<1> QED BY <1>8, <1>9, RunGoalCases

\* All other handlers report the goals that they forget.
LEMMA RunOtherSettled == ASSUME Base, RunHandler, ~RunGoal PROVE Settled(io, io')
<1>1. PICK kind : Run(kind) /\ kind # "goal"
  BY DEF RunHandler, RunStaleOp, RunDoConnect, RunHandshake, RunConnectionStopWritten,
         RunWritten, RunRead, RunVelocity, RunBeginShutdown, RunTimer, RunOp
<1>2. IoOK(io) /\ ~io.finished /\ io.exit = "none" /\ Head(ready) \in Handler
      /\ Head(ready).run = kind
  BY <1>1, RunFacts
<1>3. CASE SameGoals(io, io')
  BY <1>3, SettledSame
<1>4. CASE GoalsFailed(io, io')
  BY <1>2, <1>4, SettledFailed
<1>5. CASE io' = HandleConnectionFailure(io)
  BY <1>2, <1>4, <1>5, HandleConnectionFailureOf
<1>6. CASE RunStaleOp
  BY <1>3, <1>6 DEF RunStaleOp, SameGoals
<1>7. CASE RunDoConnect
  BY <1>2, <1>3, <1>7, DoConnectOf DEF RunDoConnect
<1>8. CASE RunHandshake
  <2>1. io' = HandleConnectionFailure(io) \/ io' = [io EXCEPT !.ops = @ \cup {"stopWrite"}]
    BY <1>8 DEF RunHandshake
  <2>2. CASE io' = [io EXCEPT !.ops = @ \cup {"stopWrite"}]
    <3>1. SameGoals(io, io')
      BY <1>2, <2>2 DEF IoOK, Fields, SameGoals
    <3> QED BY <1>3, <3>1
  <2> QED BY <1>5, <2>1, <2>2
<1>9. CASE RunConnectionStopWritten
  <2>1. CASE Failed
    BY <1>5, <1>9, <2>1 DEF RunConnectionStopWritten
  <2>2. CASE ~Failed
    <3>1. RunOp("stopWrite") /\ Run("op") /\ io' = Connected(io)
      BY <1>9, <2>2 DEF RunConnectionStopWritten, RunOp
    <3>2. /\ ~io.connected /\ io.ops = {} /\ io.open /\ Connection(io, ready', robot)
          /\ \A i \in DOMAIN ready' : ~IsCurrent(io, ready'[i])
      BY <3>1, RunFacts, RunOpFacts
    <3>3. robot.first = "zero" /\ robot.motion = "stopped"
      BY <2>2, <3>1, StopWrittenFacts
    <3>4. SameGoals(io, io')
      BY <1>2, <3>1, <3>2, <3>3, ConnectedOf
    <3> QED BY <1>3, <3>4
  <2> QED BY <2>1, <2>2
<1>10. CASE RunWritten
  <2>1. \/ io' = HandleConnectionFailure(io)
        \/ io' = StartWrite(Idle(io))
        \/ io' = FinishShutdown(Idle(io), "written")
        \/ io' = Idle(io)
    BY <1>10 DEF RunWritten, Idle
  <2>2. IoOK(Idle(io)) /\ ~Idle(io).finished /\ SameGoals(io, Idle(io))
    BY <1>2, IdleOf
  <2>3. CASE io' = StartWrite(Idle(io))
    <3>1. SameGoals(Idle(io), io')
      BY <2>2, <2>3, StartWriteOf
    <3> QED BY <1>3, <2>2, <3>1 DEF SameGoals
  <2>4. CASE io' = FinishShutdown(Idle(io), "written")
    <3>1. GoalsFailed(Idle(io), io')
      BY <2>2, <2>4, FinishShutdownOf
    <3>2. Settled(Idle(io), io')
      BY <2>2, <3>1, SettledFailed
    <3> QED BY <2>2, <3>2, SettledTrans
  <2>5. CASE io' = Idle(io)
    BY <1>3, <2>2, <2>5
  <2> QED BY <1>5, <2>1, <2>3, <2>4, <2>5
<1>11. CASE RunRead
  <2>1. RunOp("read") /\ Run("op")
    BY <1>11 DEF RunRead, RunOp
  <2>2. io.open /\ io.connected
    BY <2>1, RunOpFacts
  <2>3. \A x : IoOK(x) => SameGoals(x, ReadOn(x))
    BY DEF ReadOn, IoOK, Fields, SameGoals
  <2>4. CASE io' = ReadOn(QueueFrameOnIo(io, FrameOf("pong"), "highPriority"))
    <3> DEFINE z == QueueFrameOnIo(io, FrameOf("pong"), "highPriority")
    <3>1. FrameOf("pong") \in Frame /\ "highPriority" \in Modes
      BY FrameTypes DEF Modes
    <3>2. IoOK(z) /\ SameGoals(io, z)
      BY <1>2, <2>2, <3>1, ConnectionQueue DEF Base
    <3> HIDE DEF z
    <3>3. SameGoals(z, io')
      BY <2>3, <2>4, <3>2 DEF z
    <3> QED BY <1>3, <3>2, <3>3 DEF SameGoals
  <2>5. CASE io' = ReadOn(CompleteBehaviorGoal(io, Head(ready).id))
    <3> DEFINE z == CompleteBehaviorGoal(io, Head(ready).id)
    <3>1. IoOK(z) /\ Completed(io, z, Head(ready).id)
      BY <1>2, CompleteOf
    <3> HIDE DEF z
    <3>2. Settled(io, z)
      BY <3>1, SettledCompleted
    <3>3. SameGoals(z, io')
      BY <2>3, <2>5, <3>1 DEF z
    <3> QED BY <3>2, <3>3, SettledTrans
  <2> QED BY <1>5, <1>11, <2>4, <2>5, RunReadCases
<1>12. CASE RunVelocity
  <2>1. CASE io' = io
    BY <1>3, <2>1 DEF SameGoals
  <2>2. CASE /\ running /\ io.connected /\ ~io.stopping
             /\ io' = QueueFrameOnIo(io, Head(ready).frame, VelocityMode(Head(ready).frame))
    <3>1. Head(ready).frame \in Frame /\ VelocityMode(Head(ready).frame) \in Modes
      BY <1>2, <1>12, HandlerFrame DEF RunVelocity, Run, VelocityMode, Modes
    <3>2. SameGoals(io, io')
      BY <1>2, <2>2, <3>1, ConnectionQueue DEF Base
    <3> QED BY <1>3, <3>2
  <2> QED BY <1>12, <2>1, <2>2, RunVelocityCases
<1>13. CASE RunBeginShutdown
  <2>1. CASE io' = FinishShutdown(Halting(io), "notConnected")
    <3> DEFINE z == Halting(io)
    <3>1. IoOK(z) /\ SameGoals(io, z) /\ ~z.finished
      BY <1>2, HaltingOf
    <3> HIDE DEF z
    <3>2. GoalsFailed(z, io')
      BY <2>1, <3>1, FinishShutdownOf DEF z
    <3>3. Settled(z, io')
      BY <3>1, <3>2, SettledFailed
    <3> QED BY <3>1, <3>3, SettledTrans
  <2>2. CASE io' = StartWrite(HaltingFrame(io))
    <3> DEFINE z == HaltingFrame(io)
    <3>1. IoOK(z) /\ SameGoals(io, z)
      BY <1>2, HaltingFrameOf
    <3> HIDE DEF z
    <3>2. SameGoals(z, io')
      BY <2>2, <3>1, StartWriteOf DEF z
    <3> QED BY <1>3, <3>1, <3>2 DEF SameGoals
  <2> QED BY <1>13, <2>1, <2>2, RunBeginShutdownCases
<1>14. CASE RunTimer
  <2>1. CASE io' = FinishShutdown(io, "timeout")
    BY <1>2, <1>4, <2>1, FinishShutdownOf
  <2>2. CASE io' = DoConnect(io)
    BY <1>2, <1>3, <2>2, DoConnectOf
  <2>3. CASE io' = CompleteBehaviorGoal(io, Head(ready).timer.n)
    BY <1>2, <2>3, CompleteOf, SettledCompleted
  <2>4. CASE io' = io
    BY <1>3, <2>4 DEF SameGoals
  <2> QED BY <1>5, <1>14, <2>1, <2>2, <2>3, <2>4, RunTimerCases
<1> QED BY <1>6, <1>7, <1>8, <1>9, <1>10, <1>11, <1>12, <1>13, <1>14 DEF RunHandler

LEMMA RunOtherGoals == ASSUME Base, Goals, RunHandler, ~RunGoal PROVE Goals'
<1>1. PICK kind : Run(kind) /\ kind # "goal"
  BY DEF RunHandler, RunStaleOp, RunDoConnect, RunHandshake, RunConnectionStopWritten,
         RunWritten, RunRead, RunVelocity, RunBeginShutdown, RunTimer, RunOp
<1> QED BY <1>1, RunOtherSettled, GoalsFrom

\* Nothing but the io thread reports goals; a new one comes after all others.
LEMMA GoalsElsewhere ==
    ASSUME Base, Goals, SameGoals(io, io'), goals' = goals,
           \A i \in DOMAIN ready' :
              (i \in DOMAIN ready /\ ready'[i] = ready[i]) \/ ~IsGoal(ready'[i])
    PROVE  Goals'
BY DEF Goals, SameGoals

LEMMA EnvironmentGoals == ASSUME Base, Goals, Environment PROVE Goals'
<1>0. IoOK(io) /\ ready \in Seq(Handler)
  BY DEF Base, Types
<1>1. ASSUME NEW h \in Handler, ~IsGoal(h), ready' = Append(ready, h), goals' = goals,
             SameGoals(io, io')
      PROVE  Goals'
  <2>1. \A i \in DOMAIN ready' :
           (i \in DOMAIN ready /\ ready'[i] = ready[i]) \/ ~IsGoal(ready'[i])
    BY <1>0, <1>1, AppendOf
  <2> QED BY <1>1, <2>1, GoalsElsewhere
<1>2. ASSUME NEW op \in Ops, NEW got \in {"ok", "error", "ping", "result"}, NEW id \in Nat,
             Completes(op, got, id)
      PROVE  Goals'
  <2> DEFINE h == [run |-> "op", op |-> op, gen |-> io.gen, got |-> got, id |-> id]
  <2>1. io' = [io EXCEPT !.ops = @ \ {op}] /\ ready' = Append(ready, h) /\ goals' = goals
    BY <1>2 DEF Completes, Post
  <2>2. h \in Handler /\ ~IsGoal(h)
    BY <1>0 DEF Handler, IoOK, IsGoal
  <2> HIDE DEF h
  <2>3. SameGoals(io, io')
    BY <1>0, <2>1 DEF IoOK, Fields, SameGoals
  <2> QED BY <1>1, <2>1, <2>2, <2>3
<1>3. ASSUME NEW kind, SomeTimerExpires(kind) PROVE Goals'
  <2>1. PICK t \in io.timers : TimerExpires(t)
    BY <1>3 DEF SomeTimerExpires
  <2> DEFINE h == [run |-> "timer", timer |-> t]
  <2>2. io' = [io EXCEPT !.timers = @ \ {t}] /\ ready' = Append(ready, h) /\ goals' = goals
    BY <2>1 DEF TimerExpires, Post
  <2>3. h \in Handler /\ ~IsGoal(h)
    BY <1>0 DEF Handler, IsGoal, IoOK
  <2> HIDE DEF h
  <2>4. SameGoals(io, io')
    BY <1>0, <2>2 DEF IoOK, Fields, SameGoals
  <2> QED BY <1>1, <2>2, <2>3, <2>4
<1>4. (\E kind : SomeTimerExpires(kind))
      \/ \E op \in Ops, got \in {"ok", "error", "ping", "result"}, id \in Nat :
            Completes(op, got, id)
  BY DEF Environment, HandshakeCompletes, WriteCompletes, ReadCompletes, Ops
<1> QED BY <1>2, <1>3, <1>4

LEMMA MainThreadGoals == ASSUME Base, Goals, MainThread PROVE Goals'
<1>0. IoOK(io) /\ ready \in Seq(Handler)
  BY DEF Base, Types
<1>1. CASE Start
  <2>1. /\ io' = [io EXCEPT !.initial = "none", !.stopping = FALSE, !.finished = FALSE,
                            !.exit = "none"]
        /\ ready' = <<[run |-> "doConnect"]>> /\ goals' = goals
    BY <1>1 DEF Start
  <2>2. SameGoals(io, io')
    BY <1>0, <2>1 DEF IoOK, Fields, SameGoals
  <2>3. \A i \in DOMAIN ready' : ~IsGoal(ready'[i])
    BY <2>1 DEF IsGoal
  <2> QED BY <2>1, <2>2, <2>3, GoalsElsewhere
<1>2. CASE StopJoins
  <2> DEFINE d == DropConnection(io)
  <2>1. io' = [d EXCEPT !.timers = {}] /\ ready' = <<>> /\ goals' = goals
    BY <1>2 DEF StopJoins
  <2>2. IoOK(d) /\ SameGoals(io, d)
    BY <1>0, DropConnectionOf
  <2> HIDE DEF d
  <2>3. SameGoals(io, io')
    BY <2>1, <2>2 DEF IoOK, Fields, SameGoals
  <2>4. DOMAIN ready' = {}
    BY <2>1
  <2> QED BY <2>1, <2>3, <2>4, GoalsElsewhere
<1>3. ASSUME NEW h \in Handler, ~IsGoal(h), ready' = Append(ready, h) \/ ready' = ready,
             io' = io, goals' = goals
      PROVE  Goals'
  <2>1. \A i \in DOMAIN ready' :
           (i \in DOMAIN ready /\ ready'[i] = ready[i]) \/ ~IsGoal(ready'[i])
    BY <1>0, <1>3, AppendOf
  <2> QED BY <1>3, <2>1, GoalsElsewhere DEF SameGoals
<1>4. CASE StartSucceeds \/ Stop
  <2> DEFINE h == [run |-> "beginShutdown"]
  <2>1. (ready' = Append(ready, h) \/ ready' = ready) /\ io' = io /\ goals' = goals
    BY <1>4 DEF StartSucceeds, Stop, Post
  <2>2. h \in Handler /\ ~IsGoal(h)
    BY DEF Handler, IsGoal
  <2> HIDE DEF h
  <2> QED BY <1>3, <2>1, <2>2
<1>5. ASSUME NEW kind \in {"move", "stop"}, commands' = commands + 1, io' = io, goals' = goals,
             \/ ready' = ready
             \/ ready' = Append(ready, [run |-> "velocity", frame |-> [kind |-> kind, n |-> commands']])
      PROVE  Goals'
  <2> DEFINE h == [run |-> "velocity", frame |-> [kind |-> kind, n |-> commands']]
  <2>1. h \in Handler /\ ~IsGoal(h)
    BY <1>5 DEF Handler, IsGoal, Base, Types
  <2>2. ready' = Append(ready, h) \/ ready' = ready
    BY <1>5
  <2> HIDE DEF h
  <2> QED BY <1>3, <1>5, <2>1, <2>2
<1>6. ASSUME NEW repeated \in BOOLEAN, ForwardMove(repeated) PROVE Goals'
  <2>1. /\ commands' = commands + 1 /\ io' = io /\ goals' = goals
        /\ \/ ready' = ready
           \/ ready' = Append(ready, [run |-> "velocity", frame |-> [kind |-> "move", n |-> commands']])
    BY <1>6 DEF ForwardMove, Post
  <2> QED BY <1>5, <2>1
<1>7. CASE ForwardStop
  <2>1. /\ commands' = commands + 1 /\ io' = io /\ goals' = goals
        /\ \/ ready' = ready
           \/ ready' = Append(ready, [run |-> "velocity", frame |-> [kind |-> "stop", n |-> commands']])
    BY <1>7 DEF ForwardStop, Post
  <2> QED BY <1>5, <2>1
<1>8. CASE ForwardDogBehaviorGoal
  <2> DEFINE h == [run |-> "goal", id |-> goals', req |-> goals']
  <2>1. /\ goals < MaxGoals /\ goals' = goals + 1 /\ io' = io /\ ready' = Append(ready, h)
    BY <1>8 DEF ForwardDogBehaviorGoal, Post
  <2>2. goals \in 0..MaxGoals /\ goals' \in 1..MaxGoals /\ goals' \notin 1..goals
        /\ 1..goals \subseteq 1..goals' /\ goals' \in Nat
    BY <2>1 DEF Goals
  <2>3. h \in Handler /\ h.id = goals' /\ h.req = goals'
    BY <2>2 DEF Handler
  <2> HIDE DEF h
  <2>4. \A i \in DOMAIN ready' :
           \/ i \in DOMAIN ready /\ ready'[i] = ready[i]
           \/ i = Len(ready) + 1 /\ ready'[i] = h
    BY <1>0, <2>1, <2>3, AppendOf
  <2>5. goals' \notin DOMAIN io.goals /\ io.answers[goals'] = 0
    BY <2>1, <2>2 DEF Goals
  <2>6. \A i \in DOMAIN ready' : IsGoal(ready'[i]) =>
          /\ ready'[i].id = ready'[i].req /\ ready'[i].req \in 1..goals'
          /\ ready'[i].req \notin DOMAIN io'.goals /\ io'.answers[ready'[i].req] = 0
    BY <2>1, <2>2, <2>3, <2>4, <2>5 DEF Goals
  <2>7. ASSUME NEW i \in DOMAIN ready', NEW j \in DOMAIN ready', i # j,
               IsGoal(ready'[i]), IsGoal(ready'[j])
        PROVE  ready'[i].req # ready'[j].req
    <3>1. \A k \in DOMAIN ready : IsGoal(ready[k]) => ready[k].req # goals'
      BY <2>2 DEF Goals
    <3> QED BY <2>3, <2>4, <2>7, <3>1 DEF Goals
  <2>8. /\ \A id \in DOMAIN io'.goals :
             io'.goals[id] = id /\ id \in 1..goals' /\ io'.answers[id] = 0
        /\ \A r \in 1..MaxGoals : io'.answers[r] <= 1 /\ (r > goals' => io'.answers[r] = 0)
    BY <2>1, <2>2 DEF Goals
  <2> QED BY <2>2, <2>6, <2>7, <2>8 DEF Goals
<1> QED BY <1>1, <1>2, <1>4, <1>6, <1>7, <1>8 DEF MainThread

LEMMA GoalsInvariant == Spec => [](Base /\ Goals)
<1>1. Init => Base /\ Goals
  <2> SUFFICES ASSUME Init PROVE Base /\ Goals
    OBVIOUS
  <2>1. /\ DOMAIN ready = {} /\ DOMAIN io.goals = {} /\ goals = 0
        /\ \A r \in 1..MaxGoals : io.answers[r] = 0
    BY DEF Init, IoInit
  <2> QED BY <2>1, InitBase DEF Goals
<1>2. Base /\ Goals /\ [Next]_vars => (Base /\ Goals)'
  <2> SUFFICES ASSUME Base, Goals, [Next]_vars PROVE Base' /\ Goals'
    OBVIOUS
  <2>1. CASE UNCHANGED vars
    BY <2>1, NextBase DEF vars, Goals
  <2> QED BY <2>1, NextBase, MainThreadGoals, RunGoalGoals, RunOtherGoals, EnvironmentGoals
          DEF Next
<1> QED BY <1>1, <1>2, PTL DEF Spec

\* No goal is reported twice, whichever of its result, its timer, a failure of the
\* connection and a shutdown come together.
THEOREM GoalsAnsweredOnce == Spec => []AnsweredOnce
<1>1. Base /\ Goals => AnsweredOnce
  <2> SUFFICES ASSUME Base, Goals PROVE AnsweredOnce
    OBVIOUS
  <2>1. DOMAIN io.answers = 1..MaxGoals
    BY DEF Base, Types, IoOK
  <2> QED BY <2>1 DEF Goals, AnsweredOnce
<1> QED BY <1>1, GoalsInvariant, PTL
-----------------------------------------------------------------------------
(* What still has to happen is due: a timer runs for it, or its handler is ready. *)

Due(x, q, t) == t \in x.timers \/ \E i \in DOMAIN q : q[i].run = "timer" /\ q[i].timer = t

Posted(q, kind) == \E i \in DOMAIN q : q[i].run = kind

\* A read of the present connection is under way, or its handler is ready.
Reading(x, q) == "read" \in x.ops \/ \E i \in DOMAIN q : IsCurrent(x, q[i]) /\ q[i].op = "read"

\* Every goal that waits for its result has its timer.
GoalsTimed == \A id \in DOMAIN io.goals : Due(io, ready, GoalTimer(id))

\* While the forwarder is open, a loss of its connection will be read, and without
\* a connection the next attempt, or the end of the present one, is due.
LinkWatched ==
    main \in {"opening", "open"} =>
       IF io.connected THEN Reading(io, ready)
       ELSE \/ Posted(ready, "doConnect")
            \/ Due(io, ready, Reconnect)
            \/ Due(io, ready, Operation(io.gen))

\* A Close that waits for the io thread will see it end.
CloseBounded ==
    main = "closing" => \/ io.finished
                        \/ Posted(ready, "beginShutdown")
                        \/ io.stopping /\ Due(io, ready, ShutdownTimer)

\* The phases of the main thread and of the io thread's shutdown belong together.
Phases ==
    /\ running <=> main \in {"opening", "open"}
    /\ main = "closed" \/ io.finished => DOMAIN io.goals = {}
    /\ running => /\ ~io.stopping /\ ~io.finished
                  /\ \A t \in Timers : t.timer = "shutdown" => ~Due(io, ready, t)

Awake == GoalsTimed /\ LinkWatched /\ CloseBounded /\ Phases

LEMMA TimerKinds ==
    /\ Reconnect.timer = "reconnect" /\ ShutdownTimer.timer = "shutdown"
    /\ \A n : Operation(n).timer = "operation" /\ GoalTimer(n).timer = "goal"
              /\ Operation(n).n = n /\ GoalTimer(n).n = n
BY DEF Reconnect, ShutdownTimer, Operation, GoalTimer

\* An element of a sequence is its head or in its tail.
LEMMA HeadOrTail ==
    ASSUME NEW S, NEW q \in Seq(S), q # <<>>
    PROVE  /\ 1 \in DOMAIN q /\ Head(q) = q[1]
           /\ \A i \in DOMAIN q : q[i] = Head(q) \/ \E j \in DOMAIN Tail(q) : Tail(q)[j] = q[i]
           /\ \A j \in DOMAIN Tail(q) : \E i \in DOMAIN q : Tail(q)[j] = q[i]
<1>1. /\ 1 \in DOMAIN q /\ Head(q) = q[1]
      /\ \A i \in DOMAIN Tail(q) : i + 1 \in DOMAIN q /\ Tail(q)[i] = q[i + 1]
      /\ \A i \in DOMAIN q : i # 1 => i - 1 \in DOMAIN Tail(q) /\ Tail(q)[i - 1] = q[i]
  BY TailOf
<1>2. ASSUME NEW i \in DOMAIN q
      PROVE  q[i] = Head(q) \/ \E j \in DOMAIN Tail(q) : Tail(q)[j] = q[i]
  BY <1>1
<1>3. ASSUME NEW j \in DOMAIN Tail(q) PROVE \E i \in DOMAIN q : Tail(q)[j] = q[i]
  BY <1>1
<1> QED BY <1>1, <1>2, <1>3

\* Only what the oldest handler stands for is lost when it is taken out.
LEMMA DueTail ==
    ASSUME Base, NEW kind, Run(kind), NEW x
    PROVE  /\ \A t : Due(x, ready, t) =>
                 Due(x, ready', t) \/ (kind = "timer" /\ Head(ready).timer = t)
           /\ \A t : Due(x, ready', t) => Due(x, ready, t)
           /\ \A k : Posted(ready, k) => Posted(ready', k) \/ kind = k
           /\ Reading(x, ready) =>
                 Reading(x, ready') \/ (IsCurrent(x, Head(ready)) /\ Head(ready).op = "read")
<1>1. ready \in Seq(Handler) /\ ready # <<>> /\ ready' = Tail(ready) /\ Head(ready).run = kind
  BY RunFacts
<1>2. \A i \in DOMAIN ready : ready[i] = Head(ready) \/ \E j \in DOMAIN ready' : ready'[j] = ready[i]
  BY <1>1, HeadOrTail
<1>3. \A j \in DOMAIN ready' : \E i \in DOMAIN ready : ready'[j] = ready[i]
  BY <1>1, HeadOrTail
<1> QED BY <1>1, <1>2, <1>3 DEF Due, Posted, Reading

\* Handlers posted at the end leave those before them due.
LEMMA DueAppend ==
    ASSUME NEW h \in Handler, ready \in Seq(Handler), ready' = Append(ready, h), NEW x
    PROVE  /\ \A t : Due(x, ready, t) => Due(x, ready', t)
           /\ \A t : Due(x, ready', t) => Due(x, ready, t) \/ (h.run = "timer" /\ h.timer = t)
           /\ \A k : Posted(ready, k) => Posted(ready', k)
           /\ Reading(x, ready) => Reading(x, ready')
           /\ Posted(ready', h.run)
           /\ h.run = "timer" => Due(x, ready', h.timer)
           /\ IsCurrent(x, h) /\ h.op = "read" => Reading(x, ready')
<1>1. /\ \A i \in DOMAIN ready : i \in DOMAIN ready' /\ ready'[i] = ready[i]
      /\ \E i \in DOMAIN ready' : ready'[i] = h
      /\ \A i \in DOMAIN ready' : ready'[i] = h \/ \E j \in DOMAIN ready : ready'[i] = ready[j]
  BY AppendOf
<1> QED BY <1>1 DEF Due, Posted, Reading

\* A later record in which a timer still runs.
LEMMA DueLater ==
    ASSUME NEW x, NEW y, NEW q, NEW t, Due(x, q, t), t \in x.timers => t \in y.timers
    PROVE  Due(y, q, t)
BY DEF Due

-----------------------------------------------------------------------------
(* The three ways in which a handler leaves the io thread. *)

\* Its run has ended.
LEMMA AwakeEnded ==
    ASSUME Base, Awake, NEW kind, Run(kind), io'.finished, DOMAIN io'.goals = {}, ~running
    PROVE  Awake'
<1>1. main' = main /\ running' = running
  BY RunFacts
<1> QED BY <1>1 DEF Awake, GoalsTimed, LinkWatched, CloseBounded, Phases

\* The connection is gone and the next one is due.
LEMMA AwakeLost ==
    ASSUME Base, Awake, NEW kind, Run(kind), running, ~io'.connected,
           ~io'.stopping, ~io'.finished,
           Reconnect \in io'.timers \/ Operation(io'.gen) \in io'.timers,
           \A t \in io'.timers : t.timer = "shutdown" => t \in io.timers,
           GoalsTimed'
    PROVE  Awake'
<1>1. main' = main /\ running' = running /\ main # "closed"
  BY RunFacts
<1>2. main # "closing"
  BY DEF Awake, Phases
<1>3. LinkWatched'
  BY DEF LinkWatched, Due
<1>4. ASSUME NEW t \in Timers, t.timer = "shutdown" PROVE ~Due(io', ready', t)
  <2>1. ~Due(io, ready, t)
    BY <1>4 DEF Awake, Phases
  <2>2. ~Due(io, ready', t)
    BY <2>1, DueTail
  <2> QED BY <1>4, <2>2 DEF Due
<1>5. Phases'
  BY <1>1, <1>4 DEF Awake, Phases
<1>6. CloseBounded'
  BY <1>1, <1>2 DEF CloseBounded
<1> QED BY <1>3, <1>5, <1>6 DEF Awake

\* Connection and shutdown are where they were, or the connection now counts.
LEMMA AwakeStays ==
    ASSUME Base, Awake, NEW kind, Run(kind), GoalsTimed',
           kind = "doConnect" => ~running, kind # "beginShutdown",
           io'.gen = io.gen, io'.stopping = io.stopping, io'.finished = io.finished,
           running =>
              \/ io'.connected /\ Reading(io', ready')
              \/ /\ io'.connected = io.connected
                 /\ io.connected =>
                       /\ io.ops \subseteq io'.ops
                       /\ ~(IsCurrent(io, Head(ready)) /\ Head(ready).op = "read")
                 /\ ~io.connected =>
                       \A t \in io.timers : t = Reconnect \/ t = Operation(io.gen) => t \in io'.timers
                 /\ kind = "timer" =>
                       Head(ready).timer # Reconnect /\ Head(ready).timer # Operation(io.gen),
           kind = "timer" => Head(ready).timer # ShutdownTimer,
           ShutdownTimer \in io.timers => ShutdownTimer \in io'.timers,
           \A t \in io'.timers : t.timer = "shutdown" => t \in io.timers
    PROVE  Awake'
<1>1. main' = main /\ running' = running /\ main # "closed" /\ ~io.finished
  BY RunFacts
<1>2. LinkWatched'
  <2> SUFFICES ASSUME running, ~(io'.connected /\ Reading(io', ready')),
                      main \in {"opening", "open"}
               PROVE  LinkWatched'
    BY <1>1 DEF LinkWatched, Awake, Phases
  <2>1. CASE io.connected
    <3>1. Reading(io, ready)
      BY <2>1 DEF Awake, LinkWatched
    <3>2. Reading(io, ready')
      BY <2>1, <3>1, DueTail
    <3>3. Reading(io', ready')
      BY <2>1, <3>2 DEF Reading, IsCurrent
    <3> QED BY <2>1, <3>3
  <2>2. CASE ~io.connected
    <3>1. \/ Posted(ready, "doConnect") \/ Due(io, ready, Reconnect)
          \/ Due(io, ready, Operation(io.gen))
      BY <2>2 DEF Awake, LinkWatched
    <3>2. \/ Posted(ready', "doConnect") \/ Due(io, ready', Reconnect)
          \/ Due(io, ready', Operation(io.gen))
      BY <2>2, <3>1, DueTail
    <3>3. \/ Posted(ready', "doConnect") \/ Due(io', ready', Reconnect)
          \/ Due(io', ready', Operation(io'.gen))
      BY <2>2, <3>2 DEF Due
    <3> QED BY <2>2, <3>3 DEF LinkWatched
  <2>3. io.connected \in BOOLEAN
    BY DEF Base, Types, IoOK
  <2> QED BY <2>1, <2>2, <2>3
<1>3. CloseBounded'
  <2> SUFFICES ASSUME main = "closing" PROVE CloseBounded'
    BY <1>1 DEF CloseBounded
  <2>1. Posted(ready, "beginShutdown") \/ (io.stopping /\ Due(io, ready, ShutdownTimer))
    BY <1>1 DEF Awake, CloseBounded
  <2>2. Posted(ready', "beginShutdown") \/ (io.stopping /\ Due(io, ready', ShutdownTimer))
    BY <2>1, DueTail
  <2>3. Posted(ready', "beginShutdown") \/ (io'.stopping /\ Due(io', ready', ShutdownTimer))
    BY <2>2 DEF Due
  <2> QED BY <2>3 DEF CloseBounded
<1>4. Phases'
  <2>1. ASSUME NEW t \in Timers, t.timer = "shutdown", running PROVE ~Due(io', ready', t)
    <3>1. ~Due(io, ready, t)
      BY <2>1 DEF Awake, Phases
    <3>2. ~Due(io, ready', t)
      BY <3>1, DueTail
    <3> QED BY <2>1, <3>2 DEF Due
  <2> QED BY <1>1, <2>1 DEF Awake, Phases
<1> QED BY <1>2, <1>3, <1>4 DEF Awake

\* A goal's timer is there, or it was due before and is not the handler that runs.
LEMMA GoalsTimedFrom ==
    ASSUME Base, Awake, NEW kind, Run(kind),
           \A id \in DOMAIN io'.goals :
              \/ GoalTimer(id) \in io'.timers
              \/ /\ id \in DOMAIN io.goals
                 /\ GoalTimer(id) \in io.timers => GoalTimer(id) \in io'.timers
                 /\ kind = "timer" => Head(ready).timer # GoalTimer(id)
    PROVE  GoalsTimed'
<1> SUFFICES ASSUME NEW id \in DOMAIN io'.goals PROVE Due(io', ready', GoalTimer(id))
  BY DEF GoalsTimed
<1>1. CASE GoalTimer(id) \in io'.timers
  BY <1>1 DEF Due
<1>2. CASE /\ id \in DOMAIN io.goals
           /\ GoalTimer(id) \in io.timers => GoalTimer(id) \in io'.timers
           /\ kind = "timer" => Head(ready).timer # GoalTimer(id)
  <2>1. Due(io, ready, GoalTimer(id))
    BY <1>2 DEF Awake, GoalsTimed
  <2>2. Due(io, ready', GoalTimer(id))
    BY <1>2, <2>1, DueTail
  <2> QED BY <1>2, <2>2 DEF Due
<1> QED BY <1>1, <1>2

-----------------------------------------------------------------------------
(* What the methods do to the timers. *)

\* y differs from x in its frames, a begun operation and initial at most.
Stays(x, y) ==
    /\ y.gen = x.gen /\ y.connected = x.connected /\ y.open = x.open
    /\ y.stopping = x.stopping /\ y.finished = x.finished
    /\ y.timers = x.timers /\ y.goals = x.goals /\ x.ops \subseteq y.ops

LEMMA StaysTrans == ASSUME NEW x, NEW y, NEW z, Stays(x, y), Stays(y, z) PROVE Stays(x, z)
BY DEF Stays

LEMMA StaysStartWrite == ASSUME NEW x, IoOK(x) PROVE Stays(x, StartWrite(x))
BY StartWriteOf DEF Stays, SameGoals, WriteBegun

LEMMA StaysQueue ==
    ASSUME NEW x, IoOK(x), x.open, NEW frame \in Frame, NEW mode \in Modes
    PROVE  LET y == QueueFrameOnIo(x, frame, mode) IN IoOK(y) /\ Stays(x, y)
<1> DEFINE z == WithFrame(x, frame, mode)
<1>1. IoOK(z) /\ QueueFrameOnIo(x, frame, mode) = StartWrite(z) /\ Stays(x, z)
  BY QueueFrameOf DEF Stays, SameGoals
<1> HIDE DEF z
<1>2. IoOK(StartWrite(z)) /\ Stays(z, StartWrite(z))
  BY <1>1, StartWriteOf, StaysStartWrite
<1> QED BY <1>1, <1>2, StaysTrans

LEMMA StaysIdle == ASSUME NEW x, IoOK(x) PROVE IoOK(Idle(x)) /\ Stays(x, Idle(x))
<1>1. Stays(x, Idle(x))
  BY DEF Idle, Stays, IoOK, Fields
<1> QED BY <1>1, IdleOf

LEMMA StaysReadOn ==
    ASSUME NEW x, IoOK(x)
    PROVE  Stays(x, ReadOn(x)) /\ (x.connected /\ ~x.stopping => "read" \in ReadOn(x).ops)
BY DEF ReadOn, Stays, IoOK, Fields

\* A failure of a running forwarder arms the reconnect timer; one of a forwarder that
\* is being closed ends its run.
LEMMA FailureTimers ==
    ASSUME NEW x, IoOK(x), ~x.finished, x.exit = "none"
    PROVE  LET y == HandleConnectionFailure(x) IN
           /\ ~running \/ x.stopping => y.finished
           /\ running /\ ~x.stopping =>
                 /\ ~y.finished /\ Reconnect \in y.timers
                 /\ y.timers \subseteq x.timers \cup {Reconnect}
<1> DEFINE d == DropConnection(x)
           f == FailPendingBehaviorGoals(d)
           l == NotifyInitialConnection(f, "failed")
           n == [l EXCEPT !.gen = @ + 1, !.timers = {t \in @ : t.timer # "operation"}]
           y == HandleConnectionFailure(x)
<1>1. IoOK(d) /\ d.timers = x.timers /\ d.finished = x.finished /\ d.stopping = x.stopping
  BY DropConnectionOf
<1>2. IoOK(f) /\ Quiet(d, f) /\ f.timers \subseteq d.timers
  BY <1>1, FailPendingOf
<1>3. IoOK(l) /\ Quiet(f, l) /\ l.timers = f.timers
  BY <1>2, NotifyOf
<1>4. y = IF ~running \/ x.stopping THEN FinishShutdown(n, "failure")
          ELSE [n EXCEPT !.timers = @ \cup {Reconnect}]
  BY DEF HandleConnectionFailure
<1> HIDE DEF d, f, l, y
<1>5. IoOK(n) /\ n.timers \subseteq l.timers /\ n.finished = l.finished
  BY <1>3 DEF IoOK, Fields
<1> HIDE DEF n
<1>6. ~n.finished /\ n.timers \subseteq x.timers
  BY <1>1, <1>2, <1>3, <1>5 DEF Quiet
<1>7. CASE ~running \/ x.stopping
  BY <1>4, <1>5, <1>6, <1>7, FinishShutdownOf DEF y
<1>8. CASE ~(~running \/ x.stopping)
  <2>1. y = [n EXCEPT !.timers = @ \cup {Reconnect}]
    BY <1>4, <1>8
  <2>2. y.timers = n.timers \cup {Reconnect} /\ y.finished = n.finished
    BY <1>5, <2>1 DEF IoOK, Fields
  <2> QED BY <1>6, <1>8, <2>2 DEF y
<1> QED BY <1>7, <1>8

\* A dial of a running forwarder is bounded by its own timer.
LEMMA DoConnectTimers ==
    ASSUME NEW x, IoOK(x)
    PROVE  LET y == DoConnect(x) IN
           /\ ~running \/ x.stopping => y = x
           /\ running /\ ~x.stopping =>
                 /\ y.gen = x.gen + 1 /\ ~y.connected /\ y.finished = x.finished
                 /\ y.stopping = x.stopping /\ y.goals = x.goals
                 /\ y.timers = {t \in x.timers : t.timer \notin {"operation", "reconnect"}}
                                  \cup {Operation(y.gen)}
<1> DEFINE d == DropConnection(x)
           y == DoConnect(x)
<1>1. CASE ~running \/ x.stopping
  BY <1>1 DEF DoConnect
<1>2. CASE ~(~running \/ x.stopping)
  <2> DEFINE ts == {t \in d.timers : t.timer \notin {"operation", "reconnect"}}
                      \cup {Operation(x.gen + 1)}
  <2>1. /\ IoOK(d) /\ SameGoals(x, d) /\ d.gen = x.gen /\ ~d.connected
        /\ d.stopping = x.stopping /\ d.finished = x.finished /\ d.timers = x.timers
    BY DropConnectionOf
  <2>2. y = [d EXCEPT !.gen = @ + 1, !.open = TRUE, !.ops = {"handshake"}, !.timers = ts]
    BY <1>2 DEF DoConnect
  <2> HIDE DEF d, y, ts
  <2>3. /\ y.gen = d.gen + 1 /\ y.connected = d.connected /\ y.finished = d.finished
        /\ y.stopping = d.stopping /\ y.goals = d.goals /\ y.timers = ts
    BY <2>1, <2>2 DEF IoOK, Fields
  <2> QED BY <1>2, <2>1, <2>3 DEF SameGoals, ts, y
<1> QED BY <1>1, <1>2

\* The connection that counts is read, and no longer timed.
LEMMA ConnectedTimers ==
    ASSUME NEW x, IoOK(x), x.open
    PROVE  LET y == Connected(x) IN
           /\ y.gen = x.gen /\ y.connected /\ y.stopping = x.stopping /\ y.finished = x.finished
           /\ y.goals = x.goals /\ "read" \in y.ops
           /\ y.timers = {t \in x.timers : t.timer # "operation"}
<1> DEFINE u == ConnectedFrom(x)
           s == QueueFrameOnIo(u, FrameOf("subscribe"), "append")
           b == QueueFrameOnIo(s, FrameOf("bootUp"), "append")
           n == NotifyInitialConnection(b, "connected")
           y == Connected(x)
<1>1. /\ IoOK(u) /\ u.open /\ u.connected /\ u.gen = x.gen /\ u.goals = x.goals
      /\ u.stopping = x.stopping /\ u.finished = x.finished
      /\ u.timers = {t \in x.timers : t.timer # "operation"}
  BY DEF ConnectedFrom, IoOK, Fields
<1>2. y = [n EXCEPT !.ops = @ \cup {"read"}]
  BY DEF Connected, ConnectedFrom
<1>3. FrameOf("subscribe") \in Frame /\ FrameOf("bootUp") \in Frame /\ "append" \in Modes
  BY FrameTypes DEF Modes
<1> HIDE DEF u, n, y
<1>4. IoOK(s) /\ Stays(u, s)
  BY <1>1, <1>3, StaysQueue
<1> HIDE DEF s
<1>5. IoOK(b) /\ Stays(s, b)
  BY <1>1, <1>3, <1>4, StaysQueue DEF Stays
<1> HIDE DEF b
<1>6. IoOK(n) /\ Quiet(b, n) /\ SameGoals(b, n) /\ n.timers = b.timers
  BY <1>5, NotifyOf DEF n
<1>7. /\ y.gen = n.gen /\ y.connected = n.connected /\ y.stopping = n.stopping
      /\ y.finished = n.finished /\ y.goals = n.goals /\ y.timers = n.timers
      /\ "read" \in y.ops
  BY <1>2, <1>6 DEF IoOK, Fields
<1> QED BY <1>1, <1>4, <1>5, <1>6, <1>7 DEF Stays, Quiet, SameGoals, y

\* A goal that is reported takes its timer with it, and nothing else.
LEMMA CompleteTimers ==
    ASSUME NEW x, NEW id, IoOK(x)
    PROVE  LET y == CompleteBehaviorGoal(x, id) IN
           /\ x.timers \ {GoalTimer(id)} \subseteq y.timers /\ y.timers \subseteq x.timers
           /\ DOMAIN y.goals = DOMAIN x.goals \ {id}
<1> DEFINE z == Answer(x, {x.goals[id]})
           y == CompleteBehaviorGoal(x, id)
<1>1. CASE id \notin DOMAIN x.goals
  BY <1>1 DEF CompleteBehaviorGoal
<1>2. CASE id \in DOMAIN x.goals
  <2>1. IoOK(z) /\ z.goals = x.goals /\ z.timers = x.timers
    BY AnswerOf
  <2>2. y = [z EXCEPT !.goals = [i \in DOMAIN @ \ {id} |-> @[i]], !.timers = @ \ {GoalTimer(id)}]
    BY <1>2 DEF CompleteBehaviorGoal
  <2> HIDE DEF z, y
  <2>3. y.goals = [i \in DOMAIN z.goals \ {id} |-> z.goals[i]]
        /\ y.timers = z.timers \ {GoalTimer(id)}
    BY <2>1, <2>2 DEF IoOK, Fields
  <2> QED BY <2>1, <2>3 DEF y
<1> QED BY <1>1, <1>2

LEMMA WithGoalTimers ==
    ASSUME NEW x, IoOK(x), NEW id, NEW req
    PROVE  LET y == WithGoal(x, id, req) IN
           /\ y.timers = x.timers \cup {GoalTimer(id)} /\ DOMAIN y.goals = DOMAIN x.goals \cup {id}
           /\ y.ops = x.ops
<1> DEFINE g == [i \in DOMAIN x.goals \cup {id} |-> IF i = id THEN req ELSE x.goals[i]]
           ts == x.timers \cup {GoalTimer(id)}
           y == WithGoal(x, id, req)
<1>1. y = [x EXCEPT !.goals = g, !.timers = ts]
  BY DEF WithGoal
<1>2. DOMAIN g = DOMAIN x.goals \cup {id}
  OBVIOUS
<1> HIDE DEF g, ts, y
<1>3. y.goals = g /\ y.timers = ts /\ y.ops = x.ops
  BY <1>1 DEF IoOK, Fields
<1> QED BY <1>2, <1>3 DEF ts, y

LEMMA HaltingFrameTimers ==
    ASSUME NEW x, IoOK(x)
    PROVE  LET y == StartWrite(HaltingFrame(x)) IN
           /\ y.stopping /\ y.finished = x.finished /\ y.goals = x.goals
           /\ y.timers = {t \in x.timers : t.timer \notin {"operation", "reconnect"}}
                            \cup {ShutdownTimer}
<1> DEFINE h == Halting(x)
           z == HaltingFrame(x)
<1>1. IoOK(h) /\ h.timers = {t \in x.timers : t.timer \notin {"operation", "reconnect"}}
  <2>1. h.timers = {t \in x.timers : t.timer \notin {"operation", "reconnect"}}
    BY DEF Halting, IoOK, Fields
  <2> QED BY <2>1, HaltingOf
<1>2. IoOK(z) /\ SameGoals(x, z) /\ z.stopping /\ z.finished = x.finished
  BY HaltingFrameOf
<1>3. z.timers = h.timers \cup {ShutdownTimer}
  <2>1. z = [h EXCEPT !.pending = <<FrameOf("zero")>>, !.timers = @ \cup {ShutdownTimer}]
    BY DEF HaltingFrame
  <2> HIDE DEF h, z
  <2> QED BY <1>1, <2>1 DEF IoOK, Fields
<1> HIDE DEF h, z
<1>4. Stays(z, StartWrite(z))
  BY <1>2, StaysStartWrite
<1> QED BY <1>1, <1>2, <1>3, <1>4 DEF Stays, SameGoals, z

-----------------------------------------------------------------------------
(* The handlers. *)

LEMMA FailureAwake ==
    ASSUME Base, Awake, NEW kind, Run(kind), io' = HandleConnectionFailure(io) PROVE Awake'
<1>1. IoOK(io) /\ ~io.finished /\ io.exit = "none"
  BY RunFacts
<1>2. Severed(io, io') /\ GoalsFailed(io, io') /\ io'.stopping = io.stopping
  BY <1>1, HandleConnectionFailureOf
<1>3. DOMAIN io'.goals = {} /\ ~io'.connected
  BY <1>2 DEF GoalsFailed, Severed
<1>4. CASE ~running
  <2>1. io'.finished
    BY <1>1, <1>4, FailureTimers
  <2> QED BY <1>3, <1>4, <2>1, AwakeEnded
<1>5. CASE running
  <2>1. ~io.stopping
    BY <1>5 DEF Awake, Phases
  <2>2. /\ ~io'.finished /\ Reconnect \in io'.timers
        /\ io'.timers \subseteq io.timers \cup {Reconnect}
    BY <1>1, <1>5, <2>1, FailureTimers
  <2>3. \A t \in io'.timers : t.timer = "shutdown" => t \in io.timers
    BY <2>2, TimerKinds
  <2>4. GoalsTimed'
    BY <1>3 DEF GoalsTimed
  <2> QED BY <1>2, <1>3, <1>5, <2>1, <2>2, <2>3, <2>4, AwakeLost
<1> QED BY <1>4, <1>5

LEMMA ConnectAwake ==
    ASSUME Base, Awake, NEW kind, Run(kind), io' = DoConnect(io), kind # "beginShutdown",
           kind = "timer" => Head(ready).timer.timer = "reconnect"
    PROVE  Awake'
<1>1. IoOK(io) /\ ~io.finished /\ io.gen \in Nat
  BY RunFacts DEF IoOK
<1>2. CASE ~running
  <2>1. io' = io
    BY <1>1, <1>2, DoConnectTimers
  <2>2. GoalsTimed'
    BY <2>1, TimerKinds, GoalsTimedFrom
  <2> QED BY <1>2, <2>1, <2>2, TimerKinds, AwakeStays
<1>3. CASE running
  <2>1. ~io.stopping
    BY <1>3 DEF Awake, Phases
  <2>2. /\ ~io'.connected /\ io'.finished = io.finished
        /\ io'.stopping = io.stopping /\ io'.goals = io.goals
        /\ io'.timers = {t \in io.timers : t.timer \notin {"operation", "reconnect"}}
                            \cup {Operation(io'.gen)}
    BY <1>1, <1>3, <2>1, DoConnectTimers
  <2>3. GoalsTimed'
    <3>1. \A id : GoalTimer(id) \in io.timers => GoalTimer(id) \in io'.timers
      BY <2>2, TimerKinds
    <3>2. \A id : kind = "timer" => Head(ready).timer # GoalTimer(id)
      BY TimerKinds
    <3> QED BY <2>2, <3>1, <3>2, GoalsTimedFrom
  <2>4. \A t \in io'.timers : t.timer = "shutdown" => t \in io.timers
    BY <2>2, TimerKinds
  <2> QED BY <1>1, <1>3, <2>1, <2>2, <2>3, <2>4, AwakeLost
<1> QED BY <1>2, <1>3

\* A handler that only queues frames or begins an operation.
LEMMA StaysAwake ==
    ASSUME Base, Awake, NEW kind, Run(kind), Stays(io, io'),
           kind \notin {"doConnect", "beginShutdown", "timer"},
           IsCurrent(io, Head(ready)) /\ Head(ready).op = "read"
              => (io'.connected /\ ~io'.stopping => "read" \in io'.ops) /\ io.connected
    PROVE  Awake'
<1>1. GoalsTimed'
  BY GoalsTimedFrom DEF Stays
<1>2. ASSUME running
      PROVE  \/ io'.connected /\ Reading(io', ready')
             \/ io'.connected = io.connected /\ io.ops \subseteq io'.ops
                /\ ~(IsCurrent(io, Head(ready)) /\ Head(ready).op = "read")
  <2>1. ~io.stopping
    BY <1>2 DEF Awake, Phases
  <2>2. CASE IsCurrent(io, Head(ready)) /\ Head(ready).op = "read"
    BY <2>1, <2>2 DEF Stays, Reading
  <2>3. CASE ~(IsCurrent(io, Head(ready)) /\ Head(ready).op = "read")
    BY <2>3 DEF Stays
  <2> QED BY <2>2, <2>3
<1>3. /\ io'.gen = io.gen /\ io'.stopping = io.stopping /\ io'.finished = io.finished
      /\ io'.timers = io.timers
  BY DEF Stays
<1> QED BY <1>1, <1>2, <1>3, AwakeStays

LEMMA RunStaleOpAwake == ASSUME Base, Awake, RunStaleOp PROVE Awake'
<1>1. Run("op") /\ Head(ready).gen # io.gen /\ io' = io
  BY DEF RunStaleOp
<1>2. Stays(io, io') /\ ~IsCurrent(io, Head(ready))
  BY <1>1 DEF Stays, IsCurrent
<1> QED BY <1>1, <1>2, StaysAwake

LEMMA RunDoConnectAwake == ASSUME Base, Awake, RunDoConnect PROVE Awake'
<1>1. Run("doConnect") /\ io' = DoConnect(io)
  BY DEF RunDoConnect
<1> QED BY <1>1, ConnectAwake

LEMMA RunHandshakeAwake == ASSUME Base, Awake, RunHandshake PROVE Awake'
<1>1. RunOp("handshake") /\ Run("op") /\ Head(ready).op = "handshake"
  BY DEF RunHandshake, RunOp
<1>2. IoOK(io)
  BY <1>1, RunFacts
<1>3. CASE io' = HandleConnectionFailure(io)
  BY <1>1, <1>3, FailureAwake
<1>4. CASE io' = [io EXCEPT !.ops = @ \cup {"stopWrite"}]
  <2>1. Stays(io, io')
    BY <1>2, <1>4 DEF IoOK, Fields, Stays
  <2> QED BY <1>1, <2>1, StaysAwake
<1> QED BY <1>3, <1>4 DEF RunHandshake

LEMMA RunConnectionStopWrittenAwake == ASSUME Base, Awake, RunConnectionStopWritten PROVE Awake'
<1>1. RunOp("stopWrite") /\ Run("op")
  BY DEF RunConnectionStopWritten, RunOp
<1>2. IoOK(io) /\ io.open
  BY <1>1, RunFacts, RunOpFacts
<1>3. CASE io' = HandleConnectionFailure(io)
  BY <1>1, <1>3, FailureAwake
<1>4. CASE io' = Connected(io)
  <2>1. /\ io'.gen = io.gen /\ io'.connected /\ io'.stopping = io.stopping
        /\ io'.finished = io.finished /\ io'.goals = io.goals /\ "read" \in io'.ops
        /\ io'.timers = {t \in io.timers : t.timer # "operation"}
    BY <1>2, <1>4, ConnectedTimers
  <2>2. GoalsTimed'
    <3>1. \A id : GoalTimer(id) \in io.timers => GoalTimer(id) \in io'.timers
      BY <2>1, TimerKinds
    <3> QED BY <1>1, <2>1, <3>1, GoalsTimedFrom
  <2>3. Reading(io', ready')
    BY <2>1 DEF Reading
  <2>4. /\ ShutdownTimer \in io.timers => ShutdownTimer \in io'.timers
        /\ \A t \in io'.timers : t.timer = "shutdown" => t \in io.timers
    BY <2>1, TimerKinds
  <2> QED BY <1>1, <2>1, <2>2, <2>3, <2>4, AwakeStays
<1> QED BY <1>3, <1>4 DEF RunConnectionStopWritten

LEMMA RunWrittenAwake == ASSUME Base, Awake, RunWritten PROVE Awake'
<1>1. RunOp("write") /\ Run("op") /\ Head(ready).op = "write"
  BY DEF RunWritten, RunOp
<1>2. IoOK(io) /\ ~io.finished
  BY <1>1, RunFacts
<1>3. IoOK(Idle(io)) /\ Stays(io, Idle(io)) /\ ~Idle(io).finished
  BY <1>2, StaysIdle, IdleOf
<1>4. \/ io' = HandleConnectionFailure(io)
      \/ io' = StartWrite(Idle(io))
      \/ io.stopping /\ io' = FinishShutdown(Idle(io), "written")
      \/ io' = Idle(io)
  BY DEF RunWritten, Idle
<1>5. CASE io' = HandleConnectionFailure(io)
  BY <1>1, <1>5, FailureAwake
<1>6. CASE io' = StartWrite(Idle(io)) \/ io' = Idle(io)
  <2>1. Stays(io, io')
    BY <1>3, <1>6, StaysStartWrite, StaysTrans
  <2> QED BY <1>1, <2>1, StaysAwake
<1>7. CASE io.stopping /\ io' = FinishShutdown(Idle(io), "written")
  <2>1. io'.finished /\ GoalsFailed(Idle(io), io')
    BY <1>3, <1>7, FinishShutdownOf
  <2>2. DOMAIN io'.goals = {} /\ ~running
    BY <1>7, <2>1 DEF GoalsFailed, Base, Control
  <2> QED BY <1>1, <2>1, <2>2, AwakeEnded
<1> QED BY <1>4, <1>5, <1>6, <1>7

LEMMA RunReadAwake == ASSUME Base, Awake, RunRead PROVE Awake'
<1>1. RunOp("read") /\ Run("op")
  BY DEF RunRead, RunOp
<1>2. IoOK(io) /\ io.open /\ io.connected
  BY <1>1, RunFacts, RunOpFacts
<1>3. CASE io' = HandleConnectionFailure(io)
  BY <1>1, <1>3, FailureAwake
<1>4. CASE io' = ReadOn(QueueFrameOnIo(io, FrameOf("pong"), "highPriority"))
  <2> DEFINE z == QueueFrameOnIo(io, FrameOf("pong"), "highPriority")
  <2>1. FrameOf("pong") \in Frame /\ "highPriority" \in Modes
    BY FrameTypes DEF Modes
  <2>2. IoOK(z) /\ Stays(io, z)
    BY <1>2, <2>1, StaysQueue
  <2>3. io' = ReadOn(z)
    BY <1>4
  <2> HIDE DEF z
  <2>4. Stays(z, io') /\ (z.connected /\ ~z.stopping => "read" \in io'.ops)
    BY <2>2, <2>3, StaysReadOn
  <2>5. Stays(io, io') /\ (io'.connected /\ ~io'.stopping => "read" \in io'.ops)
    BY <2>2, <2>4, StaysTrans DEF Stays
  <2> QED BY <1>1, <1>2, <2>5, StaysAwake
<1>5. CASE io' = ReadOn(CompleteBehaviorGoal(io, Head(ready).id))
  <2> DEFINE id == Head(ready).id
             z == CompleteBehaviorGoal(io, id)
  <2>1. /\ IoOK(z) /\ Quiet(io, z) /\ z.timers \subseteq io.timers
        /\ io.timers \ {GoalTimer(id)} \subseteq z.timers
        /\ DOMAIN z.goals = DOMAIN io.goals \ {id}
    BY <1>2, CompleteOf, CompleteTimers
  <2>2. io' = ReadOn(z)
    BY <1>5
  <2> HIDE DEF z, id
  <2>3. Stays(z, io') /\ (z.connected /\ ~z.stopping => "read" \in io'.ops)
    BY <2>1, <2>2, StaysReadOn
  <2>4. GoalsTimed'
    <3>1. \A i : i # id => GoalTimer(i) # GoalTimer(id)
      BY TimerKinds
    <3> QED BY <1>1, <2>1, <2>3, <3>1, GoalsTimedFrom DEF Stays
  <2>5. running => io'.connected /\ Reading(io', ready')
    <3>1. running => ~io.stopping
      BY DEF Awake, Phases
    <3> QED BY <1>2, <2>1, <2>3, <3>1 DEF Quiet, Stays, Reading
  <2>6. /\ io'.gen = io.gen /\ io'.stopping = io.stopping /\ io'.finished = io.finished
        /\ ShutdownTimer \in io.timers => ShutdownTimer \in io'.timers
        /\ \A t \in io'.timers : t.timer = "shutdown" => t \in io.timers
    <3>1. ShutdownTimer # GoalTimer(id)
      BY TimerKinds
    <3> QED BY <2>1, <2>3, <3>1 DEF Quiet, Stays
  <2> QED BY <1>1, <2>4, <2>5, <2>6, AwakeStays
<1> QED BY <1>3, <1>4, <1>5, RunReadCases

LEMMA RunVelocityAwake == ASSUME Base, Awake, RunVelocity PROVE Awake'
<1>1. Run("velocity")
  BY DEF RunVelocity
<1>2. IoOK(io) /\ Head(ready) \in Handler /\ Head(ready).run = "velocity"
      /\ Connection(io, ready', robot)
  BY <1>1, RunFacts
<1>3. ~IsCurrent(io, Head(ready))
  BY <1>2 DEF IsCurrent
<1>4. Stays(io, io')
  <2>1. CASE io' = io
    BY <2>1 DEF Stays
  <2>2. CASE /\ running /\ io.connected /\ ~io.stopping
             /\ io' = QueueFrameOnIo(io, Head(ready).frame, VelocityMode(Head(ready).frame))
    <3>1. Head(ready).frame \in Frame /\ VelocityMode(Head(ready).frame) \in Modes
      BY <1>2, HandlerFrame DEF VelocityMode, Modes
    <3>2. io.open
      BY <1>2, <2>2 DEF Connection, ConnectedOK
    <3> QED BY <1>2, <2>2, <3>1, <3>2, StaysQueue
  <2> QED BY <2>1, <2>2, RunVelocityCases
<1> QED BY <1>1, <1>3, <1>4, StaysAwake

LEMMA RunGoalAwake == ASSUME Base, Awake, RunGoal PROVE Awake'
<1>1. Run("goal")
  BY DEF RunGoal
<1>2. IoOK(io) /\ Head(ready) \in Handler /\ Head(ready).run = "goal" /\ ~io.finished
      /\ Connection(io, ready', robot)
  BY <1>1, RunFacts
<1>3. ~IsCurrent(io, Head(ready))
  BY <1>2 DEF IsCurrent
<1>4. CASE io' = Answer(io, {Head(ready).req})
  <2>1. Stays(io, io')
    BY <1>2, <1>4, AnswerOf DEF Stays, Quiet
  <2> QED BY <1>1, <1>3, <2>1, StaysAwake
<1>5. CASE /\ running /\ io.connected /\ ~io.stopping
           /\ io' = QueueFrameOnIo(WithGoal(io, Head(ready).id, Head(ready).req),
                                   GoalFrame(Head(ready).id), "append")
  <2> DEFINE h == Head(ready)
             z == WithGoal(io, h.id, h.req)
  <2>1. h.id \in Nat /\ h.req \in Nat /\ GoalFrame(h.id) \in Frame /\ "append" \in Modes
    BY <1>2, HandlerGoal DEF Modes
  <2>2. /\ IoOK(z) /\ Quiet(io, z) /\ z.timers = io.timers \cup {GoalTimer(h.id)}
        /\ DOMAIN z.goals = DOMAIN io.goals \cup {h.id} /\ z.ops = io.ops
    <3>1. IoOK(z) /\ Quiet(io, z)
      BY <1>2, <2>1, WithGoalOf
    <3>2. /\ z.timers = io.timers \cup {GoalTimer(h.id)}
          /\ DOMAIN z.goals = DOMAIN io.goals \cup {h.id} /\ z.ops = io.ops
      BY <1>2, WithGoalTimers
    <3> HIDE DEF z, h
    <3> QED BY <3>1, <3>2
  <2>3. io' = QueueFrameOnIo(z, GoalFrame(h.id), "append") /\ io.open
    BY <1>2, <1>5 DEF Connection, ConnectedOK
  <2> HIDE DEF z, h
  <2>4. Stays(z, io')
    BY <2>1, <2>2, <2>3, StaysQueue DEF Quiet
  <2>5. /\ io'.timers = io.timers \cup {GoalTimer(h.id)} /\ io.ops \subseteq io'.ops
        /\ DOMAIN io'.goals = DOMAIN io.goals \cup {h.id}
        /\ io'.gen = io.gen /\ io'.stopping = io.stopping /\ io'.finished = io.finished
        /\ io'.connected = io.connected
    BY <2>2, <2>4 DEF Stays, Quiet
  <2>6. GoalsTimed'
    BY <1>1, <2>5, GoalsTimedFrom
  <2>7. \A t \in io'.timers : t.timer = "shutdown" => t \in io.timers
    BY <2>5, TimerKinds
  <2> QED BY <1>1, <1>3, <1>5, <2>5, <2>6, <2>7, AwakeStays
<1> QED BY <1>4, <1>5, RunGoalCases

LEMMA RunBeginShutdownAwake == ASSUME Base, Awake, RunBeginShutdown PROVE Awake'
<1>1. Run("beginShutdown") /\ ~running
  BY RunBeginShutdownCases DEF RunBeginShutdown
<1>2. IoOK(io) /\ ~io.finished
  BY <1>1, RunFacts
<1>3. CASE io' = FinishShutdown(Halting(io), "notConnected")
  <2>1. IoOK(Halting(io)) /\ ~Halting(io).finished
    BY <1>2, HaltingOf
  <2>2. io'.finished /\ GoalsFailed(Halting(io), io')
    BY <1>3, <2>1, FinishShutdownOf
  <2> QED BY <1>1, <2>2, AwakeEnded DEF GoalsFailed
<1>4. CASE io' = StartWrite(HaltingFrame(io))
  <2>1. /\ io'.stopping /\ io'.finished = io.finished /\ io'.goals = io.goals
        /\ io'.timers = {t \in io.timers : t.timer \notin {"operation", "reconnect"}}
                           \cup {ShutdownTimer}
    BY <1>2, <1>4, HaltingFrameTimers
  <2>2. GoalsTimed'
    <3>1. \A id : GoalTimer(id) \in io.timers => GoalTimer(id) \in io'.timers
      BY <2>1, TimerKinds
    <3> QED BY <1>1, <2>1, <3>1, GoalsTimedFrom
  <2>3. main' = main /\ running' = running /\ main # "closed"
    BY <1>1, RunFacts
  <2>4. CloseBounded'
    BY <2>1 DEF CloseBounded, Due
  <2>5. LinkWatched' /\ Phases'
    BY <1>1, <1>2, <2>1, <2>3 DEF Awake, LinkWatched, Phases
  <2> QED BY <2>2, <2>4, <2>5 DEF Awake
<1> QED BY <1>3, <1>4, RunBeginShutdownCases

LEMMA RunTimerAwake == ASSUME Base, Awake, RunTimer PROVE Awake'
<1> DEFINE t == Head(ready).timer
<1>1. Run("timer")
  BY DEF RunTimer
<1>2. IoOK(io) /\ ~io.finished /\ Head(ready) \in Handler /\ Head(ready).run = "timer"
      /\ ready # <<>> /\ ready \in Seq(Handler)
  BY <1>1, RunFacts
<1>3. t \in Timers /\ t.timer \in {"operation", "reconnect", "shutdown", "goal"}
  BY <1>2 DEF Handler, Timers
<1>4. 1 \in DOMAIN ready /\ Head(ready) = ready[1]
  BY <1>2
<1>5. CASE t.timer = "operation"
  <2>1. CASE t.n = io.gen
    <3>1. io' = HandleConnectionFailure(io)
      BY <1>5, <2>1 DEF RunTimer
    <3> QED BY <1>1, <3>1, FailureAwake
  <2>2. CASE t.n # io.gen
    <3>1. io' = io
      BY <1>5, <2>2 DEF RunTimer
    <3>2. t # Reconnect /\ t # Operation(io.gen) /\ t # ShutdownTimer
          /\ \A id : t # GoalTimer(id)
      BY <1>5, <2>2, TimerKinds
    <3>3. GoalsTimed'
      BY <1>1, <3>1, <3>2, GoalsTimedFrom
    <3>4. ~IsCurrent(io, Head(ready))
      BY <1>2 DEF IsCurrent
    <3> HIDE DEF t
    <3>5. Head(ready).timer # Reconnect /\ Head(ready).timer # Operation(io.gen)
          /\ Head(ready).timer # ShutdownTimer
      BY <3>2 DEF t
    <3> QED BY <1>1, <3>1, <3>3, <3>4, <3>5, AwakeStays
  <2> QED BY <2>1, <2>2
<1>6. CASE t.timer = "reconnect"
  <2>1. io' = DoConnect(io)
    BY <1>6 DEF RunTimer
  <2> QED BY <1>1, <1>6, <2>1, ConnectAwake
<1>7. CASE t.timer = "shutdown"
  <2>1. io' = FinishShutdown(io, "timeout")
    BY <1>7 DEF RunTimer
  <2>2. io'.finished /\ GoalsFailed(io, io')
    BY <1>2, <2>1, FinishShutdownOf
  <2>3. ~running
    <3>1. Due(io, ready, t)
      BY <1>2, <1>4 DEF Due
    <3> QED BY <1>3, <1>7, <3>1 DEF Awake, Phases
  <2> QED BY <1>1, <2>2, <2>3, AwakeEnded DEF GoalsFailed
<1>8. CASE t.timer = "goal"
  <2> DEFINE id == t.n
  <2>1. io' = CompleteBehaviorGoal(io, id)
    BY <1>8 DEF RunTimer
  <2>2. /\ Quiet(io, io') /\ io'.timers \subseteq io.timers
        /\ io.timers \ {GoalTimer(id)} \subseteq io'.timers
        /\ DOMAIN io'.goals = DOMAIN io.goals \ {id}
    BY <1>2, <2>1, CompleteOf, CompleteTimers
  <2>3. \A i : t = GoalTimer(i) => i = id
    BY TimerKinds
  <2>4. t # Reconnect /\ t # Operation(io.gen) /\ t # ShutdownTimer
    BY <1>8, TimerKinds
  <2>5. \A i : i # id => GoalTimer(i) # GoalTimer(id)
    BY TimerKinds
  <2>6. ShutdownTimer # GoalTimer(id) /\ Reconnect # GoalTimer(id) /\ Operation(io.gen) # GoalTimer(id)
    BY TimerKinds
  <2> HIDE DEF id
  <2>7. GoalsTimed'
    BY <1>1, <2>2, <2>3, <2>5, GoalsTimedFrom
  <2>8. ~IsCurrent(io, Head(ready))
    BY <1>2 DEF IsCurrent
  <2>9. /\ io'.gen = io.gen /\ io'.stopping = io.stopping /\ io'.finished = io.finished
        /\ io'.connected = io.connected /\ io'.ops = io.ops
    BY <2>2 DEF Quiet
  <2>10. /\ ShutdownTimer \in io.timers => ShutdownTimer \in io'.timers
         /\ \A s \in io.timers : s = Reconnect \/ s = Operation(io.gen) => s \in io'.timers
         /\ \A s \in io'.timers : s.timer = "shutdown" => s \in io.timers
    BY <2>2, <2>6
  <2>11. Head(ready).timer # Reconnect /\ Head(ready).timer # Operation(io.gen)
         /\ Head(ready).timer # ShutdownTimer
    BY <2>4
  <2> HIDE DEF t
  <2> QED BY <1>1, <2>7, <2>8, <2>9, <2>10, <2>11, AwakeStays
<1> QED BY <1>3, <1>5, <1>6, <1>7, <1>8

LEMMA RunHandlerAwake == ASSUME Base, Awake, RunHandler PROVE Awake'
BY RunStaleOpAwake, RunDoConnectAwake, RunHandshakeAwake, RunConnectionStopWrittenAwake,
   RunWrittenAwake, RunReadAwake, RunVelocityAwake, RunGoalAwake, RunBeginShutdownAwake,
   RunTimerAwake DEF RunHandler

LEMMA EnvironmentAwake == ASSUME Base, Awake, Environment PROVE Awake'
<1>0. IoOK(io) /\ ready \in Seq(Handler)
  BY DEF Base, Types
<1>1. ASSUME NEW op \in Ops, NEW got \in {"ok", "error", "ping", "result"}, NEW id \in Nat,
             Completes(op, got, id)
      PROVE  Awake'
  <2> DEFINE h == [run |-> "op", op |-> op, gen |-> io.gen, got |-> got, id |-> id]
  <2>1. /\ io' = [io EXCEPT !.ops = @ \ {op}] /\ ready' = Append(ready, h)
        /\ main' = main /\ running' = running
    BY <1>1 DEF Completes, Post
  <2>2. h \in Handler /\ h.run = "op" /\ h.op = op /\ IsCurrent(io, h)
    BY <1>0 DEF Handler, IoOK, IsCurrent
  <2> HIDE DEF h
  <2>3. /\ io'.gen = io.gen /\ io'.connected = io.connected /\ io'.goals = io.goals
        /\ io'.stopping = io.stopping /\ io'.finished = io.finished
        /\ io'.timers = io.timers /\ io'.ops = io.ops \ {op}
    BY <1>0, <2>1 DEF IoOK, Fields
  <2>4. /\ \A t : Due(io, ready, t) => Due(io', ready', t)
        /\ \A t : Due(io', ready', t) => Due(io, ready, t)
        /\ \A k : Posted(ready, k) => Posted(ready', k)
    <3>1. /\ \A t : Due(io, ready, t) => Due(io, ready', t)
          /\ \A t : Due(io, ready', t) => Due(io, ready, t)
          /\ \A k : Posted(ready, k) => Posted(ready', k)
      BY <1>0, <2>1, <2>2, DueAppend
    <3> QED BY <2>3, <3>1 DEF Due
  <2>5. Reading(io, ready) => Reading(io', ready')
    <3>1. Reading(io, ready) => Reading(io, ready')
      BY <1>0, <2>1, <2>2, DueAppend
    <3>2. op = "read" => Reading(io', ready')
      <4>1. op = "read" => IsCurrent(io', h) /\ h.op = "read"
        BY <2>2, <2>3 DEF IsCurrent
      <4> QED BY <1>0, <2>1, <2>2, <4>1, DueAppend
    <3>3. op # "read" /\ Reading(io, ready') => Reading(io', ready')
      BY <2>3 DEF Reading, IsCurrent
    <3> QED BY <3>1, <3>2, <3>3
  <2> QED BY <2>1, <2>3, <2>4, <2>5 DEF Awake, GoalsTimed, LinkWatched, CloseBounded, Phases
<1>2. ASSUME NEW kind, SomeTimerExpires(kind) PROVE Awake'
  <2>1. PICK s \in io.timers : TimerExpires(s)
    BY <1>2 DEF SomeTimerExpires
  <2> DEFINE h == [run |-> "timer", timer |-> s]
  <2>2. /\ io' = [io EXCEPT !.timers = @ \ {s}] /\ ready' = Append(ready, h)
        /\ main' = main /\ running' = running
    BY <2>1 DEF TimerExpires, Post
  <2>3. h \in Handler /\ h.run = "timer" /\ h.timer = s
    BY <1>0 DEF Handler, IoOK
  <2> HIDE DEF h
  <2>4. /\ io'.gen = io.gen /\ io'.connected = io.connected /\ io'.goals = io.goals
        /\ io'.stopping = io.stopping /\ io'.finished = io.finished
        /\ io'.timers = io.timers \ {s} /\ io'.ops = io.ops
    BY <1>0, <2>2 DEF IoOK, Fields
  <2>5. /\ \A t : Due(io, ready, t) => Due(io, ready', t)
        /\ \A t : Due(io, ready', t) => Due(io, ready, t) \/ s = t
        /\ \A k : Posted(ready, k) => Posted(ready', k)
        /\ Reading(io, ready) => Reading(io, ready')
        /\ Due(io', ready', s)
    <3>1. Due(io', ready', s)
      BY <1>0, <2>2, <2>3, DueAppend
    <3> QED BY <1>0, <2>2, <2>3, <3>1, DueAppend
  <2>6. \A t : Due(io, ready, t) => Due(io', ready', t)
    <3>1. \A t : t # s /\ Due(io, ready', t) => Due(io', ready', t)
      BY <2>4 DEF Due
    <3> QED BY <2>5, <3>1
  <2>7. \A t : Due(io', ready', t) => Due(io, ready, t)
    <3>1. \A t : Due(io', ready', t) => Due(io, ready', t)
      BY <2>4 DEF Due
    <3>2. Due(io, ready, s)
      BY <2>1 DEF Due
    <3> QED BY <2>5, <3>1, <3>2
  <2>8. Reading(io, ready) => Reading(io', ready')
    BY <2>4, <2>5 DEF Reading, IsCurrent
  <2> QED BY <2>2, <2>4, <2>5, <2>6, <2>7, <2>8
          DEF Awake, GoalsTimed, LinkWatched, CloseBounded, Phases
<1>3. (\E kind : SomeTimerExpires(kind))
      \/ \E op \in Ops, got \in {"ok", "error", "ping", "result"}, id \in Nat :
            Completes(op, got, id)
  BY DEF Environment, HandshakeCompletes, WriteCompletes, ReadCompletes, Ops
<1> QED BY <1>1, <1>2, <1>3

\* A step of the main thread that leaves the io thread's record alone.
LEMMA PostAwake ==
    ASSUME Base, Awake, io' = io, main' = main, running' = running,
           NEW h \in Handler, h.run # "timer", ready' = Append(ready, h) \/ ready' = ready
    PROVE  Awake'
<1>1. /\ \A t : Due(io, ready', t) <=> Due(io, ready, t)
      /\ \A k : Posted(ready, k) => Posted(ready', k)
      /\ Reading(io, ready) => Reading(io, ready')
  <2>1. CASE ready' = Append(ready, h)
    BY <2>1, DueAppend DEF Base, Types
  <2>2. CASE ready' = ready
    BY <2>2
  <2> QED BY <2>1, <2>2
<1> QED BY <1>1 DEF Awake, GoalsTimed, LinkWatched, CloseBounded, Phases

LEMMA MainThreadAwake == ASSUME Base, Awake, MainThread PROVE Awake'
<1>0. IoOK(io) /\ ready \in Seq(Handler)
  BY DEF Base, Types
<1>1. CASE Start
  <2>1. /\ main = "closed" /\ main' = "opening" /\ running' = TRUE
        /\ io' = [io EXCEPT !.initial = "none", !.stopping = FALSE, !.finished = FALSE,
                            !.exit = "none"]
        /\ ready' = <<[run |-> "doConnect"]>>
    BY <1>1 DEF Start
  <2>2. /\ io'.goals = io.goals /\ io'.connected = io.connected /\ io'.timers = io.timers
        /\ io'.stopping = FALSE /\ io'.finished = FALSE
    BY <1>0, <2>1 DEF IoOK, Fields
  <2>3. DOMAIN io'.goals = {} /\ ~io'.connected /\ io'.timers = {}
    BY <2>1, <2>2 DEF Awake, Phases, Base, Control
  <2>4. /\ \E i \in DOMAIN ready' : ready'[i].run = "doConnect"
        /\ \A i \in DOMAIN ready' : ready'[i].run = "doConnect"
    <3>1. 1 \in DOMAIN ready' /\ \A i \in DOMAIN ready' : ready'[i] = [run |-> "doConnect"]
      BY <2>1
    <3> QED BY <3>1
  <2>5. Posted(ready', "doConnect") /\ \A t : ~Due(io', ready', t)
    BY <2>3, <2>4 DEF Posted, Due
  <2> QED BY <2>1, <2>2, <2>3, <2>5 DEF Awake, GoalsTimed, LinkWatched, CloseBounded, Phases
<1>2. CASE StartSucceeds
  <2>1. /\ main = "opening" /\ main' = "open" /\ running' = running /\ io' = io /\ ready' = ready
    BY <1>2 DEF StartSucceeds
  <2> QED BY <2>1 DEF Awake, GoalsTimed, LinkWatched, CloseBounded, Phases
<1>3. CASE Stop
  <2> DEFINE h == [run |-> "beginShutdown"]
  <2>1. /\ main \in {"opening", "open"} /\ main' = "closing" /\ running' = FALSE /\ io' = io
        /\ ready' = Append(ready, h)
    BY <1>3 DEF Stop, Post
  <2>2. h \in Handler /\ h.run = "beginShutdown"
    BY DEF Handler
  <2> HIDE DEF h
  <2>3. Posted(ready', "beginShutdown") /\ \A t : Due(io, ready, t) => Due(io, ready', t)
    BY <1>0, <2>1, <2>2, DueAppend
  <2> QED BY <2>1, <2>3 DEF Awake, GoalsTimed, LinkWatched, CloseBounded, Phases
<1>4. CASE StopJoins
  <2> DEFINE d == DropConnection(io)
  <2>1. /\ main = "closing" /\ io.finished /\ main' = "closed" /\ running' = running
        /\ io' = [d EXCEPT !.timers = {}]
    BY <1>4 DEF StopJoins
  <2>2. IoOK(d) /\ SameGoals(io, d)
    BY <1>0, DropConnectionOf
  <2> HIDE DEF d
  <2>3. io'.goals = io.goals
    BY <2>1, <2>2 DEF IoOK, Fields, SameGoals
  <2>4. DOMAIN io'.goals = {} /\ ~running
    BY <2>1, <2>3 DEF Awake, Phases
  <2> QED BY <2>1, <2>4 DEF Awake, GoalsTimed, LinkWatched, CloseBounded, Phases
<1>5. ASSUME NEW kind \in {"move", "stop"}, main' = main, running' = running,
             commands' = commands + 1, io' = io,
             \/ ready' = ready
             \/ ready' = Append(ready, [run |-> "velocity", frame |-> [kind |-> kind, n |-> commands']])
      PROVE  Awake'
  <2> DEFINE h == [run |-> "velocity", frame |-> [kind |-> kind, n |-> commands']]
  <2>1. h \in Handler /\ h.run # "timer"
    BY <1>5 DEF Handler, Base, Types
  <2>2. ready' = Append(ready, h) \/ ready' = ready
    BY <1>5
  <2> HIDE DEF h
  <2> QED BY <1>5, <2>1, <2>2, PostAwake
<1>6. ASSUME NEW repeated \in BOOLEAN, ForwardMove(repeated) PROVE Awake'
  <2>1. /\ commands' = commands + 1 /\ io' = io /\ main' = main /\ running' = running
        /\ \/ ready' = ready
           \/ ready' = Append(ready, [run |-> "velocity", frame |-> [kind |-> "move", n |-> commands']])
    BY <1>6 DEF ForwardMove, Post
  <2> QED BY <1>5, <2>1
<1>7. CASE ForwardStop
  <2>1. /\ commands' = commands + 1 /\ io' = io /\ main' = main /\ running' = running
        /\ \/ ready' = ready
           \/ ready' = Append(ready, [run |-> "velocity", frame |-> [kind |-> "stop", n |-> commands']])
    BY <1>7 DEF ForwardStop, Post
  <2> QED BY <1>5, <2>1
<1>8. CASE ForwardDogBehaviorGoal
  <2> DEFINE h == [run |-> "goal", id |-> goals', req |-> goals']
  <2>1. /\ goals' = goals + 1 /\ io' = io /\ main' = main /\ running' = running
        /\ ready' = Append(ready, h)
    BY <1>8 DEF ForwardDogBehaviorGoal, Post
  <2>2. h \in Handler /\ h.run # "timer"
    BY <2>1 DEF Handler, Base, Types
  <2> HIDE DEF h
  <2> QED BY <2>1, <2>2, PostAwake
<1> QED BY <1>1, <1>2, <1>3, <1>4, <1>6, <1>7, <1>8 DEF MainThread

LEMMA AwakeInvariant == Spec => [](Base /\ Awake)
<1>1. Init => Base /\ Awake
  <2> SUFFICES ASSUME Init PROVE Base /\ Awake
    OBVIOUS
  <2>1. main = "closed" /\ running = FALSE /\ DOMAIN io.goals = {}
    BY DEF Init, IoInit
  <2> QED BY <2>1, InitBase DEF Awake, GoalsTimed, LinkWatched, CloseBounded, Phases
<1>2. Base /\ Awake /\ [Next]_vars => (Base /\ Awake)'
  <2> SUFFICES ASSUME Base, Awake, [Next]_vars PROVE Base' /\ Awake'
    OBVIOUS
  <2>1. CASE UNCHANGED vars
    BY <2>1, NextBase
       DEF vars, Awake, GoalsTimed, LinkWatched, CloseBounded, Phases, Due, Posted, Reading, IsCurrent
  <2> QED BY <2>1, NextBase, MainThreadAwake, RunHandlerAwake, EnvironmentAwake DEF Next
<1> QED BY <1>1, <1>2, PTL DEF Spec

\* The io thread never waits for nothing, whatever failures, late handlers and
\* reconnects it has run meanwhile.  A goal that waits for its result has its timer,
\* so no goal waits for ever; an open forwarder is reading its connection or about
\* to dial, so no outage goes unseen; and a Close that joins the io thread has a
\* shutdown before it that is bounded by a timer.
THEOREM ForwarderStaysAwake == Spec => [](GoalsTimed /\ LinkWatched /\ CloseBounded)
<1>1. Base /\ Awake => GoalsTimed /\ LinkWatched /\ CloseBounded
  BY DEF Awake
<1> QED BY <1>1, AwakeInvariant, PTL

-----------------------------------------------------------------------------
(* Accepted goals. *)

\* An accepted goal that is no longer under way has been reported in that step, unless
\* the forwarder was closed over it.
GoalsAccounted ==
    [][\A r \in 1..MaxGoals : GoalUnderway(r) =>
          \/ GoalUnderway(r)'
          \/ io'.answers[r] = io.answers[r] + 1
          \/ main' = "closed"]_vars

LEMMA UnderwayKept ==
    ASSUME NEW r, GoalUnderway(r), io'.goals = io.goals,
           \A i \in DOMAIN ready : \E j \in DOMAIN ready' : ready'[j] = ready[i]
    PROVE  GoalUnderway(r)'
BY DEF GoalUnderway

LEMMA RunGoalAccounts ==
    ASSUME Base, Goals, RunGoal, NEW r \in 1..MaxGoals, GoalUnderway(r)
    PROVE  GoalUnderway(r)' \/ io'.answers[r] = io.answers[r] + 1
<1>1. Run("goal")
  BY DEF RunGoal
<1>2. IoOK(io) /\ Head(ready) \in Handler /\ Head(ready).run = "goal"
      /\ ready \in Seq(Handler) /\ ready # <<>> /\ ready' = Tail(ready)
  BY <1>1, RunFacts
<1> DEFINE h == Head(ready)
           z == WithGoal(io, h.id, h.req)
<1>3. /\ 1 \in DOMAIN ready /\ h = ready[1]
      /\ \A i \in DOMAIN ready : ready[i] = h \/ \E j \in DOMAIN ready' : ready'[j] = ready[i]
  BY <1>2, HeadOrTail
<1>4. h.id \in Nat /\ h.req \in Nat /\ GoalFrame(h.id) \in Frame /\ "append" \in Modes
      /\ h.id = h.req /\ h.id \notin DOMAIN io.goals
  BY <1>2, <1>3, HandlerGoal DEF Modes, Goals, IsGoal
<1>5. \/ h.req = r
      \/ \E j \in DOMAIN ready' : ready'[j].run = "goal" /\ ready'[j].req = r
      \/ \E id \in DOMAIN io.goals : io.goals[id] = r
  BY <1>3 DEF GoalUnderway
<1>6. CASE io' = Answer(io, {h.req})
  <2>1. io'.goals = io.goals /\ (h.req = r => io'.answers[r] = io.answers[r] + 1)
    BY <1>2, <1>6, AnswerOf
  <2> QED BY <1>5, <2>1 DEF GoalUnderway
<1>7. CASE io.connected /\ io' = QueueFrameOnIo(z, GoalFrame(h.id), "append")
  <2>1. IoOK(z) /\ Quiet(io, z) /\ Remembered(io, z, h.id, h.req)
    BY <1>2, <1>4, WithGoalOf
  <2>2. io.open
    BY <1>7 DEF Base, Connection, ConnectedOK
  <2> HIDE DEF z, h
  <2>3. io'.goals = z.goals
    BY <1>4, <1>7, <2>1, <2>2, StaysQueue DEF Stays, Quiet
  <2>4. /\ h.id \in DOMAIN io'.goals /\ io'.goals[h.id] = h.req
        /\ \A id \in DOMAIN io.goals : id \in DOMAIN io'.goals /\ io'.goals[id] = io.goals[id]
    BY <1>4, <2>1, <2>3 DEF Remembered
  <2> QED BY <1>5, <2>4 DEF GoalUnderway
<1> QED BY <1>6, <1>7, RunGoalCases

LEMMA RunOtherAccounts ==
    ASSUME Base, Goals, RunHandler, ~RunGoal, NEW r \in 1..MaxGoals, GoalUnderway(r)
    PROVE  GoalUnderway(r)' \/ io'.answers[r] = io.answers[r] + 1
<1>1. PICK kind : Run(kind) /\ kind # "goal"
  BY DEF RunHandler, RunStaleOp, RunDoConnect, RunHandshake, RunConnectionStopWritten,
         RunWritten, RunRead, RunVelocity, RunBeginShutdown, RunTimer, RunOp
<1>2. ready \in Seq(Handler) /\ ready # <<>> /\ ready' = Tail(ready) /\ Head(ready).run # "goal"
  BY <1>1, RunFacts
<1>3. \A i \in DOMAIN ready : ready[i] = Head(ready) \/ \E j \in DOMAIN ready' : ready'[j] = ready[i]
  BY <1>2, HeadOrTail
<1>4. CASE \E i \in DOMAIN ready : ready[i].run = "goal" /\ ready[i].req = r
  BY <1>2, <1>3, <1>4 DEF GoalUnderway
<1>5. CASE \E id \in DOMAIN io.goals : io.goals[id] = r
  <2>1. Settled(io, io')
    BY RunOtherSettled
  <2> QED BY <1>5, <2>1 DEF Settled, GoalUnderway
<1> QED BY <1>4, <1>5 DEF GoalUnderway

LEMMA EnvironmentAccounts ==
    ASSUME Base, Environment, NEW r, GoalUnderway(r) PROVE GoalUnderway(r)'
<1>1. io'.goals = io.goals
  <2>1. IoOK(io)
    BY DEF Base, Types
  <2>2. \/ \E op : io' = [io EXCEPT !.ops = @ \ {op}]
        \/ \E t : io' = [io EXCEPT !.timers = @ \ {t}]
    BY DEF Environment, HandshakeCompletes, WriteCompletes, ReadCompletes, Completes,
           SomeTimerExpires, TimerExpires
  <2> QED BY <2>1, <2>2 DEF IoOK, Fields
<1>2. \E h : ready' = Append(ready, h)
  BY DEF Environment, HandshakeCompletes, WriteCompletes, ReadCompletes, Completes,
         SomeTimerExpires, TimerExpires, Post
<1>3. ready \in Seq(Handler)
  BY DEF Base, Types
<1>4. \A i \in DOMAIN ready : \E j \in DOMAIN ready' : ready'[j] = ready[i]
  BY <1>2, <1>3
<1> QED BY <1>1, <1>4, UnderwayKept

LEMMA MainThreadAccounts ==
    ASSUME Base, Awake, MainThread, NEW r, GoalUnderway(r)
    PROVE  GoalUnderway(r)' \/ main' = "closed"
<1>0. ready \in Seq(Handler)
  BY DEF Base, Types
<1>1. CASE Start
  <2>1. ready = <<>> /\ DOMAIN io.goals = {}
    BY <1>1 DEF Start, Base, Control, Awake, Phases
  <2> QED BY <2>1 DEF GoalUnderway
<1>2. CASE StopJoins
  BY <1>2 DEF StopJoins
<1>3. CASE ~Start /\ ~StopJoins
  <2>1. io' = io
    BY <1>3 DEF MainThread, StartSucceeds, Stop, ForwardMove, ForwardStop, ForwardDogBehaviorGoal
  <2>2. ready' = ready \/ \E h : ready' = Append(ready, h)
    BY <1>3 DEF MainThread, StartSucceeds, Stop, ForwardMove, ForwardStop, ForwardDogBehaviorGoal,
                Post
  <2>3. \A i \in DOMAIN ready : \E j \in DOMAIN ready' : ready'[j] = ready[i]
    BY <1>0, <2>2
  <2> QED BY <2>1, <2>3, UnderwayKept
<1> QED BY <1>1, <1>2, <1>3

\* No accepted goal is dropped silently: it leaves the queue and the map of pending
\* goals only with its report, by a result, its timer, a refusal, a failure of the
\* connection or a shutdown, or when the io thread is joined over it.
THEOREM GoalsAreAccounted == Spec => GoalsAccounted
<1>1. ASSUME Base, Goals, Awake, Next, NEW r \in 1..MaxGoals, GoalUnderway(r)
      PROVE  \/ GoalUnderway(r)'
             \/ io'.answers[r] = io.answers[r] + 1
             \/ main' = "closed"
  <2>1. CASE MainThread
    BY <1>1, <2>1, MainThreadAccounts
  <2>2. CASE RunHandler
    BY <1>1, <2>2, RunGoalAccounts, RunOtherAccounts
  <2>3. CASE Environment
    BY <1>1, <2>3, EnvironmentAccounts
  <2> QED BY <1>1, <2>1, <2>2, <2>3 DEF Next
<1>2. Base /\ Goals /\ Awake /\ [Next]_vars =>
         [\A r \in 1..MaxGoals : GoalUnderway(r) =>
             \/ GoalUnderway(r)'
             \/ io'.answers[r] = io.answers[r] + 1
             \/ main' = "closed"]_vars
  BY <1>1
<1> QED BY <1>2, GoalsInvariant, AwakeInvariant, PTL DEF Spec, GoalsAccounted
=============================================================================
