--------------------------- MODULE JetsonSession ---------------------------
(***************************************************************************)
(* One hardware session of the Jetson encoder (vtsrtc/src/video/encode/     *)
(* nvidia-jetson/jetson_encoder.cpp): the encoder thread, which fills input *)
(* buffers and lowers the resolution in place (Reconfigure), and the thread *)
(* of the capture plane, which hands out what the hardware has coded.       *)
(*                                                                          *)
(* A buffer of the output plane goes from available_output_buffers_ to the  *)
(* encoder thread, with its task to the device, and comes back when the     *)
(* capture thread reclaims it.  Frames are numbered by task_timestamp_us.   *)
(*                                                                          *)
(* External: the V4L2 device, and the owner that calls EmplaceBuffer,       *)
(* Reconfigure and the destructor from one thread (module JetsonLifecycle). *)
(***************************************************************************)
EXTENDS Integers, Sequences

CONSTANTS
    BUFFER_NUM,     \* buffers of the output plane
    JetSizes,       \* resolutions, by rank; the session is made for the highest
    MaxInputs       \* bound: frames given to EmplaceBuffer

ASSUME JetsonSessionConstants ==
    /\ BUFFER_NUM \in Nat \ {0}
    /\ JetSizes \in Nat \ {0}
    /\ MaxInputs \in Nat

VARIABLES
    enc,        \* the encoder thread: where it is, its target size, its frame
    jsize,      \* width_ and height_
    stamp,      \* next_task_timestamp_us_
    avail,      \* size of available_output_buffers_
    tasks,      \* capturing_tasks_
    forceNext,  \* force_idr_before_next_frame_
    ready,      \* reconfigure_ready_
    awaiting,   \* awaiting_resolution_idr_
    deadline,   \* resolution_deadline_ms_: "none", "armed", "passed"
    aborted,    \* abort_
    halting,    \* stopping_
    dq,         \* the capture thread and its frame
    inq,        \* device: input queued
    coded,      \* device: capture buffers to be dequeued
    spent,      \* device: input buffers to be dequeued
    drc,        \* device: its next frame is the first of a resolution
    shown       \* history: the last frame given to a callback

jetVars == <<enc, jsize, stamp, avail, tasks, forceNext, ready, awaiting, deadline,
             aborted, halting, dq, inq, coded, spent, drc, shown>>
jetDevice == <<inq, coded, spent, drc>>
jetFlags == <<ready, awaiting, deadline, aborted, halting>>

EncAt(p) == enc' = [enc EXCEPT !.at = p]
NoCoded == [ts |-> 0, size |-> 0, idr |-> FALSE, sps |-> FALSE]
DqIdle == [at |-> "idle", f |-> NoCoded, await |-> FALSE, deliver |-> FALSE, owe |-> 0]

JetInit ==
    /\ enc = [at |-> "new", target |-> 0, ts |-> 0]
    /\ jsize = JetSizes
    /\ stamp = 1
    /\ avail = 0
    /\ tasks = <<>>
    /\ forceNext = FALSE
    /\ ready = FALSE /\ awaiting = FALSE /\ deadline = "none"
    /\ aborted = TRUE /\ halting = TRUE
    /\ dq = [DqIdle EXCEPT !.at = "none"]
    /\ inq = <<>> /\ coded = <<>> /\ spent = 0 /\ drc = TRUE
    /\ shown = NoCoded

----------------------------------------------------------------------------
(* Making the session. *)

\* CreateVideoEncoder: formats and planes; a session that fails is destroyed.
JetCreates ==
    /\ enc.at = "new"
    /\ EncAt("create") \/ EncAt("gone")
    /\ UNCHANGED <<jsize, stamp, avail, tasks, forceNext, jetFlags, dq, jetDevice, shown>>

\* ApplyCodecSettings.
JetSettings ==
    /\ enc.at = "create"
    /\ EncAt("start") \/ EncAt("gone")
    /\ UNCHANGED <<jsize, stamp, avail, tasks, forceNext, jetFlags, dq, jetDevice, shown>>

\* Every buffer of the output plane is free.
ResetAvailableOutputBuffers == avail' = BUFFER_NUM

\* Start: both planes stream and the capture thread runs.
JetStarts ==
    /\ enc.at = "start"
    /\ \/ EncAt("prepare") /\ dq' = DqIdle
       \/ EncAt("gone") /\ UNCHANGED dq
    /\ UNCHANGED <<jsize, stamp, avail, tasks, forceNext, jetFlags, jetDevice, shown>>

\* PrepareCaptureBuffer gives the device its capture buffers; if that fails
\* the thread is stopped.
PrepareCaptureBuffer ==
    /\ enc.at = "prepare"
    /\ \/ /\ EncAt("idle")
          /\ ResetAvailableOutputBuffers
          /\ halting' = FALSE /\ aborted' = FALSE
          /\ UNCHANGED dq
       \/ /\ EncAt("gone")
          /\ dq' = [dq EXCEPT !.at = "none"]
          /\ UNCHANGED <<avail, aborted, halting>>
    /\ UNCHANGED <<jsize, stamp, tasks, forceNext, ready, awaiting, deadline, jetDevice, shown>>

----------------------------------------------------------------------------
(* EmplaceBuffer. *)

Healthy == ~aborted /\ ~halting /\ deadline # "passed"

\* The frame gets its number before a buffer is looked for.
JetEmplace ==
    /\ enc.at = "idle" /\ Healthy /\ stamp =< MaxInputs
    /\ stamp' = stamp + 1
    /\ IF avail = 0
       THEN UNCHANGED <<enc, avail>>
       ELSE avail' = avail - 1 /\ enc' = [enc EXCEPT !.at = "fill", !.ts = stamp]
    /\ UNCHANGED <<jsize, tasks, forceNext, jetFlags, dq, jetDevice, shown>>

\* A frame whose planes do not fit the buffer's cannot be converted, and gives
\* the buffer back.
ConvertI420ToYUV420M ==
    /\ enc.at = "fill"
    /\ \/ EncAt("task") /\ UNCHANGED avail
       \/ EncAt("idle") /\ avail' = avail + 1
    /\ UNCHANGED <<jsize, stamp, tasks, forceNext, jetFlags, dq, jetDevice, shown>>

\* Then the task.
JetFill ==
    /\ enc.at = "task"
    /\ tasks' = Append(tasks, enc.ts)
    /\ EncAt("queue")
    /\ UNCHANGED <<jsize, stamp, avail, forceNext, jetFlags, dq, jetDevice, shown>>

\* The pending IDR request goes to the device first; a qBuffer that fails takes
\* the task and the buffer back.
JetQueue ==
    /\ enc.at = "queue"
    /\ forceNext' = FALSE
    /\ \/ /\ inq' = Append(inq, [ts |-> enc.ts, size |-> jsize, forced |-> forceNext])
          /\ UNCHANGED <<avail, tasks>>
       \/ /\ avail' = avail + 1
          /\ tasks' = IF tasks = <<>> THEN tasks ELSE SubSeq(tasks, 1, Len(tasks) - 1)
          /\ UNCHANGED inq
    /\ EncAt("idle")
    /\ UNCHANGED <<jsize, stamp, jetFlags, dq, coded, spent, drc, shown>>

----------------------------------------------------------------------------
(* Reconfigure: down to a smaller size, in the running session. *)

JetUnhealthy ==
    /\ ready' = FALSE
    /\ aborted' = TRUE
    /\ EncAt("failed")

\* CanReconfigure reads reconfigure_ready_, then awaiting_resolution_idr_.
JetReconfigure(s) ==
    /\ enc.at = "idle" /\ Healthy /\ s < jsize
    /\ enc' = [enc EXCEPT !.at = IF ready THEN "can" ELSE "failed", !.target = s]
    /\ UNCHANGED <<jsize, stamp, avail, tasks, forceNext, jetFlags, dq, jetDevice, shown>>

CanReconfigure ==
    /\ enc.at = "can"
    /\ EncAt(IF awaiting THEN "failed" ELSE "drain")
    /\ UNCHANGED <<jsize, stamp, avail, tasks, forceNext, jetFlags, dq, jetDevice, shown>>

\* DrainOutputPlane and WaitForPendingTasks wait for 250 ms each.
DrainOutputPlane ==
    /\ enc.at = "drain"
    /\ (avail = BUFFER_NUM /\ EncAt("tasks")) \/ EncAt("failed")
    /\ UNCHANGED <<jsize, stamp, avail, tasks, forceNext, jetFlags, dq, jetDevice, shown>>

WaitForPendingTasks ==
    /\ enc.at = "tasks"
    /\ (tasks = <<>> /\ EncAt("setup")) \/ EncAt("failed")
    /\ UNCHANGED <<jsize, stamp, avail, tasks, forceNext, jetFlags, dq, jetDevice, shown>>

\* Stream off, the new format, new buffers; from the stream off on a failure
\* leaves the session unusable.
JetSetup ==
    /\ enc.at = "setup"
    /\ \/ EncAt("failed") /\ UNCHANGED <<avail, inq, spent, ready, aborted>>
       \/ JetUnhealthy /\ inq' = <<>> /\ spent' = 0 /\ UNCHANGED avail
       \/ /\ ResetAvailableOutputBuffers
          /\ inq' = <<>> /\ spent' = 0
          /\ EncAt("ready")
          /\ UNCHANGED <<ready, aborted>>
    /\ UNCHANGED <<jsize, stamp, tasks, forceNext, awaiting, deadline, halting, dq,
                   coded, drc, shown>>

\* The stores that follow, one after the other, with the capture thread running.
JetPends ==
    /\ \/ /\ enc.at = "ready" /\ EncAt("await") /\ ready' = FALSE
          /\ UNCHANGED <<awaiting, deadline, forceNext>>
       \/ /\ enc.at = "await" /\ EncAt("deadline") /\ awaiting' = TRUE
          /\ UNCHANGED <<ready, deadline, forceNext>>
       \/ /\ enc.at = "deadline" /\ EncAt("force") /\ deadline' = "armed"
          /\ UNCHANGED <<ready, awaiting, forceNext>>
       \/ /\ enc.at = "force" /\ EncAt("on") /\ forceNext' = TRUE
          /\ UNCHANGED <<ready, awaiting, deadline>>
    /\ UNCHANGED <<jsize, stamp, avail, tasks, aborted, halting, dq, jetDevice, shown>>

JetStreamsOn ==
    /\ enc.at = "on"
    /\ \/ JetUnhealthy /\ UNCHANGED <<jsize, drc>>
       \/ /\ jsize' = enc.target
          /\ drc' = TRUE
          /\ EncAt("idle")
          /\ UNCHANGED <<ready, aborted>>
    /\ UNCHANGED <<stamp, avail, tasks, forceNext, awaiting, deadline, halting, dq,
                   inq, coded, spent, shown>>

\* Two seconds have passed since a Reconfigure.
DeadlinePasses ==
    /\ deadline = "armed" /\ enc.at = "idle"
    /\ deadline' = "passed"
    /\ UNCHANGED <<enc, jsize, stamp, avail, tasks, forceNext, ready, awaiting, aborted,
                   halting, dq, jetDevice, shown>>

----------------------------------------------------------------------------
(* The device (external). *)

DeviceTook == inq # <<>> /\ inq' = Tail(inq) /\ spent' = spent + 1 /\ drc' = FALSE

Coded(idr) ==
    [ts |-> Head(inq).ts, size |-> Head(inq).size, idr |-> idr, sps |-> idr \/ drc]

\* An IDR when asked for, or when it is due; the first image of a resolution
\* carries an SPS and may not be an IDR all the same, or be followed by one.
DeviceCodes ==
    /\ DeviceTook
    /\ \/ coded' = Append(coded, Coded(TRUE))
       \/ (drc \/ ~Head(inq).forced) /\ coded' = Append(coded, Coded(FALSE))
       \/ drc /\ coded' = coded \o <<Coded(FALSE), Coded(TRUE)>>
    /\ UNCHANGED <<enc, jsize, stamp, avail, tasks, forceNext, jetFlags, dq, shown>>

\* An input may give no image at all.
DeviceSkips ==
    /\ DeviceTook
    /\ UNCHANGED <<enc, jsize, stamp, avail, tasks, forceNext, jetFlags, dq, coded, shown>>

----------------------------------------------------------------------------
(* EncoderCapturePlaneDqCallback. *)

DqEnds == dq' = [dq EXCEPT !.at = "ended"]

\* dqBuffer fails: the session aborts unless it is being stopped.
DqFails ==
    /\ dq.at = "idle"
    /\ DqEnds
    /\ aborted' = TRUE
    /\ UNCHANGED <<enc, jsize, stamp, avail, tasks, forceNext, ready, awaiting, deadline,
                   halting, jetDevice, shown>>

Deliverable(f) == ~awaiting \/ (f.idr /\ f.sps)

DqTakes ==
    /\ dq.at = "idle" /\ coded # <<>>
    /\ coded' = Tail(coded)
    /\ IF halting THEN DqEnds
       ELSE dq' = [at |-> "match", f |-> Head(coded), await |-> awaiting,
                   deliver |-> Deliverable(Head(coded)), owe |-> 0]
    /\ UNCHANGED <<enc, jsize, stamp, avail, tasks, forceNext, jetFlags, inq, spent, drc, shown>>

\* Mutant: the buffers of older tasks are not reclaimed.
MatchForgets(i) ==
    /\ tasks' = SubSeq(tasks, i + (IF dq.deliver THEN 1 ELSE 0), Len(tasks))
    /\ dq' = [dq EXCEPT !.at = "reclaim", !.owe = IF dq.deliver THEN 1 ELSE 0]

\* Mutant: the task of an image that is delivered stays.
MatchKeeps(i) ==
    /\ tasks' = SubSeq(tasks, i, Len(tasks))
    /\ dq' = [dq EXCEPT !.at = "reclaim", !.owe = i - 1]

\* The task of the image is the i-th: the ones before it are given up; its own
\* stays unless the image is delivered.  Buffers are owed for all that go.
MatchTask(i) ==
    LET gone == IF dq.deliver THEN i ELSE i - 1
    IN  /\ tasks' = SubSeq(tasks, gone + 1, Len(tasks))
        /\ dq' = [dq EXCEPT !.at = "reclaim", !.owe = gone]

\* Under tasks_mutex_; an image without a task only goes back to the device.
DqMatches ==
    /\ dq.at = "match"
    /\ IF \E i \in DOMAIN tasks : tasks[i] = dq.f.ts
       THEN /\ MatchTask(CHOOSE i \in DOMAIN tasks : tasks[i] = dq.f.ts)
            /\ forceNext' = (forceNext \/ ~dq.deliver)
       ELSE /\ dq' = IF halting THEN [dq EXCEPT !.at = "ended"] ELSE DqIdle
            /\ UNCHANGED <<tasks, forceNext>>
    /\ UNCHANGED <<enc, jsize, stamp, avail, jetFlags, jetDevice, shown>>

\* The capture buffer cannot be queued again, or a buffer is not given back.
DqAborts ==
    /\ dq.at \in {"match", "reclaim"}
    /\ DqEnds
    /\ tasks' = IF dq.at = "match" /\ \E i \in DOMAIN tasks : tasks[i] = dq.f.ts
                THEN SelectSeq(tasks, LAMBDA t : t > dq.f.ts \/ (~dq.deliver /\ t = dq.f.ts))
                ELSE tasks
    /\ aborted' = TRUE
    /\ UNCHANGED <<enc, jsize, stamp, avail, forceNext, ready, awaiting, deadline, halting,
                   jetDevice, shown>>

\* ReclaimOutputBuffer, for each task that went; it waits for the device.
ReclaimOutputBuffer ==
    /\ dq.at = "reclaim"
    /\ IF dq.owe > 0
       THEN /\ spent > 0
            /\ spent' = spent - 1
            /\ avail' = avail + 1
            /\ dq' = [dq EXCEPT !.owe = @ - 1]
       ELSE /\ dq' = IF ~dq.deliver THEN DqIdle
                     ELSE [dq EXCEPT !.at = IF dq.await THEN "arrived" ELSE "confirm"]
            /\ UNCHANGED <<spent, avail>>
    /\ UNCHANGED <<enc, jsize, stamp, tasks, forceNext, jetFlags, inq, coded, drc, shown>>

\* The stores that end a switch, one after the other, and the callback.
DqConfirms ==
    /\ \/ /\ dq.at = "arrived" /\ dq' = [dq EXCEPT !.at = "relax"] /\ awaiting' = FALSE
          /\ UNCHANGED <<deadline, ready>>
       \/ /\ dq.at = "relax" /\ dq' = [dq EXCEPT !.at = "confirm"] /\ deadline' = "none"
          /\ UNCHANGED <<awaiting, ready>>
       \/ /\ dq.at = "confirm" /\ dq' = [dq EXCEPT !.at = "call"] /\ ready' = TRUE
          /\ UNCHANGED <<awaiting, deadline>>
    /\ UNCHANGED <<enc, jsize, stamp, avail, tasks, forceNext, aborted, halting, jetDevice, shown>>

DqCalls ==
    /\ dq.at = "call"
    /\ shown' = dq.f
    /\ dq' = DqIdle
    /\ UNCHANGED <<enc, jsize, stamp, avail, tasks, forceNext, jetFlags, jetDevice>>

----------------------------------------------------------------------------
(* The end of the session: the owner drops it, after a failure or not. *)

\* No replacement could be made for a session that refused to reconfigure: it
\* stays in use at its old size.
JetKept ==
    /\ enc.at = "failed" /\ ~aborted
    /\ EncAt("idle")
    /\ UNCHANGED <<jsize, stamp, avail, tasks, forceNext, jetFlags, dq, jetDevice, shown>>

\* StopEncoderIo: both planes stop, which ends a blocking dqBuffer.
JetStops ==
    /\ enc.at \in {"idle", "failed"}
    /\ aborted' = TRUE /\ halting' = TRUE
    /\ inq' = <<>> /\ coded' = <<>> /\ spent' = 0
    /\ EncAt("join")
    /\ UNCHANGED <<jsize, stamp, avail, tasks, forceNext, ready, awaiting, deadline, dq, drc, shown>>

JetDestroyed ==
    /\ enc.at = "join" /\ dq.at = "ended"
    /\ tasks' = <<>>
    /\ EncAt("gone")
    /\ UNCHANGED <<jsize, stamp, avail, forceNext, jetFlags, dq, jetDevice, shown>>

----------------------------------------------------------------------------

JetOwner ==
    \/ JetCreates \/ JetSettings \/ JetStarts \/ PrepareCaptureBuffer
    \/ JetEmplace \/ ConvertI420ToYUV420M \/ JetFill \/ JetQueue
    \/ \E s \in 1 .. JetSizes : JetReconfigure(s)
    \/ CanReconfigure \/ DrainOutputPlane \/ WaitForPendingTasks
    \/ JetSetup \/ JetPends \/ JetStreamsOn
    \/ JetKept \/ JetStops \/ JetDestroyed

JetCapture ==
    \/ DqFails \/ DqTakes \/ DqMatches \/ DqAborts
    \/ ReclaimOutputBuffer \/ DqConfirms \/ DqCalls

JetNext == JetOwner \/ JetCapture \/ DeviceCodes \/ DeviceSkips \/ DeadlinePasses

JetSpec == JetInit /\ [][JetNext]_jetVars

----------------------------------------------------------------------------

\* Input buffers are neither lost nor made while a session is sound, whatever
\* the hardware skips, codes twice or holds back: each is free, with the
\* encoder thread, behind a task or owed to the capture thread.  A buffer lost
\* per dropped frame would freeze the video after BUFFER_NUM of them, and keep
\* Reconfigure from ever draining the plane.
BuffersAccounted ==
    ~aborted /\ ~halting =>
       avail + Len(tasks) + dq.owe + (IF enc.at \in {"fill", "task"} THEN 1 ELSE 0) = BUFFER_NUM

\* Frames come out once each and in the order they went in, and the first one
\* of a new resolution is an IDR that carries its SPS, so a decoder never gets
\* an image it cannot show.
SwitchesDecodable ==
    [][shown' # shown =>
         /\ shown'.ts > shown.ts
         /\ shown.ts > 0 /\ shown'.size # shown.size => shown'.idr /\ shown'.sps]_jetVars
=============================================================================
