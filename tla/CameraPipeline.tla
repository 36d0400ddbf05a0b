--------------------------- MODULE CameraPipeline ---------------------------
(***************************************************************************)
(* From the camera to the RTC session (client/modules/camera and edge): the *)
(* capture thread of a single or a stereo source, the subscriptions it      *)
(* pushes frames into, the camera worker that takes, converts and sends     *)
(* them, and the YOLO thread of the stereo module.                          *)
(*                                                                          *)
(* Frames are numbered in the order they are captured.  A frame is memory   *)
(* of the driver: while anything holds it, its buffer is not in the         *)
(* driver's queue, and a camera with no buffer there captures nothing.  So  *)
(* the buffers free are not a variable: they are what no holder has.        *)
(*                                                                          *)
(* External: the V4L2 driver, CUDA, the RTC session and whoever switches    *)
(* the camera of this module in and out of view.                            *)
(***************************************************************************)
EXTENDS Integers, Sequences, FiniteSets

CONSTANTS
    CamKinds,      \* modules to consider: "single", "stereo", "yolo", "file"
    Buffers,       \* options.buffer_count, for each camera
    MaxFrames,     \* bound: frames captured
    MaxSwitches    \* bound: times the camera goes out of view

ASSUME CameraConstants ==
    /\ CamKinds \subseteq {"single", "stereo", "yolo", "file"}
    /\ Buffers \in Nat /\ Buffers >= 2
    /\ {MaxFrames, MaxSwitches} \subseteq Nat

VARIABLES
    kind,      \* the module: "yolo" is the stereo one with its YOLO thread
    src,       \* started, stop_requested and failed of the source
    cap,       \* where the capture thread is
    part,      \* cameras whose half of the next frame is dequeued
    seq,       \* sequence: the last frame made
    pub,       \* Publish: subscriptions of the snapshot still to be pushed to
    subs,      \* the source's list of subscriptions
    sub,       \* the subscriptions: queue, closed
    conv,      \* the converter: its slots and the frames it keeps
    work,      \* the camera worker: where it is, the frame it has
    view,      \* the worker is told to send
    yolo,      \* the YOLO thread
    stage,     \* Start and Stop of the streaming module
    file,      \* next frame of a local YUV file
    pushed,    \* history: last frame pushed to each open subscription
    taken,     \* history: last frame taken from each subscription
    switches

camVars == <<kind, src, cap, part, seq, pub, subs, sub, conv, work, view,
             yolo, stage, file, pushed, taken, switches>>
source == <<src, cap, part, seq, pub, subs>>
camHistory == <<pushed, taken, switches>>

Subs == {"rtc", "yolo"}
Stereo == kind \in {"stereo", "yolo"}
Cameras == IF Stereo THEN {"left", "right"} ELSE {"left"}

\* Subscribe(2) for the stereo module, Subscribe(1) for the others.
Depth(s) == IF s = "rtc" /\ Stereo THEN 2 ELSE 1

NoConverter == [made |-> FALSE, order |-> <<>>, next |-> 0, held |-> <<>>]
Idle == [at |-> "wait", frame |-> 0]

CamInit ==
    /\ kind \in CamKinds
    /\ src = [started |-> FALSE, stop |-> FALSE, failed |-> FALSE]
    /\ cap = "none"
    /\ part = {}
    /\ seq = 0
    /\ pub = <<>>
    /\ subs = <<>>
    /\ sub = [s \in Subs |-> [q |-> <<>>, closed |-> FALSE]]
    /\ conv = NoConverter
    /\ work = [at |-> "none", frame |-> 0]
    /\ view = TRUE
    /\ yolo = [at |-> "none", frame |-> 0, stop |-> FALSE]
    /\ stage = "off"
    /\ file = 0
    /\ pushed = [s \in Subs |-> 0]
    /\ taken = [s \in Subs |-> 0]
    /\ switches = 0

----------------------------------------------------------------------------
(* Who holds a frame, and what that leaves the driver. *)

RangeOf(s) == {s[i] : i \in DOMAIN s}
InQueue(s) == RangeOf(sub[s].q)
Publishing == IF cap = "push" THEN {seq} ELSE {}
Sending == InQueue("rtc") \cup RangeOf(conv.held) \cup ({work.frame} \ {0})
Watching == InQueue("yolo") \cup ({yolo.frame} \ {0})
Held == Publishing \cup Sending \cup Watching

\* Requeue: a buffer is back with the driver once its frame is held no more.
Free(c) == Buffers - Cardinality(Held) - (IF c \in part THEN 1 ELSE 0)

----------------------------------------------------------------------------
(* The source. *)

\* IsRunning, running.
Running == src.started /\ ~src.stop /\ ~src.failed

\* One step of opening the cameras; any of them may throw.  Nobody asks here
\* whether the source is to stop.
Opening(from, to) ==
    /\ cap = from
    /\ cap' \in {to, "failed"}
    /\ UNCHANGED <<kind, src, part, seq, pub, subs, sub, conv, work, view, yolo,
                   stage, file, camHistory>>

\* Open: a device that captures and streams.
CapOpens == Opening("open", "format")

\* ConfigureFormat: the current format, or the first one the driver accepts.
CapFormats == Opening("format", "mmap")

\* InitMmap, QueueAllBuffers, StartStreaming: at least two buffers, all queued.
CapMaps == Opening("mmap", IF Stereo THEN "pair" ELSE "warm")

\* CaptureLoop of the stereo source: the second camera, of equal height.
CapPairs == Opening("pair", "warm")

\* RunWarmup of either source: frames are dequeued and requeued while running.
CapWarmsUp == Opening("warm", "loop")

\* The loop condition; a half frame goes back to the driver when it fails.
CapLoops ==
    /\ cap = "loop"
    /\ IF Running THEN cap' = "poll" /\ UNCHANGED part
                  ELSE cap' = "ending" /\ part' = {}
    /\ UNCHANGED <<kind, src, seq, pub, subs, sub, conv, work, view, yolo,
                   stage, file, camHistory>>

\* The device fails: what is dequeued goes back to the driver.
CapFails ==
    /\ cap \in {"poll", "failed"}
    /\ src' = [src EXCEPT !.failed = TRUE]
    /\ part' = {}
    /\ cap' = "ending"
    /\ UNCHANGED <<kind, seq, pub, subs, sub, conv, work, view, yolo,
                   stage, file, camHistory>>

\* The frame is made and the list of subscriptions copied, under one lock each.
Captured ==
    /\ seq < MaxFrames
    /\ seq' = seq + 1
    /\ part' = {}
    /\ pub' = subs
    /\ cap' = "push"

\* DequeueCapturedFrame; a poll that times out goes round the loop.
CapPollsSingle ==
    /\ cap = "poll" /\ ~Stereo
    /\ IF Free("left") > 0 /\ seq < MaxFrames
       THEN Captured
       ELSE cap' = "loop" /\ UNCHANGED <<part, seq, pub>>
    /\ UNCHANGED <<kind, src, subs, sub, conv, work, view, yolo, stage, file, camHistory>>

\* DequeueFramePair: the halves come in any order, and one is kept while the
\* other is waited for.
CapPollsStereo(ready) ==
    /\ cap = "poll" /\ Stereo
    /\ ready \subseteq {c \in Cameras \ part : Free(c) > 0 /\ seq < MaxFrames}
    /\ IF part \cup ready = Cameras
       THEN Captured
       ELSE part' = part \cup ready /\ cap' = "loop" /\ UNCHANGED <<seq, pub>>
    /\ UNCHANGED <<kind, src, subs, sub, conv, work, view, yolo, stage, file, camHistory>>

\* Mutant: the newest frame is dropped when the queue is full.
PushIfRoom(s) ==
    sub' = IF sub[s].closed \/ Len(sub[s].q) >= Depth(s) THEN sub
           ELSE [sub EXCEPT ![s].q = Append(@, seq)]

\* Push: a closed subscription takes nothing, a full one drops its oldest.
Push(s) ==
    sub' = IF sub[s].closed THEN sub
           ELSE [sub EXCEPT ![s].q = IF Len(@) >= Depth(s)
                                     THEN Append(Tail(@), seq) ELSE Append(@, seq)]

\* Publish: to one subscription of the snapshot after the other; then the
\* capture thread lets go of the frame.
CapPublishes ==
    /\ cap = "push"
    /\ IF pub = <<>>
       THEN cap' = "loop" /\ UNCHANGED <<pub, sub, pushed>>
       ELSE /\ Push(Head(pub))
            /\ pushed' = IF sub[Head(pub)].closed THEN pushed
                         ELSE [pushed EXCEPT ![Head(pub)] = seq]
            /\ pub' = Tail(pub)
            /\ UNCHANGED cap
    /\ UNCHANGED <<kind, src, part, seq, subs, conv, work, view, yolo,
                   stage, file, taken, switches>>

CapEnds ==
    /\ cap = "ending"
    /\ src' = [src EXCEPT !.started = FALSE, !.stop = TRUE]
    /\ cap' = "closing"
    /\ UNCHANGED <<kind, part, seq, pub, subs, sub, conv, work, view, yolo,
                   stage, file, camHistory>>

\* Close: what is queued is dropped and waiters are woken.
Closed(v) == [q |-> <<>>, closed |-> TRUE]

\* CloseSubscriptions empties the list and closes every one on it.
CloseSubscriptions ==
    /\ sub' = [s \in Subs |-> IF s \in RangeOf(subs) THEN Closed(sub[s]) ELSE sub[s]]
    /\ subs' = <<>>

CapCloses ==
    /\ cap = "closing"
    /\ CloseSubscriptions
    /\ cap' = "done"
    /\ UNCHANGED <<kind, src, part, seq, pub, conv, work, view, yolo,
                   stage, file, camHistory>>

----------------------------------------------------------------------------
(* The converter: two slots, used in turn; a frame it reads stays held. *)

\* Init of either converter: its two slots, free.
ConverterInit == [NoConverter EXCEPT !.made = TRUE]
StitchInit == [NoConverter EXCEPT !.made = TRUE]

\* EnsureCudaConverter, EnsureConverter: made with the first frame, and kept: a
\* source's frames all have the format its devices were opened with.
EnsureCudaConverter(c) == IF c.made THEN c ELSE ConverterInit
EnsureConverter(c) == IF c.made THEN c ELSE StitchInit

\* Mutant: the frame is not kept while the slot reads it.
EnqueueUnheld(c, f) ==
    [c EXCEPT !.order = Append(@, <<c.next, f>>), !.next = 1 - @]

\* Enqueue of the single converter: the next slot, or the other if that one is
\* pending.
Enqueue(c, f) ==
    LET busy == {c.order[i][1] : i \in DOMAIN c.order}
        slot == IF c.next \in busy THEN 1 - c.next ELSE c.next
    IN  [c EXCEPT !.order = Append(@, <<slot, f>>), !.next = 1 - slot,
                  !.held = Append(@, f)]

\* Enqueue of the stitching converter: one slot for both halves.
EnqueuePair(c, f) == Enqueue(c, f)

\* Dequeue waits for the oldest slot; its frame is let go.
Dequeue(c) == [c EXCEPT !.order = Tail(@), !.held = Tail(@)]
DequeuePair(c) == Dequeue(c)

\* DiscardPending waits for every slot.
Discarded(c) == [c EXCEPT !.order = <<>>, !.held = <<>>]

\* EnqueueToI420 and DequeueI420 of the two frame converters.
EnqueueToI420(f) == Enqueue(EnsureCudaConverter(conv), f)
EnqueuePairToI420(f) == EnqueuePair(EnsureConverter(conv), f)
Enqueued(f) == IF Stereo THEN EnqueuePairToI420(f) ELSE EnqueueToI420(f)
DequeueI420(c) == Dequeue(c)
DequeuePairI420(c) == DequeuePair(c)

----------------------------------------------------------------------------
(* The camera worker: WaitForWorker and Tick, again and again. *)

WorkerEnds == work' = [at |-> "done", frame |-> 0]

\* The camera goes out of view, or comes back.
SwitchView ==
    /\ stage = "on"
    /\ IF view THEN switches < MaxSwitches /\ switches' = switches + 1
               ELSE UNCHANGED switches
    /\ view' = ~view
    /\ UNCHANGED <<kind, source, sub, conv, work, yolo, stage, file, pushed, taken>>

\* WaitForWorker has let the worker go on: from here it is inside Tick,
\* whatever becomes of the view, and waits in WaitNext.
TickBegins ==
    /\ work.at = "wait" /\ stage = "on" /\ view
    /\ work' = [work EXCEPT !.at = "tick"]
    /\ UNCHANGED <<kind, source, sub, conv, view, yolo, stage, file, camHistory>>

\* stop_requested_ is seen between two Ticks.
WorkerStops ==
    /\ work.at = "wait" /\ stage # "on"
    /\ WorkerEnds
    /\ UNCHANGED <<kind, source, sub, conv, view, yolo, stage, file, camHistory>>

\* WaitNext times out, or finds the subscription closed; a failed source ends
\* the worker.
TickGetsNothing ==
    /\ work.at = "tick" /\ kind # "file" /\ sub["rtc"].q = <<>>
    /\ IF src.failed THEN WorkerEnds ELSE work' = Idle
    /\ UNCHANGED <<kind, source, sub, conv, view, yolo, stage, file, camHistory>>

TickTakes ==
    /\ work.at = "tick" /\ sub["rtc"].q # <<>>
    /\ work' = [at |-> "have", frame |-> Head(sub["rtc"].q)]
    /\ taken' = [taken EXCEPT !["rtc"] = Head(sub["rtc"].q)]
    /\ sub' = [sub EXCEPT !["rtc"].q = Tail(@)]
    /\ UNCHANGED <<kind, source, conv, view, yolo, stage, file, pushed, switches>>

\* Nobody to send to: the pipeline is emptied.
TickNotReady ==
    /\ work.at = "have"
    /\ conv' = Discarded(conv)
    /\ work' = Idle
    /\ UNCHANGED <<kind, source, sub, view, yolo, stage, file, pushed, taken, switches>>

\* RtcSession::SendI420Frame: a frame without data, of a source that was not
\* registered or that the agent does not take ends the worker.
SendI420Frame == work' = Idle \/ WorkerEnds

\* Of two frames in the converter the first comes out and is sent.
Sends(c, rest) ==
    /\ IF Len(c.held) < 2
       THEN conv' = c /\ work' = Idle
       ELSE conv' = rest /\ SendI420Frame
    /\ UNCHANGED <<kind, source, sub, view, yolo, stage, file, pushed, taken, switches>>

\* Tick, continuous (the planner asks for no single frames): a frame goes in,
\* and the one before it comes out.
TickSingle ==
    /\ work.at = "have" /\ ~Stereo
    /\ Sends(EnqueueToI420(work.frame), DequeueI420(EnqueueToI420(work.frame)))

TickStereo ==
    /\ work.at = "have" /\ Stereo
    /\ Sends(EnqueuePairToI420(work.frame), DequeuePairI420(EnqueuePairToI420(work.frame)))

\* An empty frame, one smaller than its format or a CUDA failure on the way in
\* or out ends the worker; then the frame in hand may be in the converter.
ConverterFails ==
    /\ work.at = "have"
    /\ WorkerEnds
    /\ conv' \in {conv, Enqueued(work.frame)}
    /\ UNCHANGED <<kind, source, sub, view, yolo, stage, file, camHistory>>

\* TickLocalYuvFile: the file is read frame by frame, from the start again at
\* its end; one that holds no whole frame ends the worker.
TickFile(frames) ==
    /\ work.at = "tick" /\ kind = "file"
    /\ IF frames = 0 /\ file = 0
       THEN WorkerEnds /\ UNCHANGED file
       ELSE /\ file' = IF file >= 2 THEN 1 ELSE file + 1
            /\ work' = Idle
    /\ UNCHANGED <<kind, source, sub, conv, view, yolo, stage, camHistory>>

----------------------------------------------------------------------------
(* The YOLO thread. *)

\* Run: stopped, or a frame, or none within its wait.
YoloStops ==
    /\ yolo.at = "wait" /\ yolo.stop
    /\ yolo' = [yolo EXCEPT !.at = "done"]
    /\ UNCHANGED <<kind, source, sub, conv, work, view, stage, file, camHistory>>

YoloTakes ==
    /\ yolo.at = "wait" /\ sub["yolo"].q # <<>>
    /\ yolo' = [yolo EXCEPT !.at = "work", !.frame = Head(sub["yolo"].q)]
    /\ taken' = [taken EXCEPT !["yolo"] = Head(sub["yolo"].q)]
    /\ sub' = [sub EXCEPT !["yolo"].q = Tail(@)]
    /\ UNCHANGED <<kind, source, conv, work, view, stage, file, pushed, switches>>

\* ProcessYoloFrame, or a frame within the minimum interval: then it is let go.
YoloProcesses ==
    /\ yolo.at = "work"
    /\ yolo' = [yolo EXCEPT !.at = "wait", !.frame = 0]
    /\ UNCHANGED <<kind, source, sub, conv, work, view, stage, file, camHistory>>

----------------------------------------------------------------------------
(* Start and Stop of the streaming module and its worker. *)

NewSource ==
    /\ src' = [started |-> TRUE, stop |-> FALSE, failed |-> FALSE]
    /\ cap' = "open"

\* Start of the stereo source.
NewPairSource == NewSource

\* Subscribe before Start, so that the subscriptions see every frame.
StartSingle ==
    /\ stage = "off" /\ kind = "single"
    /\ NewSource
    /\ subs' = <<"rtc">>
    /\ work' = Idle
    /\ stage' = "on"
    /\ UNCHANGED <<kind, part, seq, pub, sub, conv, view, yolo, file, camHistory>>

StartStereo ==
    /\ stage = "off" /\ Stereo
    /\ NewPairSource
    /\ subs' = IF kind = "yolo" THEN <<"rtc", "yolo">> ELSE <<"rtc">>
    /\ yolo' = IF kind = "yolo" THEN [yolo EXCEPT !.at = "wait"] ELSE yolo
    /\ work' = Idle
    /\ stage' = "on"
    /\ UNCHANGED <<kind, part, seq, pub, sub, conv, view, file, camHistory>>

\* A file that cannot be opened does not start.
StartFile ==
    /\ stage = "off" /\ kind = "file"
    /\ \/ work' = Idle /\ stage' = "on"
       \/ work' = work /\ stage' = "stopped"
    /\ UNCHANGED <<kind, source, sub, conv, view, yolo, file, camHistory>>

\* EdgeCameraModules::Stop, RequestStop: the RTC subscription is closed; the
\* single source is asked to stop as well.
RequestStop ==
    /\ stage = "on"
    /\ sub' = [sub EXCEPT !["rtc"] = Closed(@)]
    /\ src' = IF kind = "single" THEN [src EXCEPT !.stop = TRUE] ELSE src
    /\ stage' = "joinWorker"
    /\ UNCHANGED <<kind, cap, part, seq, pub, subs, conv, work, view, yolo,
                   file, camHistory>>

\* Mutant: the subscription is closed, and the thread is not told to stop.
StopYoloUntold ==
    /\ stage = "joinWorker" /\ work.at = "done"
    /\ sub' = IF kind = "yolo" THEN [sub EXCEPT !["yolo"] = Closed(@)] ELSE sub
    /\ stage' = "joinYolo"
    /\ UNCHANGED <<kind, source, conv, yolo, work, view, file, camHistory>>

\* JoinWorker, then YoloFrameConsumer::Stop.
StopYolo ==
    /\ stage = "joinWorker" /\ work.at = "done"
    /\ yolo' = [yolo EXCEPT !.stop = TRUE]
    /\ sub' = IF kind = "yolo" THEN [sub EXCEPT !["yolo"] = Closed(@)] ELSE sub
    /\ stage' = "joinYolo"
    /\ UNCHANGED <<kind, source, conv, work, view, file, camHistory>>

\* Stop of either source asks the capture thread to end and waits for it.
StopAsked == src' = [src EXCEPT !.stop = TRUE]
StopPairAsked == src' = IF src.started \/ cap # "none" THEN [src EXCEPT !.stop = TRUE]
                        ELSE src

\* Then the source's Stop.
StopSource ==
    /\ stage = "joinYolo" /\ yolo.at \in {"none", "done"}
    /\ IF Stereo THEN StopPairAsked ELSE StopAsked
    /\ stage' = "joinCapture"
    /\ UNCHANGED <<kind, cap, part, seq, pub, subs, sub, conv, work, view, yolo,
                   file, camHistory>>

\* Then converter and subscriptions go, and with them their frames.
Released ==
    /\ stage = "joinCapture" /\ cap \in {"none", "done"}
    /\ sub' = [s \in Subs |-> Closed(sub[s])]
    /\ subs' = <<>>
    /\ conv' = NoConverter
    /\ stage' = "stopped"
    /\ UNCHANGED <<kind, src, cap, part, seq, pub, work, view, yolo, camHistory>>

StoppedSingle == ~Stereo /\ Released /\ file' = 0
StoppedStereo == Stereo /\ Released /\ UNCHANGED file

----------------------------------------------------------------------------

CaptureThread ==
    \/ CapOpens \/ CapFormats \/ CapMaps \/ CapPairs \/ CapWarmsUp \/ CapLoops
    \/ CapPollsSingle
    \/ \E ready \in SUBSET Cameras : CapPollsStereo(ready)
    \/ CapPublishes \/ CapEnds \/ CapCloses
    \/ CapFails

Worker ==
    \/ TickBegins \/ WorkerStops \/ TickGetsNothing \/ TickTakes
    \/ TickNotReady \/ TickSingle \/ TickStereo \/ ConverterFails
    \/ \E frames \in 0 .. 2 : TickFile(frames)

YoloThread == YoloStops \/ YoloTakes \/ YoloProcesses

Starting == StartSingle \/ StartStereo \/ StartFile
Stopping == StopYolo \/ StopSource \/ StoppedSingle \/ StoppedStereo

CamNext == CaptureThread \/ Worker \/ YoloThread \/ SwitchView \/ Starting \/ RequestStop \/ Stopping

CamSpec == CamInit /\ [][CamNext]_camVars

\* Threads run: a poll ends with its timeout, an inference and a WaitNext end.
CamFairSpec ==
    /\ CamSpec
    /\ WF_camVars(CaptureThread) /\ WF_camVars(Worker) /\ WF_camVars(YoloThread)
    /\ WF_camVars(Stopping)

----------------------------------------------------------------------------

RtcFrames == INSTANCE LatestFrames WITH
    depth <- Depth("rtc"), sent <- pushed["rtc"], got <- taken["rtc"],
    closed <- sub["rtc"].closed

YoloFrames == INSTANCE LatestFrames WITH
    depth <- Depth("yolo"), sent <- pushed["yolo"], got <- taken["yolo"],
    closed <- sub["yolo"].closed

\* The two subscriptions, pushed to from a snapshot of the list, closed from
\* either side and trimmed under their consumers' hands, implement LatestFrames.
SubscriptionsDeliverLatest == RtcFrames!LFSpec /\ YoloFrames!LFSpec

\* Capture does not depend on the view: while the camera is out of view and the
\* worker waits, what the RTC side keeps (its queue, the frame in the
\* converter) never is every buffer, so the YOLO thread goes on getting frames.
CaptureNotStarved ==
    work.at = "wait" => Cardinality(Sending) < Buffers

\* CUDA reads only frames that are held: their buffers cannot be refilled.
GpuReadsHeldFrames == {conv.order[i][2] : i \in DOMAIN conv.order} \subseteq Held

\* Once Stop has returned, no frame and no thread keeps the camera open, so it
\* can be opened again.
StoppedReleases ==
    stage = "stopped" => Held = {} /\ part = {} /\ cap \in {"none", "done"}

\* A camera's frames are accounted for: capture is never starved by a view that
\* is off, the GPU reads held frames only and Stop leaves nothing held.
CameraFrames == CaptureNotStarved /\ GpuReadsHeldFrames /\ StoppedReleases

\* Stop returns, whatever the threads were doing and whatever has failed.
StopReturns == stage = "joinWorker" ~> stage = "stopped"
=============================================================================
