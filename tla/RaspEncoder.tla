---------------------------- MODULE RaspEncoder ----------------------------
(***************************************************************************)
(* The Raspberry Pi encoder (vtsrtc/src/video/encode/rasp/                  *)
(* rasp_h264_encoder_impl.cpp): a GStreamer pipeline whose packets carry    *)
(* nothing that says which frame they encode.  Encode puts a frame into the *)
(* pipeline and its description into pending_frames_, and pairs the packets *)
(* it pulls with the descriptions in order, so one description too many or  *)
(* too few shifts every timestamp after it.  The code has two such cases: a *)
(* sample that cannot be used is consumed and its description stays, and a  *)
(* list that overflows loses a description whose packet is still to come.   *)
(* A new pipeline is what ends the shift.                                   *)
(*                                                                          *)
(* Encode runs under encoder_mutex_; the pipeline runs beside it.  Frames   *)
(* are numbered.  External: GStreamer, which codes each frame it takes into *)
(* one packet (alignment=au, no B frames), and WebRTC.                      *)
(***************************************************************************)
EXTENDS Naturals, Sequences

CONSTANTS
    kMaxPendingFrames,
    SrcBuffers,       \* max-buffers of appsrc, which blocks
    CodecFrames,      \* frames inside the pipeline's elements
    SinkBuffers,      \* max-buffers of appsink, which does not drop
    MaxRaspFrames,    \* bound: frames given to Encode
    MaxRaspErrors     \* bound: failures of the pipeline and unusable samples

ASSUME RaspConstants ==
    /\ {kMaxPendingFrames, SrcBuffers, CodecFrames, SinkBuffers} \subseteq Nat \ {0}
    /\ {MaxRaspFrames, MaxRaspErrors} \subseteq Nat

VARIABLES
    rasp,      \* where Encode is, and the frame it has
    rsize,     \* width_ and height_; 0 when released
    rcb,       \* encoded_image_callback_ is set
    pending,   \* pending_frames_
    packets,   \* ready_packets_
    redo,      \* pending_pipeline_reconfigure_
    gst,       \* the pipeline: "none", "up", "error"
    insrc, incodec, insink,    \* what is in it
    skewed,    \* history: this pipeline lost a packet or a description
    began,     \* history: the first frame of this pipeline
    given,     \* history: the last packet delivered, the frame it went with, and
               \* these two at that time
    raspErrors

raspVars == <<rasp, rsize, rcb, pending, packets, redo, gst, insrc, incodec, insink,
              skewed, began, given, raspErrors>>
pipeline == <<gst, insrc, incodec, insink>>

RaspAt(p) == rasp' = [rasp EXCEPT !.at = p]

RaspInit ==
    /\ rasp = [at |-> "idle", frame |-> 0]
    /\ rsize = 0
    /\ rcb = FALSE
    /\ pending = <<>> /\ packets = <<>>
    /\ redo = FALSE
    /\ gst = "none" /\ insrc = <<>> /\ incodec = <<>> /\ insink = <<>>
    /\ skewed = FALSE /\ began = 1
    /\ given = [packet |-> 0, frame |-> 0, skewed |-> FALSE, began |-> 0]
    /\ raspErrors = 0

----------------------------------------------------------------------------
(* GStreamer (external). *)

GstMoves ==
    /\ gst = "up"
    /\ \/ /\ insrc # <<>> /\ Len(incodec) < CodecFrames
          /\ incodec' = Append(incodec, Head(insrc))
          /\ insrc' = Tail(insrc)
          /\ UNCHANGED insink
       \/ /\ incodec # <<>> /\ Len(insink) < SinkBuffers
          /\ insink' = Append(insink, Head(incodec))
          /\ incodec' = Tail(incodec)
          /\ UNCHANGED insrc
    /\ UNCHANGED <<rasp, rsize, rcb, pending, packets, redo, gst, skewed, began, given,
                   raspErrors>>

\* An error or the end of the stream: nothing moves any more.
GstFails ==
    /\ gst = "up" /\ raspErrors < MaxRaspErrors
    /\ gst' = "error"
    /\ raspErrors' = raspErrors + 1
    /\ UNCHANGED <<rasp, rsize, rcb, pending, packets, redo, insrc, incodec, insink, skewed,
                   began, given>>

----------------------------------------------------------------------------
(* The life of the pipeline. *)

\* LaunchPipelineLocked: the first candidate that can be built, if it plays.
LaunchPipeline == gst' \in {"up", "none"}

\* What was in the pipeline is gone, and with it any shift.
DestroyPipeline ==
    /\ insrc' = <<>> /\ incodec' = <<>> /\ insink' = <<>>
    /\ skewed' = FALSE /\ began' = rasp.frame + 1

\* Mutant: the descriptions of the old pipeline's frames are kept.
InitializeKept(s) ==
    /\ rsize' = s
    /\ packets' = <<>>
    /\ redo' = FALSE
    /\ LaunchPipeline
    /\ UNCHANGED pending

\* InitializePipelineLocked.
InitializePipeline(s) ==
    /\ rsize' = s
    /\ pending' = <<>> /\ packets' = <<>>
    /\ redo' = FALSE
    /\ LaunchPipeline

RaspInitEncode(s) ==
    /\ rasp.at = "idle"
    /\ DestroyPipeline
    /\ InitializePipeline(s)
    /\ UNCHANGED <<rasp, rcb, given, raspErrors>>

RaspRelease ==
    /\ rasp.at = "idle" /\ rsize # 0
    /\ DestroyPipeline
    /\ pending' = <<>> /\ packets' = <<>>
    /\ redo' = FALSE
    /\ gst' = "none"
    /\ rsize' = 0
    /\ UNCHANGED <<rasp, rcb, given, raspErrors>>

RaspRegister ==
    /\ rasp.at = "idle" /\ ~rcb
    /\ rcb' = TRUE
    /\ UNCHANGED <<rasp, rsize, pending, packets, redo, pipeline, skewed, began, given,
                   raspErrors>>

----------------------------------------------------------------------------
(* Encode. *)

\* Frames are dropped until there is a callback.  A frame of another size, or
\* the first after an error, makes a new pipeline.
RaspEncode(s) ==
    /\ rasp.at = "idle" /\ rsize # 0 /\ rasp.frame < MaxRaspFrames /\ rcb
    /\ IF gst = "none" \/ s # rsize \/ redo
       THEN /\ DestroyPipeline
            /\ InitializePipeline(s)
            /\ rasp' = [at |-> IF gst' = "none" THEN "idle" ELSE "drain",
                        frame |-> rasp.frame + 1]
       ELSE /\ rasp' = [at |-> "drain", frame |-> rasp.frame + 1]
            /\ UNCHANGED <<rsize, pending, packets, redo, pipeline, skewed, began>>
    /\ UNCHANGED <<rcb, given, raspErrors>>

\* PullPacketFromSinkLocked, for as long as there is a packet: the first n
\* samples are.  The one after them, if there is one, has no buffer, cannot be
\* mapped or is empty; it is consumed, which ends the pulling like an empty
\* sink does, and its description stays.
PullPackets(n) ==
    LET bad == n < Len(insink) IN
    /\ bad => raspErrors < MaxRaspErrors
    /\ packets' = packets \o SubSeq(insink, 1, n)
    /\ insink' = SubSeq(insink, n + 2, Len(insink))
    /\ skewed' = (skewed \/ bad)
    /\ raspErrors' = IF bad THEN raspErrors + 1 ELSE raspErrors

\* MaybeLogHelperExitLocked reads the bus when there was nothing to pull.
HelperExit == redo' = (redo \/ gst = "error")

\* DrainPacketsLocked, up to its delivery.
Drains(from, to) ==
    /\ rasp.at = from
    /\ \E n \in 0 .. Len(insink) : PullPackets(n)
    /\ IF packets' = <<>>
       THEN HelperExit /\ RaspAt(IF to = "return" THEN "idle" ELSE to)
       ELSE RaspAt(IF to = "return" THEN "last" ELSE "first") /\ UNCHANGED redo
    /\ UNCHANGED <<rsize, rcb, pending, gst, insrc, incodec, began, given>>

DrainBefore == Drains("drain", "write")
DrainAfter == Drains("drainAfter", "return")

\* DeliverPacketLocked, for each packet that has a description; one that holds
\* no NAL unit ends Encode with an error.
RaspDelivers ==
    /\ rasp.at \in {"first", "last"}
    /\ IF packets = <<>> \/ pending = <<>>
       THEN /\ RaspAt(IF rasp.at = "first" THEN "write" ELSE "idle")
            /\ UNCHANGED <<pending, packets, given>>
       ELSE /\ packets' = Tail(packets)
            /\ pending' = Tail(pending)
            /\ \/ /\ given' = [packet |-> Head(packets), frame |-> Head(pending),
                               skewed |-> skewed, began |-> began]
                  /\ UNCHANGED rasp
               \/ RaspAt("idle") /\ UNCHANGED given
    /\ UNCHANGED <<rsize, rcb, redo, pipeline, skewed, began, raspErrors>>

\* WriteFrameToPipeLocked blocks while appsrc is full; a push refused by a
\* failed pipeline and a buffer that cannot be had, mapped or is too small end
\* Encode.
WriteFrame ==
    /\ rasp.at = "write"
    /\ \/ /\ gst = "up" /\ Len(insrc) < SrcBuffers
          /\ insrc' = Append(insrc, rasp.frame)
          /\ RaspAt("note")
          /\ UNCHANGED redo
       \/ /\ gst = "error"
          /\ HelperExit
          /\ RaspAt("idle")
          /\ UNCHANGED insrc
       \/ RaspAt("idle") /\ UNCHANGED <<insrc, redo>>
    /\ UNCHANGED <<rsize, rcb, pending, packets, gst, incodec, insink, skewed, began,
                   given, raspErrors>>

\* The oldest description is dropped when the pipeline holds more frames than
\* the list may.
NotePending ==
    LET all == Append(pending, rasp.frame)
        overflow == Len(all) > kMaxPendingFrames
    IN
    /\ rasp.at = "note"
    /\ pending' = IF overflow THEN Tail(all) ELSE all
    /\ skewed' = (skewed \/ overflow)
    /\ RaspAt("drainAfter")
    /\ UNCHANGED <<rsize, rcb, packets, redo, pipeline, began, given, raspErrors>>

----------------------------------------------------------------------------

RaspNext ==
    \/ GstMoves \/ GstFails
    \/ \E s \in 1 .. 2 : RaspInitEncode(s) \/ RaspEncode(s)
    \/ RaspRelease \/ RaspRegister
    \/ DrainBefore \/ DrainAfter \/ RaspDelivers \/ WriteFrame \/ NotePending

RaspSpec == RaspInit /\ [][RaspNext]_raspVars

----------------------------------------------------------------------------

\* Every packet goes out with the timestamp of the frame it encodes, through
\* errors, new pipelines and packets that cannot be used, as long as its
\* pipeline lost no sample and no description; and what a pipeline lost never
\* reaches beyond it: packet and timestamp are always of frames that were put
\* into the pipeline the packet comes from.
PacketMatchesFrame ==
    /\ ~given.skewed => given.packet = given.frame
    /\ given.packet >= given.began /\ given.frame >= given.began
=============================================================================
