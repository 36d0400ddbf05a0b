----------------------------- MODULE AudioDevices -----------------------------
(***************************************************************************)
(* Sound: AudioCapture and AudioPlayback of client/modules/audio over SDL  *)
(* streams, and RtcExternalAudioDeviceModule, the audio device WebRTC sees.*)
(* A sample block is a number; PacketBlocks of them make one 10 ms frame.  *)
(* Opening a device may fail at any point; which check failed is left out. *)
(***************************************************************************)
EXTENDS Integers, Sequences, FiniteSets

CONSTANTS
  PacketBlocks,      \* blocks in the frame handed to the capture callback
  kMaxCaptureQueued, \* max_buffered_packets, from kMaxCaptureQueuedMs
  kMaxPlaybackQueued,\* frames, from kMaxPlaybackQueuedMs
  Callers,           \* threads of WebRTC that start and stop the playout
  MaxBlocks,         \* bound: blocks the microphone records
  MaxStarts          \* bound: starts of the capture and of the playback

ASSUME AudioConstants ==
  /\ {PacketBlocks, kMaxCaptureQueued, kMaxPlaybackQueued} \subseteq Nat \ {0}
  /\ MaxBlocks \in Nat /\ MaxStarts \in Nat

VARIABLES
  mic,        \* the capture's SDL stream: recorded blocks not yet read
  recorded,   \* blocks recorded so far; the next block's number
  capturer,   \* CaptureLoop: "none", "reading", "giving" or "left"
  capStop,    \* stop_requested_
  pendingPcm, \* pending from consumed on
  frames,     \* the frames given to the callback, newest last
  capOwner,   \* the caller of Start and Stop: "idle" or "joining"
  starts,
  playback,   \* running_ of AudioPlayback
  opener,     \* its Start and Stop: "idle", "closing", "opening", "stopping"
  pusher,     \* PushFrame: "idle", "checked" or "locked"
  speaker,    \* the playback's stream: frames queued, or -1 when closed
  playing,    \* playing_ of the external audio device
  playoutThread, \* playout_thread_: "none", "running" or "exited"
  overwritten,   \* a joinable playout_thread_ was assigned over
  admReady,   \* initialized_, playout_initialized_ and audio_callback_
  caller      \* each caller: "idle", or what it does after the join

captureVars == <<mic, recorded, capturer, capStop, pendingPcm, frames, capOwner>>
playbackVars == <<playback, opener, pusher, speaker>>
admVars == <<playing, playoutThread, overwritten, admReady, caller>>
audioVars == <<captureVars, starts, playbackVars, admVars>>

MaxBuffered == PacketBlocks * kMaxCaptureQueued
Newest(s, n) == SubSeq(s, Len(s) - n + 1, Len(s))

-----------------------------------------------------------------------------
(* AudioCapture. *)

(* SDL records a block. *)
MicRecords ==
  /\ capturer \in {"reading", "giving"} /\ recorded < MaxBlocks
  /\ mic' = Append(mic, recorded)
  /\ recorded' = recorded + 1
  /\ UNCHANGED <<capturer, capStop, pendingPcm, frames, capOwner, starts,
                 playbackVars, admVars>>

(* AudioCapture::Impl::Start with no capture running: it opened the device *)
(* and started the loop.  A Start that fails ends as Stop does.            *)
CaptureStart ==
  /\ capOwner = "idle" /\ capturer = "none" /\ starts < MaxStarts
  /\ starts' = starts + 1
  /\ capturer' = "reading" /\ capStop' = FALSE
  /\ mic' = <<>> /\ pendingPcm' = <<>>
  /\ UNCHANGED <<recorded, frames, capOwner, playbackVars, admVars>>

(* Stop, which Start calls first: raise the flag and join the loop... *)
CaptureStop ==
  /\ capOwner = "idle" /\ capturer # "none"
  /\ capStop' = TRUE
  /\ capOwner' = "joining"
  /\ UNCHANGED <<mic, recorded, capturer, pendingPcm, frames, starts,
                 playbackVars, admVars>>

(* ... then drop the callback and close the stream. *)
CaptureJoined ==
  /\ capOwner = "joining" /\ capturer = "left"
  /\ capturer' = "none" /\ capOwner' = "idle"
  /\ mic' = <<>>
  /\ UNCHANGED <<recorded, capStop, pendingPcm, frames, starts, playbackVars,
                 admVars>>

(* Mutant of BacklogDropped: the blocks already taken over are kept. *)
BacklogDroppedFromStream == mic' = Newest(mic, MaxBuffered) /\ UNCHANGED pendingPcm

(* The stream holds more than the capture may lag: the oldest blocks go,   *)
(* and with them the start of the frame that was being put together.       *)
BacklogDropped == mic' = Newest(mic, MaxBuffered) /\ pendingPcm' = <<>>

(* CaptureLoop discards down to the limit; a discard that fails clears the *)
(* stream.                                                                 *)
CaptureDiscards ==
  /\ capturer = "reading" /\ ~capStop
  /\ Len(mic) > MaxBuffered
  /\ \/ BacklogDropped
     \/ mic' = <<>> /\ pendingPcm' = <<>>
  /\ UNCHANGED <<recorded, capturer, capStop, frames, capOwner, starts,
                 playbackVars, admVars>>

(* What is left of pending when it holds more frames than it may. *)
WithoutBacklog(pcm) ==
  LET packets == Len(pcm) \div PacketBlocks
      skipped == IF packets > kMaxCaptureQueued THEN packets - kMaxCaptureQueued ELSE 0
  IN SubSeq(pcm, skipped * PacketBlocks + 1, Len(pcm))

(* CaptureLoop reads what the stream holds. *)
CaptureReads ==
  /\ capturer = "reading" /\ ~capStop
  /\ Len(mic) \in 1..MaxBuffered
  /\ pendingPcm' = WithoutBacklog(pendingPcm \o mic)
  /\ mic' = <<>>
  /\ capturer' = "giving"
  /\ UNCHANGED <<recorded, capStop, frames, capOwner, starts, playbackVars, admVars>>

(* It hands out whole frames until none is left or it is asked to stop. *)
CaptureGives ==
  /\ capturer = "giving"
  /\ IF ~capStop /\ Len(pendingPcm) >= PacketBlocks
     THEN /\ frames' = Append(frames, SubSeq(pendingPcm, 1, PacketBlocks))
          /\ pendingPcm' = SubSeq(pendingPcm, PacketBlocks + 1, Len(pendingPcm))
          /\ UNCHANGED capturer
     ELSE capturer' = "reading" /\ UNCHANGED <<frames, pendingPcm>>
  /\ UNCHANGED <<mic, recorded, capStop, capOwner, starts, playbackVars, admVars>>

CaptureLeaves ==
  /\ capturer = "reading" /\ capStop
  /\ capturer' = "left"
  /\ UNCHANGED <<mic, recorded, capStop, pendingPcm, frames, capOwner, starts,
                 playbackVars, admVars>>

-----------------------------------------------------------------------------
(* AudioPlayback: Start and Stop on one thread, PushFrame and Clear on     *)
(* another.  Start opens the stream without the mutex.                     *)

(* Stop, alone or as the first line of Start: running_ goes down before    *)
(* the mutex is taken.                                                     *)
PlaybackStops(then) ==
  /\ opener = "idle"
  /\ playback' = FALSE
  /\ opener' = then
  /\ UNCHANGED <<pusher, speaker, starts, captureVars, admVars>>

(* CloseStream under the mutex. *)
PlaybackCloses ==
  /\ opener \in {"closing", "stopping"} /\ pusher # "locked"
  /\ speaker' = -1
  /\ opener' = IF opener = "closing" THEN "opening" ELSE "idle"
  /\ UNCHANGED <<playback, pusher, starts, captureVars, admVars>>

(* The rest of Start: the default device is open, or something failed. *)
PlaybackOpens ==
  /\ opener = "opening" /\ starts < MaxStarts
  /\ starts' = starts + 1
  /\ \/ speaker' = 0 /\ playback' = TRUE
     \/ speaker' = -1 /\ UNCHANGED playback
  /\ opener' = "idle"
  /\ UNCHANGED <<pusher, captureVars, admVars>>

(* PushFrame tests running_ and the frame before it takes the mutex... *)
PushChecks ==
  /\ pusher = "idle" /\ playback
  /\ pusher' = "checked"
  /\ UNCHANGED <<playback, opener, speaker, starts, captureVars, admVars>>

(* Mutant of PushGoesOn: the state seen before the mutex is relied on. *)
PushAnyway == TRUE

(* ... and once more when it holds it. *)
PushGoesOn == playback

PushLocks ==
  /\ pusher = "checked"
  /\ pusher' = IF PushGoesOn THEN "locked" ELSE "idle"
  /\ UNCHANGED <<playback, opener, speaker, starts, captureVars, admVars>>

(* The stream's queue after one more frame: above the limit the older      *)
(* frames are cleared.                                                     *)
Queued(n) == IF n > 0 /\ n + 1 > kMaxPlaybackQueued THEN 1 ELSE n + 1

(* EnsureStream and the put.  A frame of another format, or of the first   *)
(* format after a Start, has the stream opened anew, which may fail.       *)
PushFrame ==
  /\ pusher = "locked"
  /\ pusher' = "idle"
  /\ \/ speaker >= 0 /\ speaker' = Queued(speaker)
     \/ speaker' = Queued(0)
     \/ speaker' = -1
  /\ UNCHANGED <<playback, opener, starts, captureVars, admVars>>

(* Clear. *)
PlaybackClears ==
  /\ pusher # "locked" /\ speaker > 0
  /\ speaker' = 0
  /\ UNCHANGED <<playback, opener, pusher, starts, captureVars, admVars>>

(* The sound card plays a frame. *)
SpeakerPlays ==
  /\ speaker > 0
  /\ speaker' = speaker - 1
  /\ UNCHANGED <<playback, opener, pusher, starts, captureVars, admVars>>

-----------------------------------------------------------------------------
(* RtcExternalAudioDeviceModule.  Its methods run under mutex_ and are one *)
(* step each, but for StopPlayout, which joins the thread without it.      *)

(* playout_control_mutex_, which StopPlayout keeps through its join. *)
ControlFree == \A c \in Callers : caller[c] \in {"idle", "reset"}

(* Init, InitPlayout and RegisterAudioCallback. *)
AdmInit ==
  /\ ~admReady
  /\ admReady' = TRUE
  /\ UNCHANGED <<playing, playoutThread, overwritten, caller, starts,
                 captureVars, playbackVars>>

StartPlayout(c) ==
  /\ caller[c] = "idle" /\ ControlFree
  /\ admReady /\ ~playing
  /\ playing' = TRUE
  /\ overwritten' = (overwritten \/ playoutThread # "none")
  /\ playoutThread' = "running"
  /\ UNCHANGED <<admReady, caller, starts, captureVars, playbackVars>>

(* StopPlayout up to the join, for its own sake or on behalf of Terminate. *)
StopPlayout(c, then) ==
  /\ caller[c] = "idle" /\ ControlFree
  /\ playing' = FALSE
  /\ caller' = [caller EXCEPT ![c] = then]
  /\ UNCHANGED <<playoutThread, overwritten, admReady, starts, captureVars, playbackVars>>

(* The join, after which others may start and stop. *)
PlayoutJoined(c) ==
  /\ caller[c] \in {"stop", "terminate"} /\ playoutThread # "running"
  /\ playoutThread' = "none"
  /\ caller' = [caller EXCEPT ![c] = IF @ = "stop" THEN "idle" ELSE "reset"]
  /\ UNCHANGED <<playing, overwritten, admReady, starts, captureVars, playbackVars>>

(* What Terminate resets after StopPlayout has returned. *)
TerminateResets(c) ==
  /\ caller[c] = "reset"
  /\ admReady' = FALSE
  /\ caller' = [caller EXCEPT ![c] = "idle"]
  /\ UNCHANGED <<playing, playoutThread, overwritten, starts, captureVars, playbackVars>>

(* PlayoutLoop: each round pulls 10 ms under mutex_ while playing_. *)
PlayoutLeaves ==
  /\ playoutThread = "running" /\ ~playing
  /\ playoutThread' = "exited"
  /\ UNCHANGED <<playing, overwritten, admReady, caller, starts, captureVars, playbackVars>>

-----------------------------------------------------------------------------
AudioInit ==
  /\ mic = <<>> /\ recorded = 0 /\ capturer = "none" /\ capStop = TRUE
  /\ pendingPcm = <<>> /\ frames = <<>> /\ capOwner = "idle" /\ starts = 0
  /\ playback = FALSE /\ opener = "idle" /\ pusher = "idle" /\ speaker = -1
  /\ playing = FALSE /\ playoutThread = "none" /\ overwritten = FALSE
  /\ admReady = FALSE /\ caller = [c \in Callers |-> "idle"]

CaptureNext ==
  \/ MicRecords \/ CaptureStart \/ CaptureStop \/ CaptureJoined
  \/ CaptureDiscards \/ CaptureReads \/ CaptureGives \/ CaptureLeaves

PlaybackNext ==
  \/ \E then \in {"closing", "stopping"} : PlaybackStops(then)
  \/ PlaybackCloses \/ PlaybackOpens \/ PushChecks \/ PushLocks \/ PushFrame
  \/ PlaybackClears \/ SpeakerPlays

AdmNext ==
  \/ AdmInit \/ PlayoutLeaves
  \/ \E c \in Callers :
       \/ StartPlayout(c) \/ PlayoutJoined(c) \/ TerminateResets(c)
       \/ \E then \in {"stop", "terminate"} : StopPlayout(c, then)

AudioNext == CaptureNext \/ PlaybackNext \/ AdmNext

AudioSpec == AudioInit /\ [][AudioNext]_audioVars

-----------------------------------------------------------------------------
(* A captured frame is sound as it was: its blocks follow one another in   *)
(* the recording, and frames go out in order with none twice.  The capture *)
(* drops sound in three places when it lags, one of them while half a      *)
(* frame has already been taken over from the stream.                      *)
FramesUnbroken ==
  /\ \A i \in DOMAIN frames : \A b \in 2..PacketBlocks :
       frames[i][b] = frames[i][b - 1] + 1
  /\ \A i \in 2..Len(frames) : frames[i][1] > frames[i - 1][PacketBlocks]

(* While Start opens the playback stream without the mutex, no PushFrame   *)
(* works on that stream: one that saw the previous life of the playback    *)
(* before the mutex learns that it is over.                                *)
StreamNotShared == ~(opener = "opening" /\ pusher = "locked")

(* StartPlayout never assigns over a playout thread that was not joined,   *)
(* which would end the program: a StopPlayout of another thread that has   *)
(* not joined yet keeps it out.                                            *)
PlayoutThreadJoined == ~overwritten

(* No thread of the audio devices works on what another one is replacing:  *)
(* neither the playback stream nor the playout thread.                     *)
AudioThreadsApart == StreamNotShared /\ PlayoutThreadJoined
=============================================================================
