-------------------------- MODULE JetsonLifecycle --------------------------
(***************************************************************************)
(* JetsonH264EncoderImpl (vtsrtc/src/video/encode/nvidia-jetson/            *)
(* jetsonh264_encoder_impl.cpp): the hardware sessions behind one WebRTC    *)
(* encoder.  WebRTC's encoder queue initialises, feeds, releases and        *)
(* destroys the encoder; the sessions' own threads deliver coded frames;    *)
(* the standby worker destroys retired sessions, prewarms a standby one     *)
(* and, when a released encoder is not initialised again within its grace   *)
(* period, frees the hardware.                                              *)
(*                                                                          *)
(* External: the sessions themselves (module JetsonSession), of which only  *)
(* the size and the delivery of a frame are kept here, and WebRTC.          *)
(***************************************************************************)
EXTENDS Naturals, FiniteSets

CONSTANTS
    HwSessions,    \* hardware sessions that can exist at a time
    MaxSize,       \* resolutions, by rank
    MainStreams,   \* values of mainStream to consider
    MaxLives,      \* bound: calls of InitEncode
    MaxCalls       \* bound: calls of InitEncode and Encode together

ASSUME JetsonLifecycleConstants ==
    /\ IsFiniteSet(HwSessions) /\ HwSessions \subseteq Nat \ {0}
    /\ MainStreams \subseteq BOOLEAN
    /\ {MaxSize, MaxLives, MaxCalls} \subseteq Nat

VARIABLES
    mainStream, \* the stream has the shape of the main one, which keeps a standby
    lq,         \* the encoder queue: where it is, the size it works on
    lives,      \* InitEncode calls so far
    encodes,    \* frames given to Encode
    cb,         \* encoded_image_callback_: the life it was registered in; 0: null
    cbEpoch,    \* callback_epoch_
    inflight,   \* callback_inflight_
    gen,        \* encoder_generation_
    epoch,      \* session_epoch_
    released,   \* codec_released_
    relSeq,     \* release_sequence_
    defer,      \* deferred_release_: pending, sequence, deadline passed
    grace,      \* history: the last Release's grace period has passed
    active, standby,     \* encoder_, standby_encoder_; 0 for null
    maxed,      \* session_width_, session_height_
    stbyOn,     \* standby_enabled_
    retired,    \* retired_encoders_
    want,       \* standby_request_pending_
    wstop,      \* standby_worker_stop_
    wk,         \* the standby worker and its locals
    sess        \* the sessions, each with its capture thread

lifeVars == <<lq, lives, encodes, cb, cbEpoch, inflight, gen, epoch, released, relSeq,
              defer, grace, active, standby, maxed, stbyOn, retired, want, wstop, wk, sess>>
callbackState == <<cb, cbEpoch, inflight>>
releaseState == <<released, relSeq, defer, grace>>
encoderState == <<active, standby, maxed, stbyOn, retired>>
workerState == <<want, wstop, wk>>

NoFrame == [gen |-> 0, life |-> 0]
Quiet == [at |-> "idle", f |-> NoFrame, ep |-> 0, cb |-> 0]
NoSess == [st |-> "none", size |-> 0, pend |-> NoFrame, dq |-> Quiet]
NewSess(s) == [NoSess EXCEPT !.st = "live", !.size = s]
NoWork == [at |-> "none", kill |-> {}, stop |-> FALSE, create |-> FALSE, rel |-> FALSE, seq |-> 0,
           epoch |-> 0, size |-> 0, made |-> 0]

LifeInit ==
    /\ mainStream \in MainStreams
    /\ lq = [at |-> "off", size |-> 0]
    /\ lives = 0 /\ encodes = 0
    /\ cb = 0 /\ cbEpoch = 0 /\ inflight = 0
    /\ gen = 0 /\ epoch = 0
    /\ released = FALSE /\ relSeq = 0
    /\ defer = [on |-> FALSE, seq |-> 0, due |-> FALSE]
    /\ grace = FALSE
    /\ active = 0 /\ standby = 0 /\ maxed = 0 /\ stbyOn = FALSE
    /\ retired = {}
    /\ want = FALSE /\ wstop = TRUE
    /\ wk = NoWork
    /\ sess = [h \in HwSessions |-> NoSess]

\* Sessions are alike: the next one made is the first there is room for.
Unmade ==
    {h \in HwSessions : /\ sess[h].st = "none"
                        /\ \A k \in HwSessions : sess[k].st = "none" => h =< k}
Dying(victims, s) ==
    [h \in HwSessions |-> IF h \in victims THEN [s[h] EXCEPT !.st = "dying", !.pend = NoFrame]
                          ELSE s[h]]
At(p) == lq' = [lq EXCEPT !.at = p]

----------------------------------------------------------------------------
(* A session's capture thread: the lambda of Encode, and SendFrame. *)

FrameCoded(h) ==
    /\ sess[h].st = "live" /\ sess[h].dq.at = "idle" /\ sess[h].pend # NoFrame
    /\ sess' = [sess EXCEPT ![h].dq = [Quiet EXCEPT !.at = "check", !.f = sess[h].pend],
                            ![h].pend = NoFrame]
    /\ UNCHANGED <<lq, lives, encodes, callbackState, gen, epoch, releaseState,
                   encoderState, workerState>>

\* A frame of an older generation is dropped.
GenerationChecked(h) ==
    /\ sess[h].dq.at = "check"
    /\ sess' = [sess EXCEPT ![h].dq = IF @.f.gen = gen THEN [@ EXCEPT !.at = "send"] ELSE Quiet]
    /\ UNCHANGED <<lq, lives, encodes, callbackState, gen, epoch, releaseState,
                   encoderState, workerState>>

\* SendFrame copies the frame, with its type, size and QP, before it asks for
\* the callback; one with no data or no NAL unit in it goes no further.
SendFrame(h) ==
    /\ sess[h].dq.at = "send"
    /\ sess' = [sess EXCEPT ![h].dq = Quiet]
    /\ UNCHANGED <<lq, lives, encodes, callbackState, gen, epoch, releaseState,
                   encoderState, workerState>>

\* The end of BeginEncodeCallback, under its lock.
Enter(h, ep) ==
    IF ep = cbEpoch /\ cb # 0
    THEN /\ inflight' = 1
         /\ sess' = [sess EXCEPT ![h].dq = [@ EXCEPT !.at = "in", !.cb = cb]]
    ELSE /\ UNCHANGED inflight
         /\ sess' = [sess EXCEPT ![h].dq = Quiet]

\* BeginEncodeCallback: at once, or after the callback another thread is in.
BeginEncodeCallback(h) ==
    /\ sess[h].dq.at = "send"
    /\ IF inflight = 0 THEN Enter(h, cbEpoch)
       ELSE /\ sess' = [sess EXCEPT ![h].dq = [@ EXCEPT !.at = "wait", !.ep = cbEpoch]]
            /\ UNCHANGED inflight
    /\ UNCHANGED <<lq, lives, encodes, cb, cbEpoch, gen, epoch, releaseState,
                   encoderState, workerState>>

CallbackWaited(h) ==
    /\ sess[h].dq.at = "wait" /\ inflight = 0
    /\ Enter(h, sess[h].dq.ep)
    /\ UNCHANGED <<lq, lives, encodes, cb, cbEpoch, gen, epoch, releaseState,
                   encoderState, workerState>>

EndEncodeCallback(h) ==
    /\ sess[h].dq.at = "in"
    /\ inflight' = IF inflight > 0 THEN inflight - 1 ELSE inflight
    /\ sess' = [sess EXCEPT ![h].dq = Quiet]
    /\ UNCHANGED <<lq, lives, encodes, cb, cbEpoch, gen, epoch, releaseState,
                   encoderState, workerState>>

\* A session is destroyed once its thread is out of everything.
SessionGone(h) ==
    /\ sess[h].st = "dying" /\ sess[h].dq.at = "idle"
    /\ sess' = [sess EXCEPT ![h] = NoSess]
    /\ UNCHANGED <<lq, lives, encodes, callbackState, gen, epoch, releaseState,
                   encoderState, workerState>>

----------------------------------------------------------------------------
(* InitEncode and RegisterEncodeCompleteCallback. *)

\* Bound: lives, and calls altogether.
MayInit == lives < MaxLives /\ lives + encodes < MaxCalls

\* CancelDeferredRelease: codec_released_ first, then the sequence.
InitEncode(s) ==
    /\ lq.at = "off" /\ MayInit
    /\ lives' = lives + 1
    /\ released' = FALSE
    /\ lq' = [at |-> "cancel", size |-> s]
    /\ UNCHANGED <<encodes, callbackState, gen, epoch, relSeq, defer, grace, encoderState,
                   workerState, sess>>

CancelDeferredRelease ==
    /\ lq.at = "cancel"
    /\ relSeq' = relSeq + 1
    /\ defer' = [defer EXCEPT !.on = FALSE]
    /\ At("reuse")
    /\ UNCHANGED <<lives, encodes, callbackState, gen, epoch, released, grace, encoderState,
                   workerState, sess>>

\* ShouldEnableStandby: 16 by 10, within a rounding.
ShouldEnableStandby == mainStream

\* The largest configured resolution of the main stream's shape.
ResolveSessionResolution(s) == IF ShouldEnableStandby THEN MaxSize ELSE s

\* The session grows: no standby session made for less may be published.
Growth(s) == s > maxed
Grown(s) == maxed' = s /\ epoch' = epoch + 1 /\ standby' = 0

\* A session that is still there is kept; only its standby may be too small.
\* The size is switched with the next frame.
InitReuses ==
    /\ lq.at = "reuse" /\ active # 0
    /\ IF Growth(lq.size)
       THEN Grown(lq.size) /\ retired' = retired \cup ({standby} \ {0})
       ELSE UNCHANGED <<maxed, epoch, retired, standby>>
    /\ stbyOn' = ShouldEnableStandby
    /\ want' = (want \/ ShouldEnableStandby)
    /\ At("register")
    /\ UNCHANGED <<lives, encodes, callbackState, gen, releaseState, active, wstop, wk, sess>>

\* Otherwise the worker is stopped first.
InitStopsWorker ==
    /\ lq.at = "reuse" /\ active = 0
    /\ epoch' = epoch + 1
    /\ wstop' = TRUE /\ want' = FALSE
    /\ defer' = [defer EXCEPT !.on = FALSE]
    /\ At("stopWorker")
    /\ UNCHANGED <<lives, encodes, callbackState, gen, released, relSeq, grace, encoderState,
                   wk, sess>>

\* StopStandbyWorker has joined it; what is retired is destroyed here.
WorkerJoined ==
    /\ lq.at = "stopWorker" /\ wk.at = "none"
    /\ sess' = Dying((retired \cup {standby}) \ {0}, sess)
    /\ retired' = {} /\ standby' = 0
    /\ gen' = gen + 1
    /\ At("create")
    /\ UNCHANGED <<lives, encodes, callbackState, epoch, releaseState, active, maxed, stbyOn,
                   workerState>>

\* The new session, then StartStandbyWorker; without one the call fails.
InitCreates ==
    /\ lq.at = "create" /\ \A h \in HwSessions : sess[h].st # "dying"
    /\ maxed' = ResolveSessionResolution(lq.size)
    /\ stbyOn' = ShouldEnableStandby
    /\ gen' = gen + 1
    /\ \/ \E h \in Unmade :
             /\ active' = h
             /\ sess' = [sess EXCEPT ![h] = NewSess(lq.size)]
             /\ wstop' = FALSE
             /\ wk' = [NoWork EXCEPT !.at = "wait"]
             /\ want' = ShouldEnableStandby
             /\ At("register")
       \/ At("ready") /\ UNCHANGED <<active, sess, wstop, wk, want>>
    /\ UNCHANGED <<lives, encodes, callbackState, epoch, releaseState, standby, retired>>

RegisterEncodeCompleteCallback ==
    /\ lq.at = "register" /\ inflight = 0
    /\ cbEpoch' = cbEpoch + 1
    /\ cb' = lives
    /\ At("ready")
    /\ UNCHANGED <<lives, encodes, inflight, gen, epoch, releaseState, encoderState,
                   workerState, sess>>

----------------------------------------------------------------------------
(* Encode: EnsureEncoderForResolution, then EmplaceBuffer. *)

\* A new encoder h takes over and old, if any, is retired.
Takes(h, s, old) ==
    /\ active' = h
    /\ retired' = retired \cup (old \ {0})
    /\ sess' = [sess EXCEPT ![h] =
                  [(IF @.st = "none" THEN NewSess(s) ELSE @)
                     EXCEPT !.size = s, !.pend = [gen |-> gen', life |-> lives]]]

\* A frame for a session whose buffers are all in use is dropped.
Emplaces(h) ==
    sess' = IF sess[h].pend # NoFrame THEN sess
            ELSE [sess EXCEPT ![h].pend = [gen |-> gen, life |-> lives]]

Encode ==
    /\ lq.at = "ready" /\ cb # 0 /\ lives + encodes < MaxCalls
    /\ encodes' = encodes + 1

EncodeSame ==
    /\ Encode /\ active # 0
    /\ Emplaces(active)
    /\ UNCHANGED <<lq, lives, callbackState, gen, epoch, releaseState, encoderState, workerState>>

\* The active session is unhealthy, or there is none: a new one is created, or
\* cannot be.
EncodeCreates(s) ==
    /\ Encode
    /\ gen' = gen + 1
    /\ LET grows == active # 0 /\ Growth(s)
           old == {active} \cup (IF grows THEN {standby} ELSE {})
       IN /\ IF grows THEN Grown(s) ELSE UNCHANGED <<maxed, epoch, standby>>
          /\ want' = (want \/ (grows /\ ~wstop))
          /\ \/ \E h \in Unmade : Takes(h, s, old)
             \/ active' = 0 /\ retired' = retired \cup (old \ {0}) /\ UNCHANGED sess
    /\ UNCHANGED <<lq, lives, callbackState, releaseState, stbyOn, wstop, wk>>

\* A smaller frame: Reconfigure, in the running session.
EncodeDown(s) ==
    /\ Encode /\ active # 0 /\ s < sess[active].size
    /\ gen' = gen + 1
    /\ Takes(active, s, {})
    /\ UNCHANGED <<lq, lives, callbackState, epoch, releaseState, standby, maxed, stbyOn,
                   workerState>>

\* Reconfigure failed or cannot be: the standby session takes over.
EncodeStandby(s) ==
    /\ Encode /\ active # 0 /\ s # sess[active].size /\ ~Growth(s)
    /\ standby # 0
    /\ gen' = gen + 1
    /\ Takes(standby, s, {active})
    /\ standby' = 0
    /\ want' = (want \/ (stbyOn /\ ~wstop))
    /\ UNCHANGED <<lq, lives, callbackState, epoch, releaseState, maxed, stbyOn, wstop, wk>>

\* No standby session takes over: downwards a replacement is made at once,
\* upwards the frame is dropped and a standby asked for, for two seconds.
EncodeWithoutStandby(s) ==
    /\ Encode /\ active # 0 /\ s # sess[active].size
    /\ gen' = gen + 1
    /\ IF Growth(s) THEN Grown(s) ELSE standby' = 0 /\ UNCHANGED <<maxed, epoch>>
    /\ \/ /\ s < sess[active].size
          /\ \E h \in Unmade : Takes(h, s, {active, standby})
          /\ want' = (want \/ (stbyOn /\ ~wstop))
       \/ /\ retired' = retired \cup ({standby} \ {0})
          /\ want' = (want \/ (s > sess[active].size /\ ~wstop))
          /\ UNCHANGED <<active, sess>>
    /\ UNCHANGED <<lq, lives, callbackState, releaseState, stbyOn, wstop, wk>>

----------------------------------------------------------------------------
(* Release, and the destructor. *)

Cleared ==
    /\ epoch' = epoch + 1
    /\ stbyOn' = FALSE
    /\ gen' = gen + 1
    /\ cbEpoch' = cbEpoch + 1
    /\ cb' = 0

ReleaseClears(destroy) ==
    /\ lq.at = "ready" \/ (destroy /\ lq.at = "off" /\ ~MayInit)
    /\ Cleared
    /\ IF destroy THEN released' = TRUE /\ relSeq' = relSeq + 1
                  ELSE UNCHANGED <<released, relSeq>>
    /\ At(IF destroy THEN "destroyWait" ELSE "releaseWait")
    /\ UNCHANGED <<lives, encodes, inflight, defer, grace, active, standby, maxed, retired,
                   workerState, sess>>

\* Mutant: Release does not wait for the thread in the callback.
WaitedNot == TRUE

\* ClearEncodeCallbackAndWait.
CallbackLeft == inflight = 0

ScheduleDeferredRelease ==
    /\ released' = TRUE
    /\ relSeq' = relSeq + 1
    /\ defer' = [on |-> TRUE, seq |-> relSeq + 1, due |-> FALSE]
    /\ grace' = FALSE
    /\ want' = FALSE

ReleaseReturns ==
    /\ lq.at = "releaseWait" /\ CallbackLeft
    /\ ScheduleDeferredRelease
    /\ At("off")
    /\ UNCHANGED <<lives, encodes, callbackState, gen, epoch, encoderState, wstop, wk, sess>>

\* Release called from within the callback does not wait for itself; the
\* callback has given up its object then (cb of the thread is 0).
CallbackReleases(h) ==
    /\ sess[h].dq.at = "in" /\ lq.at = "ready"
    /\ Cleared
    /\ ScheduleDeferredRelease
    /\ At("off")
    /\ sess' = [sess EXCEPT ![h].dq.cb = 0]
    /\ UNCHANGED <<lives, encodes, inflight, active, standby, maxed, retired, wstop, wk>>

\* ReleaseHardwareResources: the worker is stopped, then the sessions go.
DestroyStopsWorker ==
    /\ lq.at = "destroyWait" /\ CallbackLeft
    /\ wstop' = TRUE /\ want' = FALSE
    /\ defer' = [defer EXCEPT !.on = FALSE]
    /\ At("destroyJoin")
    /\ UNCHANGED <<lives, encodes, callbackState, gen, epoch, released, relSeq, grace,
                   encoderState, wk, sess>>

DestroySessions ==
    /\ lq.at = "destroyJoin" /\ wk.at = "none"
    /\ sess' = Dying((retired \cup {active, standby}) \ {0}, sess)
    /\ retired' = {} /\ active' = 0 /\ standby' = 0 /\ maxed' = 0
    /\ At("destroyed")
    /\ UNCHANGED <<lives, encodes, callbackState, gen, epoch, releaseState, stbyOn, workerState>>

\* kDeferredReleaseGraceMs after the last Release.
GracePasses ==
    /\ released /\ ~grace
    /\ grace' = TRUE
    /\ defer' = [defer EXCEPT !.due = TRUE]
    /\ UNCHANGED <<lq, lives, encodes, callbackState, gen, epoch, released, relSeq,
                   encoderState, workerState, sess>>

----------------------------------------------------------------------------
(* StandbyWorkerLoop. *)

\* Mutant: only requests and retired sessions wake the worker.
WokenByRequests == wstop \/ want \/ retired # {}

Woken == wstop \/ want \/ retired # {} \/ (defer.on /\ defer.due)

\* What is to be done is taken under the lock; retired sessions are destroyed.
WorkerWakes ==
    /\ wk.at = "wait" /\ Woken
    /\ LET rel == ~wstop /\ defer.on /\ defer.due
       IN /\ wk' = [NoWork EXCEPT !.at = "destroy", !.kill = retired, !.stop = wstop,
                                  !.create = want /\ ~wstop, !.rel = rel, !.seq = IF rel THEN defer.seq ELSE 0]
          /\ defer' = IF rel THEN [defer EXCEPT !.on = FALSE] ELSE defer
    /\ want' = FALSE
    /\ sess' = Dying(retired, sess)
    /\ retired' = {}
    /\ UNCHANGED <<lq, lives, encodes, callbackState, gen, epoch, released, relSeq, grace,
                   active, standby, maxed, stbyOn, wstop>>

\* The first look at codec_released_ and the sequence, without the lock.
StillReleased == released /\ relSeq = wk.seq

WorkerDestroyed ==
    /\ wk.at = "destroy" /\ \A h \in wk.kill : sess[h].st # "dying"
    /\ wk' = IF wk.stop THEN NoWork
             ELSE [wk EXCEPT !.at = IF wk.rel /\ StillReleased THEN "free" ELSE "look",
                             !.kill = {}]
    /\ UNCHANGED <<lq, lives, encodes, callbackState, gen, epoch, releaseState, encoderState,
                   want, wstop, sess>>

\* Mutant: the second look is left out.
FreeUnchecked ==
    /\ sess' = Dying({active, standby} \ {0}, sess)
    /\ active' = 0 /\ standby' = 0 /\ maxed' = 0
    /\ wk' = [wk EXCEPT !.at = "freeing", !.kill = {active, standby} \ {0}]

\* The second look, under encoder_mutex_, decides.
FreeIfReleased ==
    /\ IF StillReleased
       THEN /\ sess' = Dying({active, standby} \ {0}, sess)
            /\ active' = 0 /\ standby' = 0 /\ maxed' = 0
            /\ wk' = [wk EXCEPT !.at = "freeing", !.kill = {active, standby} \ {0}]
       ELSE wk' = [wk EXCEPT !.at = "freeing"] /\ UNCHANGED <<sess, active, standby, maxed>>

WorkerFrees ==
    /\ wk.at = "free"
    /\ FreeIfReleased
    /\ UNCHANGED <<lq, lives, encodes, callbackState, gen, epoch, releaseState, stbyOn,
                   retired, want, wstop>>

WorkerFreed ==
    /\ wk.at = "freeing" /\ \A h \in wk.kill : sess[h].st # "dying"
    /\ wk' = [wk EXCEPT !.at = "look", !.kill = {}]
    /\ UNCHANGED <<lq, lives, encodes, callbackState, gen, epoch, releaseState, encoderState,
                   want, wstop, sess>>

\* Prewarm: what to make is read under encoder_mutex_.
WorkerLooks ==
    /\ wk.at = "look"
    /\ wk' = IF wk.create /\ standby = 0 /\ ~released
             THEN [wk EXCEPT !.at = "warm", !.size = maxed, !.epoch = epoch]
             ELSE [NoWork EXCEPT !.at = "wait"]
    /\ UNCHANGED <<lq, lives, encodes, callbackState, gen, epoch, releaseState, encoderState,
                   want, wstop, sess>>

\* CreateEncoder and WarmupEncoder, for up to a second, with no lock held.
WorkerWarms ==
    /\ wk.at = "warm"
    /\ \/ \E h \in Unmade :
             /\ sess' = [sess EXCEPT ![h] = NewSess(wk.size)]
             /\ wk' = [wk EXCEPT !.at = "publish", !.made = h]
       \/ wk' = [NoWork EXCEPT !.at = "wait"] /\ UNCHANGED sess
    /\ UNCHANGED <<lq, lives, encodes, callbackState, gen, epoch, releaseState, encoderState,
                   want, wstop>>

\* Published unless the encoder was released, grew or has a standby by now.
WorkerPublishes ==
    /\ wk.at = "publish"
    /\ IF released \/ wk.epoch # epoch \/ standby # 0
       THEN sess' = Dying({wk.made}, sess) /\ UNCHANGED standby
       ELSE standby' = wk.made /\ UNCHANGED sess
    /\ wk' = [NoWork EXCEPT !.at = "wait"]
    /\ UNCHANGED <<lq, lives, encodes, callbackState, gen, epoch, releaseState, active, maxed,
                   stbyOn, retired, want, wstop>>

----------------------------------------------------------------------------

CaptureThreads(h) ==
    \/ FrameCoded(h) \/ GenerationChecked(h) \/ SendFrame(h) \/ BeginEncodeCallback(h)
    \/ CallbackWaited(h) \/ EndEncodeCallback(h) \/ SessionGone(h)

\* An operation of WebRTC that has begun.
QueueGoesOn ==
    \/ CancelDeferredRelease \/ InitStopsWorker \/ WorkerJoined
    \/ InitReuses \/ InitCreates \/ RegisterEncodeCompleteCallback
    \/ ReleaseReturns \/ DestroyStopsWorker \/ DestroySessions

StandbyWorker ==
    \/ WorkerWakes \/ WorkerDestroyed \/ WorkerFrees \/ WorkerFreed
    \/ WorkerLooks \/ WorkerWarms \/ WorkerPublishes

LifeNext ==
    /\ \/ \E h \in HwSessions : CaptureThreads(h) \/ CallbackReleases(h)
       \/ \E s \in 1 .. MaxSize :
             \/ InitEncode(s) \/ EncodeCreates(s) \/ EncodeDown(s) \/ EncodeStandby(s)
             \/ EncodeWithoutStandby(s)
       \/ EncodeSame
       \/ \E d \in BOOLEAN : ReleaseClears(d)
       \/ QueueGoesOn \/ StandbyWorker \/ GracePasses
    /\ UNCHANGED mainStream

LifeSpec == LifeInit /\ [][LifeNext]_<<mainStream, lifeVars>>

\* Threads run, callbacks return and the grace period ends.
LifeFairness ==
    /\ \A h \in HwSessions : WF_lifeVars(CaptureThreads(h))
    /\ WF_lifeVars(StandbyWorker) /\ WF_lifeVars(GracePasses) /\ WF_lifeVars(QueueGoesOn)

LifeFairSpec == LifeSpec /\ LifeFairness

----------------------------------------------------------------------------

In == {h \in HwSessions : sess[h].dq.at = "in"}

\* One thread at a time is in WebRTC's callback, and once Release has returned
\* on the encoder queue none is: the threads of active, retired and standby
\* sessions can all be about to enter it, and WebRTC may destroy its object
\* then.
CallbackLease ==
    /\ Cardinality(In) =< 1
    /\ \A h \in In : sess[h].dq.cb = cb \/ lq.at \in {"releaseWait", "destroyWait"}

\* The worker frees the hardware only of an encoder that is released, after the
\* grace period of its last Release: never of one that was initialised again
\* meanwhile, nor early after a second Release.
GraceKept ==
    [][WorkerFrees /\ active' # active => released /\ grace]_lifeVars

\* An encoder that stays released gives its hardware back.
HardwareFreed ==
    lq.at = "off" ~> (lq.at # "off" \/ \A h \in HwSessions : sess[h].st = "none")
=============================================================================
