---------------------------- MODULE EncoderRates ----------------------------
(***************************************************************************)
(* The bit and frame rates WebRTC asks of the hardware encoders             *)
(* (vtsrtc/src/video/encode): the Jetson encoder, whose sessions may refuse *)
(* a rate, are asked again after a pause and are replaced by a standby      *)
(* session made for an earlier rate; and the GStreamer one, which sets the  *)
(* rate of its running pipeline or of the next.                             *)
(*                                                                          *)
(* External: WebRTC's rate controller and the hardware.  Rates are ranks.   *)
(***************************************************************************)
EXTENDS Naturals

CONSTANTS
    Rates,          \* bit rates and frame rates WebRTC asks for: 1 .. Rates
    RateCap,        \* bitrate_cap_bps_
    RateFloor,      \* bitrate_floor_bps_ of the GStreamer encoder
    Vbr,            \* the Jetson's rate control is variable: it has a peak rate too
    MaxRateCalls,   \* bound: calls of SetRates
    MaxRefusals,    \* bound: rates the hardware refuses
    MaxTakeovers    \* bound: standby sessions that take over

ASSUME EncoderRatesConstants ==
    /\ {Rates, RateCap, RateFloor, MaxRateCalls, MaxRefusals, MaxTakeovers} \subseteq Nat
    /\ Rates >= 1 /\ RateCap >= 1
    /\ Vbr \in BOOLEAN

VARIABLES
    bitrate, fps,     \* bitrate_, fps_
    settled,          \* a second has passed since fps_ changed
    hwFps,            \* hardware_framerate_
    hw,               \* the active and the standby session of the Jetson encoder
    snap,             \* what the standby worker makes the next session for
    pipe,             \* the GStreamer pipeline: running, its rate
    rateCalls, refusals, takeovers

rateVars == <<bitrate, fps, settled, hwFps, hw, snap, pipe, rateCalls, refusals, takeovers>>

\* A session: the rates its device has, and which of them it refused lately.
Session(r, f) == [made |-> TRUE, rate |-> r, peak |-> r, fps |-> f,
                  ratePause |-> FALSE, fpsPause |-> FALSE]
NoHwSession == [Session(1, 1) EXCEPT !.made = FALSE]
Capped(b) == IF b > RateCap THEN RateCap ELSE b

RatesInit ==
    /\ bitrate = 1 /\ fps = 1 /\ settled = TRUE /\ hwFps = 1
    /\ hw = [s \in {"active", "standby"} |-> IF s = "active" THEN Session(1, 1) ELSE NoHwSession]
    /\ snap = NoHwSession
    /\ pipe = [up |-> FALSE, rate |-> 1]
    /\ rateCalls = 0 /\ refusals = 0 /\ takeovers = 0

----------------------------------------------------------------------------
(* JetsonEncoder: one session. *)

\* SetBitrate: not within the pause after a refusal; the bit rate first, then
\* the peak rate that belongs to it.
SetBitrate(e, b, no) ==
    CASE e.ratePause -> e
      [] ~e.ratePause /\ e.rate # b /\ no = "rate" -> [e EXCEPT !.ratePause = TRUE]
      [] ~e.ratePause /\ Vbr /\ e.peak # b /\ no = "peak"
             -> [e EXCEPT !.rate = b, !.ratePause = TRUE]
      [] OTHER -> [e EXCEPT !.rate = b, !.peak = b]

SetFramerate(e, f, no) ==
    IF e.fpsPause \/ e.fps = f THEN e
    ELSE IF no = "fps" THEN [e EXCEPT !.fpsPause = TRUE] ELSE [e EXCEPT !.fps = f]

\* ApplyRatesToEncoder: the frame rate follows once it has been steady.
SteadyFps(f) == IF settled' THEN f ELSE hwFps
Applied(e, b, f, no) ==
    IF e.made THEN SetFramerate(SetBitrate(e, b, no), SteadyFps(f), no) ELSE e

\* The hardware takes what it is asked for, or refuses one of the rates.
Refusals == {"none", "rate", "peak", "fps"}
Answer(no) ==
    /\ no = "none" \/ refusals < MaxRefusals
    /\ refusals' = IF no = "none" THEN refusals ELSE refusals + 1

----------------------------------------------------------------------------
(* JetsonH264EncoderImpl. *)

\* The same rates again are not applied again.
SetRates(b, f, no) ==
    /\ rateCalls < MaxRateCalls
    /\ rateCalls' = rateCalls + 1
    /\ bitrate' = Capped(b) /\ fps' = f
    /\ settled' = (settled /\ f = fps)
    /\ Answer(no)
    /\ IF bitrate' = bitrate /\ f = fps THEN UNCHANGED <<hw, hwFps>>
       ELSE /\ hw' = [s \in DOMAIN hw |-> Applied(hw[s], Capped(b), f, no)]
            /\ hwFps' = SteadyFps(f)
    /\ UNCHANGED <<snap, pipe, takeovers>>

\* Mutant: a frame for the session in use does not apply the rates.
EncodeOnly(no) ==
    /\ Answer(no)
    /\ UNCHANGED <<bitrate, fps, settled, hwFps, hw, snap, pipe, rateCalls, takeovers>>

\* EnsureEncoderForResolution, with every frame: the session in use is asked
\* again for what it refused.
EncodeFrame(no) ==
    /\ Answer(no)
    /\ UNCHANGED settled
    /\ hw' = [hw EXCEPT !["active"] = Applied(@, bitrate, fps, no)]
    /\ hwFps' = SteadyFps(fps)
    /\ UNCHANGED <<bitrate, fps, snap, pipe, rateCalls, takeovers>>

\* The standby worker reads the rates, makes a session for them and publishes
\* it; in between they may change.
StandbyBegins ==
    /\ ~hw["standby"].made /\ ~snap.made /\ takeovers < MaxTakeovers
    /\ snap' = Session(bitrate, hwFps)
    /\ UNCHANGED <<bitrate, fps, settled, hwFps, hw, pipe, rateCalls, refusals, takeovers>>

StandbyPublished ==
    /\ snap.made
    /\ hw' = [hw EXCEPT !["standby"] = snap]
    /\ snap' = NoHwSession
    /\ UNCHANGED <<bitrate, fps, settled, hwFps, pipe, rateCalls, refusals, takeovers>>

\* A frame of another size: the standby session takes over, told the rates.
StandbyTakesOver(no) ==
    /\ hw["standby"].made
    /\ takeovers' = takeovers + 1
    /\ Answer(no)
    /\ UNCHANGED settled
    /\ hw' = [active |-> Applied(hw["standby"], bitrate, fps, no), standby |-> NoHwSession]
    /\ hwFps' = SteadyFps(fps)
    /\ UNCHANGED <<bitrate, fps, snap, pipe, rateCalls>>

\* 100 ms after a refused bit rate, a second after a refused frame rate.
PauseEnds(s) ==
    /\ hw[s].ratePause \/ hw[s].fpsPause
    /\ hw' = [hw EXCEPT ![s].ratePause = FALSE, ![s].fpsPause = FALSE]
    /\ UNCHANGED <<bitrate, fps, settled, hwFps, snap, pipe, rateCalls, refusals, takeovers>>

FpsSettles ==
    /\ ~settled
    /\ settled' = TRUE
    /\ UNCHANGED <<bitrate, fps, hwFps, hw, snap, pipe, rateCalls, refusals, takeovers>>

----------------------------------------------------------------------------
(* RaspH264EncoderImpl; it keeps the same two rates. *)

\* The running pipeline is told of a new bit rate; without one it waits.
RaspSetRates(b, f) ==
    /\ rateCalls < MaxRateCalls
    /\ rateCalls' = rateCalls + 1
    /\ bitrate' = (IF Capped(b) < RateFloor THEN RateFloor ELSE Capped(b)) /\ fps' = f
    /\ pipe' = IF pipe.up /\ bitrate' # bitrate THEN [pipe EXCEPT !.rate = bitrate'] ELSE pipe
    /\ UNCHANGED <<settled, hwFps, hw, snap, refusals, takeovers>>

\* LaunchPipelineLocked sets the rate of the pipeline it starts, or fails.
PipelineLaunched ==
    /\ ~pipe.up
    /\ pipe' \in {[up |-> TRUE, rate |-> bitrate], pipe}
    /\ UNCHANGED <<bitrate, fps, settled, hwFps, hw, snap, rateCalls, refusals, takeovers>>

PipelineDestroyed ==
    /\ pipe.up /\ takeovers < MaxTakeovers
    /\ takeovers' = takeovers + 1
    /\ pipe' = [pipe EXCEPT !.up = FALSE]
    /\ UNCHANGED <<bitrate, fps, settled, hwFps, hw, snap, rateCalls, refusals>>

----------------------------------------------------------------------------

JetsonFrames == \E no \in Refusals : EncodeFrame(no)

TimePasses == FpsSettles \/ \E s \in DOMAIN hw : PauseEnds(s)

JetsonRates ==
    \/ \E b, f \in 1 .. Rates, no \in Refusals : SetRates(b, f, no)
    \/ JetsonFrames \/ StandbyBegins \/ StandbyPublished
    \/ \E no \in Refusals : StandbyTakesOver(no)
    \/ TimePasses

RaspRates ==
    \/ \E b, f \in 1 .. Rates : RaspSetRates(b, f)
    \/ PipelineLaunched \/ PipelineDestroyed

----------------------------------------------------------------------------

\* What the encoder runs at once nothing changes any more.
JetsonAtRate == hw["active"].rate = bitrate /\ (Vbr => hw["active"].peak = bitrate)
                /\ hw["active"].fps = fps
RaspAtRate == pipe.up => pipe.rate = bitrate
=============================================================================
