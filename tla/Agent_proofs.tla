------------------------------ MODULE Agent_proofs ------------------------------
(***************************************************************************)
(* Proofs about the parts an RTC agent is made of: its audio devices, its  *)
(* peer connections and its statistics, for every number of sample blocks, *)
(* callers, peers, connections and reports.                                *)
(***************************************************************************)
EXTENDS AudioDevices, Statistics, PeerConnections, SequenceTheorems, FiniteSetTheorems, TLAPS

-----------------------------------------------------------------------------
(* AudioPlayback and the external audio device.                             *)

\* running_ is down from the first line of Stop until the new stream is there,
\* and it was down before the mutex was last taken to close the old one.
Playing ==
    /\ playback \in BOOLEAN
    /\ opener # "idle" => ~playback
    /\ StreamNotShared

LEMMA PlayingStep == ASSUME Playing, PlaybackNext PROVE Playing'
<1>1. CASE \E then \in {"closing", "stopping"} : PlaybackStops(then)
  BY <1>1 DEF PlaybackStops, Playing, StreamNotShared
<1>2. CASE PlaybackCloses
  BY <1>2 DEF PlaybackCloses, Playing, StreamNotShared
<1>5. CASE PlaybackOpens
  <2>1. opener' = "idle" /\ (playback' = TRUE \/ playback' = playback)
    BY <1>5 DEF PlaybackOpens
  <2> QED BY <2>1 DEF Playing, StreamNotShared
<1>3. CASE PushChecks \/ PushLocks \/ PushFrame
  BY <1>3 DEF PushChecks, PushLocks, PushGoesOn, PushFrame, Playing, StreamNotShared
<1>4. CASE PlaybackClears \/ SpeakerPlays
  BY <1>4 DEF PlaybackClears, SpeakerPlays, Playing, StreamNotShared
<1> QED BY <1>1, <1>2, <1>3, <1>4, <1>5 DEF PlaybackNext

\* A thread that plays is the one playout_thread_ has; one that was told to end
\* is joined by the caller that keeps the others out.
Controls == {"stop", "terminate"}
Joining ==
    /\ playing \in BOOLEAN /\ overwritten = FALSE
    /\ caller \in [Callers -> {"idle", "stop", "terminate", "reset"}]
    /\ playoutThread \in {"none", "running", "exited"}
    /\ playing => playoutThread = "running"
    /\ playing => ControlFree
    /\ \A c, d \in Callers : caller[c] \in Controls /\ caller[d] \in Controls => c = d
    /\ ControlFree /\ ~playing => playoutThread = "none"

LEMMA JoiningStep == ASSUME Joining, AdmNext PROVE Joining'
<1>k. Joining
  OBVIOUS
<1>1. CASE AdmInit
  BY <1>1 DEF AdmInit, Joining, ControlFree
<1>2. CASE PlayoutLeaves
  BY <1>2 DEF PlayoutLeaves, Joining, ControlFree
<1>3. ASSUME NEW c \in Callers, StartPlayout(c) PROVE Joining'
  BY <1>3 DEF StartPlayout, Joining, ControlFree
<1>4. ASSUME NEW c \in Callers, NEW then \in {"stop", "terminate"}, StopPlayout(c, then) PROVE Joining'
  <2>1. /\ ControlFree /\ playing' = FALSE /\ caller' = [caller EXCEPT ![c] = then]
        /\ UNCHANGED <<playoutThread, overwritten>>
    BY <1>4 DEF StopPlayout
  <2>2. caller' \in [Callers -> {"idle", "stop", "terminate", "reset"}] /\ caller'[c] \in Controls
    BY <1>k, <2>1 DEF Joining, Controls
  <2>3. \A d \in Callers \ {c} : caller'[d] \notin Controls
    BY <1>k, <2>1 DEF Joining, ControlFree, Controls
  <2> QED BY <1>k, <2>1, <2>2, <2>3 DEF Joining, ControlFree, Controls
<1>5. ASSUME NEW c \in Callers, PlayoutJoined(c) PROVE Joining'
  <2>1. /\ caller[c] \in Controls /\ playoutThread' = "none"
        /\ \E at \in {"idle", "reset"} : caller' = [caller EXCEPT ![c] = at]
        /\ UNCHANGED <<playing, overwritten>>
    BY <1>5 DEF PlayoutJoined, Controls
  <2>2. ~playing
    BY <1>k, <2>1 DEF Joining, ControlFree, Controls
  <2>3. /\ caller' \in [Callers -> {"idle", "stop", "terminate", "reset"}]
        /\ \A d \in Callers : caller'[d] \notin Controls
    BY <1>k, <2>1 DEF Joining, Controls
  <2> QED BY <1>k, <2>1, <2>2, <2>3 DEF Joining, ControlFree, Controls
<1>6. ASSUME NEW c \in Callers, TerminateResets(c) PROVE Joining'
  <2>1. /\ caller[c] = "reset" /\ caller' = [caller EXCEPT ![c] = "idle"]
        /\ UNCHANGED <<playing, playoutThread, overwritten>>
    BY <1>6 DEF TerminateResets
  <2>2. /\ caller' \in [Callers -> {"idle", "stop", "terminate", "reset"}]
        /\ \A d \in Callers : caller'[d] = caller[d] \/ (d = c /\ caller'[d] = "idle")
    BY <1>k, <2>1 DEF Joining
  <2>3. ControlFree' <=> ControlFree
    BY <2>1, <2>2 DEF ControlFree
  <2>4. \A d \in Callers : caller'[d] \in Controls => caller[d] \in Controls
    BY <2>2 DEF Controls
  <2> QED BY <1>k, <2>1, <2>2, <2>3, <2>4 DEF Joining
<1> QED BY <1>1, <1>2, <1>3, <1>4, <1>5, <1>6 DEF AdmNext

\* The capture moves nothing of either.
LEMMA ApartStep == Playing /\ Joining /\ [AudioNext]_audioVars => (Playing /\ Joining)'
<1> SUFFICES ASSUME Playing, Joining, [AudioNext]_audioVars PROVE (Playing /\ Joining)'
  OBVIOUS
<1>p. ASSUME UNCHANGED playbackVars PROVE Playing'
  BY <1>p DEF playbackVars, Playing, StreamNotShared
<1>j. ASSUME UNCHANGED admVars PROVE Joining'
  BY <1>j DEF admVars, Joining, ControlFree
<1>1. CASE CaptureNext
  <2>1. UNCHANGED <<playbackVars, admVars>>
    BY <1>1 DEF CaptureNext, MicRecords, CaptureStart, CaptureStop, CaptureJoined, CaptureDiscards,
       CaptureReads, CaptureGives, CaptureLeaves
  <2> QED BY <1>p, <1>j, <2>1
<1>2. CASE PlaybackNext
  <2>1. UNCHANGED admVars
    BY <1>2 DEF PlaybackNext, PlaybackStops, PlaybackCloses, PlaybackOpens, PushChecks, PushLocks,
       PushFrame, PlaybackClears, SpeakerPlays
  <2> QED BY <1>2, <1>j, <2>1, PlayingStep
<1>3. CASE AdmNext
  <2>1. UNCHANGED playbackVars
    BY <1>3 DEF AdmNext, AdmInit, PlayoutLeaves, StartPlayout, PlayoutJoined, TerminateResets,
       StopPlayout
  <2> QED BY <1>3, <1>p, <2>1, JoiningStep
<1>4. CASE UNCHANGED audioVars
  BY <1>4, <1>p, <1>j DEF audioVars
<1> QED BY <1>1, <1>2, <1>3, <1>4 DEF AudioNext

\* AudioPlayback's Start, Stop and PushFrame, and StartPlayout and StopPlayout of
\* the external audio device, called from any number of threads: no PushFrame
\* works on a stream that Start replaces, and no playout thread is assigned over.
THEOREM AudioThreadsStayApart == AudioSpec => []AudioThreadsApart
<1>1. AudioInit => Playing /\ Joining
  BY DEF AudioInit, Playing, Joining, StreamNotShared, ControlFree, Controls
<1>2. Playing /\ Joining /\ [AudioNext]_audioVars => (Playing /\ Joining)'
  BY ApartStep
<1>3. Playing /\ Joining => AudioThreadsApart
  BY DEF Playing, Joining, AudioThreadsApart, PlayoutThreadJoined
<1> QED BY <1>1, <1>2, <1>3, PTL DEF AudioSpec

-----------------------------------------------------------------------------
(* AudioCapture: blocks in a row.                                           *)

\* s is the run of blocks that ends before block r.
RunTo(s, r) == \A i \in 1 .. Len(s) : s[i] = r - Len(s) + i - 1

LEMMA RunOfOne ==
    ASSUME NEW s \in Seq(Int), NEW r \in Int, RunTo(s, r)
    PROVE  Append(s, r) \in Seq(Int) /\ Len(Append(s, r)) = Len(s) + 1 /\ RunTo(Append(s, r), r + 1)
<1>1. PICK n \in Nat : n = Len(s)
  BY LenProperties
<1> DEFINE t == Append(s, r)
<1>2. t \in Seq(Int) /\ Len(t) = n + 1 /\ t[n + 1] = r /\ \A i \in 1 .. n : t[i] = s[i]
  BY <1>1
<1> HIDE DEF t
<1>3. \A i \in 1 .. n : s[i] = r - n + i - 1
  BY <1>1 DEF RunTo
<1>4. \A i \in 1 .. n + 1 : t[i] = (r + 1) - (n + 1) + i - 1
  <2> TAKE i \in 1 .. n + 1
  <2>1. CASE i = n + 1
    BY <1>2, <2>1
  <2>2. CASE i # n + 1
    <3>1. i \in 1 .. n
      BY <1>1, <2>2
    <3> QED BY <1>1, <1>2, <1>3, <3>1
  <2> QED BY <2>1, <2>2
<1>5. RunTo(t, r + 1)
  BY <1>2, <1>4 DEF RunTo
<1> QED BY <1>1, <1>2, <1>5 DEF t

\* The rest of a run, from any block on.
LEMMA RunOfRest ==
    ASSUME NEW s \in Seq(Int), NEW r \in Int, RunTo(s, r), NEW a \in Nat \ {0}
    PROVE  LET t == SubSeq(s, a, Len(s))
           IN  t \in Seq(Int) /\ RunTo(t, r) /\ (a =< Len(s) + 1 => Len(t) = Len(s) + 1 - a)
<1>1. PICK n \in Nat : n = Len(s)
  BY LenProperties
<1> DEFINE t == SubSeq(s, a, n)  k == IF a =< n + 1 THEN n + 1 - a ELSE 0
<1>k. k \in Nat
  BY <1>1
<1>2. t \in Seq(Int) /\ Len(t) = k /\ \A i \in 1 .. k : t[i] = s[a + i - 1]
  BY <1>1
<1>3. \A i \in 1 .. n : s[i] = r - n + i - 1
  BY <1>1 DEF RunTo
<1>4. \A i \in 1 .. k : t[i] = r - k + i - 1
  <2> TAKE i \in 1 .. k
  <2>1. a + i - 1 \in 1 .. n /\ k = n + 1 - a
    BY <1>1
  <2>2. t[i] = r - n + (a + i - 1) - 1
    BY <1>2, <1>3, <2>1
  <2> HIDE DEF k, t
  <2> QED BY <1>1, <2>1, <2>2
<1>5. a =< n + 1 => k = n + 1 - a
  OBVIOUS
<1> HIDE DEF t, k
<1>6. RunTo(t, r)
  BY <1>2, <1>4 DEF RunTo
<1>7. t = SubSeq(s, a, Len(s))
  BY <1>1 DEF t
<1> QED BY <1>1, <1>2, <1>5, <1>6, <1>7

LEMMA RunOfTwo ==
    ASSUME NEW s \in Seq(Int), NEW t \in Seq(Int), NEW r \in Int, RunTo(s, r - Len(t)), RunTo(t, r)
    PROVE  s \o t \in Seq(Int) /\ Len(s \o t) = Len(s) + Len(t) /\ RunTo(s \o t, r)
<1>1. PICK m \in Nat, n \in Nat : m = Len(s) /\ n = Len(t)
  BY LenProperties
<1> DEFINE u == s \o t
<1>2. /\ u \in Seq(Int) /\ Len(u) = m + n
      /\ \A i \in 1 .. m + n : u[i] = IF i =< m THEN s[i] ELSE t[i - m]
  BY <1>1
<1> HIDE DEF u
<1>3. /\ \A i \in 1 .. m : s[i] = (r - n) - m + i - 1
      /\ \A i \in 1 .. n : t[i] = r - n + i - 1
  BY <1>1 DEF RunTo
<1>4. \A i \in 1 .. m + n : u[i] = r - (m + n) + i - 1
  <2> TAKE i \in 1 .. m + n
  <2>1. CASE i =< m
    <3>1. i \in 1 .. m
      BY <1>1, <2>1
    <3>2. u[i] = (r - n) - m + i - 1
      BY <1>2, <1>3, <2>1, <3>1
    <3> QED BY <1>1, <3>1, <3>2
  <2>2. CASE ~(i =< m)
    <3>1. i - m \in 1 .. n
      BY <1>1, <2>2
    <3>2. u[i] = r - n + (i - m) - 1
      BY <1>2, <1>3, <2>2, <3>1
    <3> QED BY <1>1, <3>2
  <2> QED BY <2>1, <2>2
<1>5. RunTo(u, r)
  BY <1>2, <1>4 DEF RunTo
<1> QED BY <1>1, <1>2, <1>5 DEF u

\* A frame goes out, the rest stays.
LEMMA RunOfFirst ==
    ASSUME NEW s \in Seq(Int), NEW r \in Int, RunTo(s, r), NEW n \in Nat \ {0}, n =< Len(s)
    PROVE  LET f == SubSeq(s, 1, n)
           IN  f \in Seq(Int) /\ Len(f) = n /\ RunTo(f, r - (Len(s) - n))
<1>1. PICK m \in Nat : m = Len(s)
  BY LenProperties
<1> DEFINE f == SubSeq(s, 1, n)
<1>2. f \in Seq(Int) /\ Len(f) = n /\ \A i \in 1 .. n : f[i] = s[i]
  BY <1>1
<1>3. \A i \in 1 .. m : s[i] = r - m + i - 1
  BY <1>1 DEF RunTo
<1>4. \A i \in 1 .. n : f[i] = (r - (m - n)) - n + i - 1
  BY <1>1, <1>2, <1>3
<1> HIDE DEF f
<1>5. RunTo(f, r - (m - n))
  BY <1>2, <1>4 DEF RunTo
<1> QED BY <1>1, <1>2, <1>5 DEF f

-----------------------------------------------------------------------------
(* AudioCapture: what is taken over follows on what was given out.          *)

\* The first block that was not given out yet, or will not be.
Unheard == IF capturer = "none" THEN recorded ELSE recorded - Len(mic) - Len(pendingPcm)

Taking ==
    /\ mic \in Seq(Int) /\ pendingPcm \in Seq(Int) /\ recorded \in Nat
    /\ RunTo(mic, recorded)
    /\ capturer = "none" => mic = <<>>
    /\ capturer # "none" => RunTo(pendingPcm, recorded - Len(mic))

Given ==
    /\ frames \in Seq(Seq(Int)) /\ FramesUnbroken
    /\ frames # <<>> => frames[Len(frames)][PacketBlocks] < Unheard
    /\ \A i \in 1 .. Len(frames) : Len(frames[i]) = PacketBlocks

LEMMA EmptyRun == ASSUME NEW r PROVE <<>> \in Seq(Int) /\ Len(<<>>) = 0 /\ RunTo(<<>>, r)
<1>1. <<>> \in Seq(Int) /\ Len(<<>>) = 0
  OBVIOUS
<1> QED BY <1>1 DEF RunTo

\* Blocks are numbers, and so are what precedes them.
LEMMA UnheardOf ==
    ASSUME Taking PROVE Unheard \in Int /\ Unheard =< recorded /\ Len(mic) \in Nat /\ Len(pendingPcm) \in Nat
<1>1. recorded \in Nat /\ Len(mic) \in Nat /\ Len(pendingPcm) \in Nat
  BY LenProperties DEF Taking
<1> DEFINE m == Len(mic)  p == Len(pendingPcm)
<1>2. Unheard = IF capturer = "none" THEN recorded ELSE recorded - m - p
  BY DEF Unheard
<1> HIDE DEF m, p
<1>3. m \in Nat /\ p \in Nat
  BY <1>1 DEF m, p
<1> QED BY <1>1, <1>2, <1>3 DEF m, p

LEMMA LastOfFrames ==
    ASSUME AudioConstants, Given, frames # <<>> PROVE frames[Len(frames)][PacketBlocks] \in Int
<1>1. PICK n \in Nat : n = Len(frames) /\ n > 0
  <2>1. Len(frames) \in Nat /\ Len(frames) # 0
    BY EmptySeq, LenProperties DEF Given
  <2> QED BY <2>1
<1>2. n \in 1 .. n /\ PacketBlocks \in 1 .. PacketBlocks /\ PacketBlocks \in Nat
  BY <1>1 DEF AudioConstants
<1>3. frames[n] \in Seq(Int) /\ Len(frames[n]) = PacketBlocks
  BY <1>1, <1>2 DEF Given
<1>4. frames[n][PacketBlocks] \in Int
  BY <1>2, <1>3
<1> QED BY <1>1, <1>4

\* No frame goes out and nothing is put back.
LEMMA GivenStands ==
    ASSUME AudioConstants, Given, UNCHANGED frames, Unheard \in Int, Unheard' \in Int, Unheard' >= Unheard
    PROVE  Given'
<1>1. frames # <<>> => frames[Len(frames)][PacketBlocks] < Unheard'
  <2> SUFFICES ASSUME frames # <<>> PROVE frames[Len(frames)][PacketBlocks] < Unheard'
    OBVIOUS
  <2> DEFINE l == frames[Len(frames)][PacketBlocks]
  <2>1. l \in Int /\ l < Unheard
    BY LastOfFrames DEF Given
  <2> HIDE DEF l
  <2>2. l < Unheard'
    BY <2>1
  <2> QED BY <2>2 DEF l
<1> QED BY <1>1 DEF Given, FramesUnbroken

\* Half a frame that was taken over stays in a row with the stream.
LEMMA RestOfPending ==
    ASSUME AudioConstants, NEW s \in Seq(Int), NEW r \in Int, RunTo(s, r)
    PROVE  WithoutBacklog(s) \in Seq(Int) /\ RunTo(WithoutBacklog(s), r) /\ Len(WithoutBacklog(s)) =< Len(s)
<1> DEFINE packets == Len(s) \div PacketBlocks
           skipped == IF packets > kMaxCaptureQueued THEN packets - kMaxCaptureQueued ELSE 0
           a == skipped * PacketBlocks + 1
<1>1. PacketBlocks \in Nat \ {0} /\ kMaxCaptureQueued \in Nat \ {0} /\ Len(s) \in Nat
  BY LenProperties DEF AudioConstants
<1>2. packets \in Nat
  BY <1>1
<1> HIDE DEF packets
<1>3. skipped \in Nat
  BY <1>1, <1>2
<1> HIDE DEF skipped
<1>4. a \in Nat \ {0}
  BY <1>1, <1>3
<1>5. WithoutBacklog(s) = SubSeq(s, a, Len(s))
  BY DEF WithoutBacklog, a, skipped, packets
<1> HIDE DEF a
<1> DEFINE t == SubSeq(s, a, Len(s))
<1>6. t \in Seq(Int) /\ RunTo(t, r)
  BY <1>4, RunOfRest
<1>7. Len(t) =< Len(s)
  BY <1>1, <1>4
<1> QED BY <1>5, <1>6, <1>7

\* One more frame, from the front on.
LEMMA GivenGrows ==
    ASSUME AudioConstants, Given, NEW f \in Seq(Int), Len(f) = PacketBlocks, NEW e \in Int, RunTo(f, e),
           NEW w \in Int, w = e - PacketBlocks, frames # <<>> => frames[Len(frames)][PacketBlocks] < w,
           frames' = Append(frames, f), Unheard' \in Int, Unheard' >= e
    PROVE  Given'
<1> DEFINE B == PacketBlocks
<1>1. PICK n \in Nat : n = Len(frames)
  BY LenProperties DEF Given
<1>2. B \in Nat \ {0}
  BY DEF AudioConstants
<1>3. /\ frames' \in Seq(Seq(Int)) /\ Len(frames') = n + 1 /\ frames'[n + 1] = f
      /\ \A i \in 1 .. n : frames'[i] = frames[i]
      /\ frames' # <<>>
  <2>1. frames \in Seq(Seq(Int))
    BY DEF Given
  <2>2. Append(frames, f) \in Seq(Seq(Int)) /\ Append(frames, f) # <<>>
        /\ Len(Append(frames, f)) = n + 1
    BY <1>1, <2>1, AppendProperties
  <2>3. Append(frames, f)[n + 1] = f /\ \A i \in 1 .. n : Append(frames, f)[i] = frames[i]
    BY <1>1, <2>1, AppendProperties
  <2> QED BY <2>2, <2>3
<1>4. \A b \in 1 .. B : f[b] = e - B + b - 1
  BY DEF RunTo
<1>5. f[B] < Unheard' /\ f[1] = w
  BY <1>2, <1>4
<1>6. \A b \in 2 .. B : f[b] = f[b - 1] + 1
  <2> TAKE b \in 2 .. B
  <2>1. b \in 1 .. B /\ b - 1 \in 1 .. B
    BY <1>2
  <2>2. f[b] = e - B + b - 1 /\ f[b - 1] = e - B + (b - 1) - 1
    BY <1>4, <2>1
  <2> HIDE DEF B
  <2> QED BY <1>2, <2>1, <2>2
<1> HIDE DEF B
<1>7. FramesUnbroken'
  <2>1. \A i \in 1 .. n + 1 : \A b \in 2 .. B : frames'[i][b] = frames'[i][b - 1] + 1
    <3> TAKE i \in 1 .. n + 1
    <3>1. CASE i = n + 1
      BY <1>3, <1>6, <3>1
    <3>2. CASE i # n + 1
      <4>1. i \in 1 .. n /\ i \in DOMAIN frames
        <5>1. DOMAIN frames = 1 .. n
          BY <1>1, LenProperties DEF Given
        <5> QED BY <1>1, <3>2, <5>1
      <4>2. \A b \in 2 .. B : frames[i][b] = frames[i][b - 1] + 1
        BY <4>1 DEF Given, FramesUnbroken, B
      <4> QED BY <1>3, <4>1, <4>2
    <3> QED BY <3>1, <3>2
  <2>2. \A i \in 2 .. n + 1 : frames'[i][1] > frames'[i - 1][B]
    <3> TAKE i \in 2 .. n + 1
    <3>1. CASE i = n + 1
      <4>1. n \in 1 .. n /\ i - 1 = n /\ frames # <<>>
        BY <1>1, <3>1
      <4>2. frames[n][B] < w /\ frames'[i - 1] = frames[n] /\ frames'[i] = f
        BY <1>1, <1>3, <3>1, <4>1 DEF B
      <4>3. frames[n] \in Seq(Int) /\ Len(frames[n]) = B
        BY <1>1, <4>1 DEF Given, B
      <4>4. frames[n][B] \in Int
        BY <1>2, <4>3
      <4> QED BY <1>5, <4>2, <4>4
    <3>2. CASE i # n + 1
      <4>1. i \in 2 .. n /\ i \in 1 .. n /\ i - 1 \in 1 .. n
        BY <1>1, <3>2
      <4>2. frames[i][1] > frames[i - 1][B]
        BY <1>1, <4>1 DEF Given, FramesUnbroken, B
      <4> QED BY <1>3, <4>1, <4>2
    <3> QED BY <3>1, <3>2
  <2>3. DOMAIN frames' = 1 .. n + 1 /\ Len(frames') = n + 1
    BY <1>3, LenProperties
  <2>4. /\ \A i \in DOMAIN frames' : \A b \in 2 .. B : frames'[i][b] = frames'[i][b - 1] + 1
        /\ \A i \in 2 .. Len(frames') : frames'[i][1] > frames'[i - 1][B]
    BY <2>1, <2>2, <2>3
  <2> QED BY <2>4 DEF FramesUnbroken, B
<1>8. \A i \in 1 .. Len(frames') : Len(frames'[i]) = B
  <2> SUFFICES ASSUME NEW i \in 1 .. n + 1 PROVE Len(frames'[i]) = B
    BY <1>3
  <2>1. CASE i = n + 1
    BY <1>3, <2>1 DEF B
  <2>2. CASE i # n + 1
    <3>1. i \in 1 .. n
      BY <1>1, <2>2
    <3> QED BY <1>1, <1>3, <3>1 DEF Given, B
  <2> QED BY <2>1, <2>2
<1>9. frames'[Len(frames')][B] < Unheard'
  BY <1>3, <1>5
<1> QED BY <1>3, <1>7, <1>8, <1>9 DEF Given, B

\* What the capture thread, its owner and SDL do to the stream.
LEMMA TakingStep ==
    ASSUME AudioConstants, Taking, Given, CaptureNext
    PROVE  Taking' /\ Given'
<1>k. Taking /\ Given /\ AudioConstants
  OBVIOUS
<1>t. /\ mic \in Seq(Int) /\ pendingPcm \in Seq(Int) /\ recorded \in Nat /\ recorded \in Int /\ RunTo(mic, recorded)
      /\ Unheard \in Int /\ Unheard =< recorded /\ Len(mic) \in Nat /\ Len(pendingPcm) \in Nat
      /\ recorded - Len(mic) \in Int
  BY UnheardOf DEF Taking
\* Any change that gives no frame out.
<1>s. ASSUME UNCHANGED frames, Taking', Unheard' \in Int, Unheard' >= Unheard PROVE Taking' /\ Given'
  BY <1>k, <1>t, <1>s, GivenStands
<1>1. CASE MicRecords
  <2>1. /\ mic' = Append(mic, recorded) /\ recorded' = recorded + 1 /\ capturer # "none"
        /\ UNCHANGED <<capturer, pendingPcm, frames>>
    BY <1>1 DEF MicRecords
  <2>2. mic' \in Seq(Int) /\ Len(mic') = Len(mic) + 1 /\ RunTo(mic', recorded + 1)
    BY <1>t, <2>1, RunOfOne
  <2> DEFINE m == Len(mic)  p == Len(pendingPcm)
  <2>3. (recorded + 1) - (m + 1) = recorded - m /\ recorded + 1 \in Nat
    BY <1>t
  <2>4. Taking'
    BY <1>k, <2>1, <2>2, <2>3 DEF Taking
  <2>5. (recorded + 1) - (m + 1) - p = recorded - m - p
    BY <1>t
  <2>6. Unheard' = Unheard
    BY <2>1, <2>2, <2>5 DEF Unheard
  <2> QED BY <1>s, <1>t, <2>1, <2>4, <2>6
<1>2. CASE CaptureStart
  <2>1. /\ capturer = "none" /\ capturer' = "reading" /\ mic' = <<>> /\ pendingPcm' = <<>>
        /\ UNCHANGED <<recorded, frames>>
    BY <1>2 DEF CaptureStart
  <2>2. recorded - 0 = recorded /\ recorded - 0 - 0 = recorded
    BY <1>t
  <2>3. Taking' /\ Unheard' = recorded
    BY <1>t, <2>1, <2>2, EmptyRun DEF Taking, Unheard
  <2>4. recorded >= Unheard
    BY <1>t
  <2> QED BY <1>s, <1>t, <2>1, <2>3, <2>4
<1>3. CASE CaptureStop
  <2>1. UNCHANGED <<mic, recorded, capturer, pendingPcm, frames>>
    BY <1>3 DEF CaptureStop
  <2>2. Taking' /\ Unheard' = Unheard
    BY <1>k, <2>1 DEF Taking, Unheard
  <2>3. Unheard >= Unheard
    BY <1>t
  <2> QED BY <1>s, <1>t, <2>1, <2>2, <2>3
<1>4. CASE CaptureJoined
  <2>1. mic' = <<>> /\ capturer' = "none" /\ UNCHANGED <<recorded, pendingPcm, frames>>
    BY <1>4 DEF CaptureJoined
  <2>2. Taking' /\ Unheard' = recorded
    BY <1>k, <1>t, <2>1, EmptyRun DEF Taking, Unheard
  <2>4. recorded >= Unheard
    BY <1>t
  <2> QED BY <1>s, <1>t, <2>1, <2>2, <2>4
<1>5. CASE CaptureDiscards
  <2>1. /\ capturer = "reading" /\ pendingPcm' = <<>> /\ UNCHANGED <<recorded, frames, capturer>>
        /\ Len(mic) > MaxBuffered /\ (mic' = Newest(mic, MaxBuffered) \/ mic' = <<>>)
    BY <1>5 DEF CaptureDiscards, BacklogDropped
  <2>2. Unheard = recorded - Len(mic) - Len(pendingPcm)
    BY <2>1 DEF Unheard
  <2> DEFINE n == MaxBuffered
  <2>3. n \in Nat
    BY DEF AudioConstants, MaxBuffered
  <2> HIDE DEF n
  <2>4. CASE mic' = Newest(mic, MaxBuffered)
    <3> DEFINE a == Len(mic) - n + 1
    <3>1. a \in Nat \ {0} /\ a =< Len(mic) + 1 /\ Len(mic) + 1 - a = n
      BY <1>t, <2>1, <2>3 DEF n
    <3>2. mic' = SubSeq(mic, a, Len(mic))
      BY <2>4 DEF Newest, n
    <3> HIDE DEF a
    <3>3. mic' \in Seq(Int) /\ RunTo(mic', recorded) /\ Len(mic') = n
      BY <1>t, <3>1, <3>2, RunOfRest
    <3>4. Taking'
      BY <1>t, <2>1, <3>3, EmptyRun DEF Taking
    <3>5. Unheard' = recorded - n - 0
      BY <2>1, <3>3, EmptyRun DEF Unheard
    <3>6. recorded - n - 0 \in Int /\ recorded - n - 0 >= Unheard
      BY <1>t, <2>1, <2>2, <2>3 DEF n
    <3> QED BY <1>s, <2>1, <3>4, <3>5, <3>6
  <2>5. CASE mic' = <<>>
    <3>1. Taking' /\ Unheard' = recorded - 0 - 0
      BY <1>t, <2>1, <2>5, EmptyRun DEF Taking, Unheard
    <3>2. recorded - 0 - 0 \in Int /\ recorded - 0 - 0 >= Unheard
      BY <1>t
    <3> QED BY <1>s, <2>1, <3>1, <3>2
  <2> QED BY <2>1, <2>4, <2>5
<1>6. CASE CaptureReads
  <2> DEFINE s == pendingPcm \o mic  w == WithoutBacklog(s)
  <2>1. /\ capturer = "reading" /\ capturer' = "giving" /\ pendingPcm' = w /\ mic' = <<>>
        /\ UNCHANGED <<recorded, frames>>
    BY <1>6 DEF CaptureReads
  <2>2. RunTo(pendingPcm, recorded - Len(mic))
    BY <2>1 DEF Taking
  <2>3. s \in Seq(Int) /\ Len(s) = Len(pendingPcm) + Len(mic) /\ RunTo(s, recorded)
    BY <1>t, <2>2, RunOfTwo
  <2> HIDE DEF s
  <2>4. w \in Seq(Int) /\ RunTo(w, recorded) /\ Len(w) =< Len(s)
    BY <1>t, <2>3, RestOfPending
  <2> HIDE DEF w
  <2>5. recorded - 0 = recorded /\ Len(w) \in Nat
    BY <1>t, <2>4
  <2>6. Taking' /\ Unheard' = recorded - 0 - Len(w)
    BY <1>t, <2>1, <2>4, <2>5, EmptyRun DEF Taking, Unheard
  <2>7. recorded - 0 - Len(w) \in Int /\ recorded - 0 - Len(w) >= recorded - Len(mic) - Len(pendingPcm)
    BY <1>t, <2>3, <2>4, <2>5
  <2>8. Unheard = recorded - Len(mic) - Len(pendingPcm)
    BY <2>1 DEF Unheard
  <2> QED BY <1>s, <2>1, <2>6, <2>7, <2>8
<1>7. CASE CaptureGives
  <2>1. /\ capturer = "giving" /\ UNCHANGED <<mic, recorded>> /\ capturer' \in {"reading", "giving"}
    BY <1>7 DEF CaptureGives
  <2>2. CASE UNCHANGED <<frames, pendingPcm>>
    <3>1. Taking' /\ Unheard' = Unheard
      BY <1>k, <2>1, <2>2 DEF Taking, Unheard
    <3>2. Unheard >= Unheard
      BY <1>t
    <3> QED BY <1>s, <1>t, <2>2, <3>1, <3>2
  <2>3. CASE ~UNCHANGED <<frames, pendingPcm>>
    <3> DEFINE f == SubSeq(pendingPcm, 1, PacketBlocks)
               t == SubSeq(pendingPcm, PacketBlocks + 1, Len(pendingPcm))
               p == Len(pendingPcm)  r == recorded - Len(mic)  B == PacketBlocks
    <3>1. p >= B /\ frames' = Append(frames, f) /\ pendingPcm' = t /\ capturer' = "giving"
      BY <1>7, <2>1, <2>3 DEF CaptureGives
    <3>2. B \in Nat \ {0} /\ B + 1 \in Nat \ {0} /\ p \in Nat /\ r \in Int
      BY <1>t DEF AudioConstants
    <3>3. RunTo(pendingPcm, r)
      BY <2>1 DEF Taking
    <3>4. B =< p /\ B + 1 =< p + 1 /\ p + 1 - (B + 1) = p - B
      BY <3>1, <3>2
    <3>5. f \in Seq(Int) /\ Len(f) = B /\ RunTo(f, r - (p - B))
      <4> HIDE DEF r
      <4> QED BY <1>t, <3>2, <3>3, <3>4, RunOfFirst
    <3>6. t \in Seq(Int) /\ RunTo(t, r) /\ Len(t) = p - B
      <4> HIDE DEF r
      <4> QED BY <1>t, <3>2, <3>3, <3>4, RunOfRest
    <3> HIDE DEF f, t
    <3>7. Taking'
      BY <1>k, <2>1, <3>1, <3>6 DEF Taking
    <3>8. Unheard = r - p /\ Unheard' = r - (p - B)
      BY <2>1, <3>1, <3>6 DEF Unheard
    <3> DEFINE e == r - (p - B)
    <3>9. r - p \in Int /\ e \in Int /\ r - p = e - B /\ e >= e
      BY <3>2
    <3>10. frames # <<>> => frames[Len(frames)][PacketBlocks] < r - p
      BY <3>8 DEF Given
    <3> HIDE DEF e, r, p
    <3>11. Given'
      <4>1. RunTo(f, e) /\ Unheard' = e /\ Len(f) = PacketBlocks
        BY <3>5, <3>8 DEF e
      <4> QED BY <1>k, <3>1, <3>5, <3>9, <3>10, <4>1, GivenGrows DEF B
    <3> QED BY <3>7, <3>11
  <2> QED BY <2>2, <2>3
<1>8. CASE CaptureLeaves
  <2>1. UNCHANGED <<mic, recorded, pendingPcm, frames>> /\ capturer = "reading" /\ capturer' = "left"
    BY <1>8 DEF CaptureLeaves
  <2>2. Taking' /\ Unheard' = Unheard
    BY <1>k, <2>1 DEF Taking, Unheard
  <2>3. Unheard >= Unheard
    BY <1>t
  <2> QED BY <1>s, <1>t, <2>1, <2>2, <2>3
<1> QED BY <1>1, <1>2, <1>3, <1>4, <1>5, <1>6, <1>7, <1>8 DEF CaptureNext

\* CaptureLoop of AudioCapture, however far it lags and whenever it is stopped and
\* started again: the blocks of a frame follow one another in the recording, and
\* no block is given out twice or out of order.
THEOREM CapturedSoundIsUnbroken == AudioSpec => []FramesUnbroken
<1>c. AudioConstants
  BY AudioConstants
<1>1. AudioInit => Taking /\ Given
  <2> SUFFICES ASSUME AudioInit PROVE Taking /\ Given
    OBVIOUS
  <2>1. mic = <<>> /\ recorded = 0 /\ capturer = "none" /\ pendingPcm = <<>> /\ frames = <<>>
    BY DEF AudioInit
  <2>2. <<>> \in Seq(Seq(Int)) /\ DOMAIN <<>> = {}
    OBVIOUS
  <2> QED BY <2>1, <2>2, EmptyRun DEF Taking, Given, FramesUnbroken
<1>2. Taking /\ Given /\ [AudioNext]_audioVars => (Taking /\ Given)'
  <2> SUFFICES ASSUME Taking, Given, [AudioNext]_audioVars PROVE (Taking /\ Given)'
    OBVIOUS
  <2>1. CASE CaptureNext
    BY <1>c, <2>1, TakingStep
  <2>2. CASE ~CaptureNext
    <3>1. UNCHANGED <<mic, recorded, capturer, pendingPcm, frames>>
      BY <2>2 DEF AudioNext, audioVars, captureVars, PlaybackNext, PlaybackStops, PlaybackCloses, PlaybackOpens,
         PushChecks, PushLocks, PushFrame, PlaybackClears, SpeakerPlays, AdmNext, AdmInit, PlayoutLeaves,
         StartPlayout, PlayoutJoined, TerminateResets,
       StopPlayout
    <3> QED BY <3>1 DEF Taking, Given, FramesUnbroken, Unheard
  <2> QED BY <2>1, <2>2
<1>3. Taking /\ Given => FramesUnbroken
  BY DEF Given
<1> QED BY <1>1, <1>2, <1>3, PTL DEF AudioSpec

-----------------------------------------------------------------------------
(* Statistics.                                                              *)

StreamCounts == [Parts -> Nat]
StatsReports == [conn : Dials, counts : [Sources -> SUBSET StreamCounts]]

StatsTypes ==
    /\ link \in Seq([of : Vehicles, open : BOOLEAN]) /\ Len(link) =< MaxDials
    /\ listed \in [Vehicles -> 0 .. MaxDials] /\ replaced \subseteq Vehicles
    /\ count \in [StreamIds -> StreamCounts]
    /\ asked \subseteq DOMAIN link
    /\ arrived \in Seq(StatsReports) /\ \A i \in DOMAIN arrived : arrived[i].conn \in DOMAIN link
    /\ mapped \in [Vehicles -> [Sources -> 0 .. MaxDials]]
    /\ windows \in [StreamIds -> SUBSET StreamCounts]
    /\ reported \in [StreamIds -> Seq(StreamCounts)]

\* The map holds open connections of the vehicle it names; as long as a vehicle
\* was never given one over another, it has no other open connection, and its
\* streams are registered for that one.
Listing ==
    /\ \A v \in Vehicles : listed[v] # 0 =>
          listed[v] \in DOMAIN link /\ link[listed[v]].of = v /\ link[listed[v]].open
    /\ \A c \in DOMAIN link : link[c].open /\ link[c].of \notin replaced
          => listed[link[c].of] = c
    /\ \A v \in Vehicles, s \in Sources : mapped[v][s] # 0 =>
          /\ mapped[v][s] \in DOMAIN link /\ link[mapped[v][s]].of = v
          /\ v \notin replaced => link[mapped[v][s]].open

\* A window holds the counts of a report of its own stream: of the last one, as
\* long as its vehicle was never given a connection over another, since then the
\* stream has been registered all along.
WindowRight(c, s, o) ==
    /\ c \in DOMAIN link
    /\ \E k \in DOMAIN reported[<<c, s>>] :
          /\ reported[<<c, s>>][k] = o
          /\ link[c].of \notin replaced =>
                k = Len(reported[<<c, s>>]) /\ mapped[link[c].of][s] = c

WindowsRight == \A c \in Dials, s \in Sources : \A o \in windows[<<c, s>>] : WindowRight(c, s, o)

\* What DelaysAreMeans says of a delay that is shown, for one that may be.
DelayRight(v, s, delay) ==
    \A p \in Parts : \A m \in delay[p] :
        /\ m.conn \in DOMAIN link /\ m.conn \in Dials /\ link[m.conn].of = v
        /\ \E i, j \in DOMAIN reported[<<m.conn, s>>] :
             /\ i < j /\ (v \notin replaced => j = i + 1)
             /\ m.from = reported[<<m.conn, s>>][i][p]
             /\ m.to = reported[<<m.conn, s>>][j][p]
             /\ m.from < m.to

RowsRight ==
    /\ \A v \in Vehicles, s \in Sources : \A row \in rows[<<v, s>>] : DelayRight(v, s, row)
    /\ rows \in [Vehicles \X Sources -> SUBSET [Parts -> SUBSET [conn : Nat, from : Nat, to : Nat]]]

TellingRight ==
    \A t \in telling :
        /\ t \in [of : Vehicles, source : Sources, row : BOOLEAN,
                  delay : [Parts -> SUBSET [conn : Nat, from : Nat, to : Nat]]]
        /\ DelayRight(t.of, t.source, t.delay)

StatsInv == StatsTypes /\ Listing /\ WindowsRight /\ RowsRight /\ TellingRight

\* Connections and the history only grow.
Growing ==
    /\ \A c \in DOMAIN link : c \in DOMAIN link' /\ link'[c].of = link[c].of
    /\ replaced \subseteq replaced'
    /\ \A c \in Dials, s \in Sources : \A i \in DOMAIN reported[<<c, s>>] :
          i \in DOMAIN reported'[<<c, s>>] /\ reported'[<<c, s>>][i] = reported[<<c, s>>][i]

\* What was a mean once stays one.
LEMMA DelayStays ==
    ASSUME Growing, NEW v \in Vehicles, NEW s \in Sources, NEW delay, DelayRight(v, s, delay)
    PROVE  DelayRight(v, s, delay)'
<1> SUFFICES ASSUME NEW p \in Parts, NEW m \in delay[p]
             PROVE  /\ m.conn \in DOMAIN link' /\ m.conn \in Dials /\ link'[m.conn].of = v
                    /\ \E i, j \in DOMAIN reported'[<<m.conn, s>>] :
                         /\ i < j /\ (v \notin replaced' => j = i + 1)
                         /\ m.from = reported'[<<m.conn, s>>][i][p]
                         /\ m.to = reported'[<<m.conn, s>>][j][p]
                         /\ m.from < m.to
  BY DEF DelayRight
<1>1. m.conn \in DOMAIN link /\ m.conn \in Dials /\ link[m.conn].of = v
  BY DEF DelayRight
<1>2. PICK i \in DOMAIN reported[<<m.conn, s>>], j \in DOMAIN reported[<<m.conn, s>>] :
         /\ i < j /\ (v \notin replaced => j = i + 1)
         /\ m.from = reported[<<m.conn, s>>][i][p]
         /\ m.to = reported[<<m.conn, s>>][j][p]
         /\ m.from < m.to
  BY DEF DelayRight
<1>3. /\ i \in DOMAIN reported'[<<m.conn, s>>] /\ reported'[<<m.conn, s>>][i] = reported[<<m.conn, s>>][i]
      /\ j \in DOMAIN reported'[<<m.conn, s>>] /\ reported'[<<m.conn, s>>][j] = reported[<<m.conn, s>>][j]
  BY <1>1, <1>2 DEF Growing
<1> QED BY <1>1, <1>2, <1>3 DEF Growing

\* A step that tells nothing and leaves windows, history and table alone.
LEMMA TableStays ==
    ASSUME Growing, RowsRight, TellingRight, UNCHANGED <<telling, rows>>
    PROVE  RowsRight' /\ TellingRight'
<1>1. ASSUME NEW v \in Vehicles, NEW s \in Sources, NEW row \in rows'[<<v, s>>]
      PROVE  DelayRight(v, s, row)'
  BY <1>1, DelayStays DEF RowsRight
<1>2. ASSUME NEW t \in telling' PROVE DelayRight(t.of, t.source, t.delay)'
  <2>1. t \in telling /\ t.of \in Vehicles /\ t.source \in Sources
    BY <1>2 DEF TellingRight
  <2> QED BY <2>1, DelayStays DEF TellingRight
<1> QED BY <1>1, <1>2 DEF RowsRight, TellingRight

LEMMA DialKeeps ==
    ASSUME StatsInv, NEW v \in Vehicles, Dial(v) PROVE StatsInv'
<1> DEFINE new == [of |-> v, open |-> TRUE]
<1>1. StatsTypes /\ Listing /\ WindowsRight /\ RowsRight /\ TellingRight
  BY DEF StatsInv
<1>2. /\ link' \in Seq([of : Vehicles, open : BOOLEAN]) /\ Len(link') = Len(link) + 1
      /\ \A i \in 1 .. Len(link) : link'[i] = link[i]
      /\ link'[Len(link) + 1] = new /\ Len(link) + 1 =< MaxDials
      /\ DOMAIN link = 1 .. Len(link) /\ DOMAIN link' = 1 .. Len(link) + 1 /\ Len(link) \in Nat
  <2>1. link \in Seq([of : Vehicles, open : BOOLEAN]) /\ new \in [of : Vehicles, open : BOOLEAN]
    BY <1>1 DEF StatsTypes
  <2>2. link' = Append(link, new) /\ Len(link) < MaxDials
    BY DEF Dial
  <2> QED BY <2>1, <2>2, AppendProperties, LenProperties, StatisticsConstants
<1>3. StatsTypes'
  BY <1>1, <1>2 DEF StatsTypes, Dial, countVars, pollVars, delayVars
<1>4. Listing'
  <2>1. ASSUME NEW w \in Vehicles, listed'[w] # 0
        PROVE  listed'[w] \in DOMAIN link' /\ link'[listed'[w]].of = w /\ link'[listed'[w]].open
    <3>1. CASE w = v
      BY <1>1, <1>2, <2>1, <3>1 DEF Dial, StatsTypes
    <3>2. CASE w # v
      BY <1>1, <1>2, <2>1, <3>2 DEF Dial, StatsTypes, Listing
    <3> QED BY <3>1, <3>2
  <2>2. ASSUME NEW c \in DOMAIN link', link'[c].open, link'[c].of \notin replaced'
        PROVE  listed'[link'[c].of] = c
    <3>1. CASE c = Len(link) + 1
      BY <1>1, <1>2, <3>1 DEF Dial, StatsTypes
    <3>2. CASE c \in DOMAIN link
      <4>1. link'[c] = link[c] /\ listed[link[c].of] = c /\ link[c].of \notin replaced'
        BY <1>1, <1>2, <2>2, <3>2 DEF Dial, Listing
      <4>2. link[c].of # v
        BY <1>2, <3>2, <4>1 DEF Dial
      <4> QED BY <1>1, <4>1, <4>2 DEF Dial, StatsTypes
    <3> QED BY <1>2, <3>1, <3>2
  <2>3. ASSUME NEW w \in Vehicles, NEW s \in Sources, mapped'[w][s] # 0
        PROVE  /\ mapped'[w][s] \in DOMAIN link' /\ link'[mapped'[w][s]].of = w
               /\ w \notin replaced' => link'[mapped'[w][s]].open
    BY <1>1, <1>2, <2>3 DEF Dial, delayVars, Listing
  <2> QED BY <2>1, <2>2, <2>3 DEF Listing
<1>5. WindowsRight'
  <2>1. UNCHANGED <<windows, reported, mapped>> /\ replaced \subseteq replaced'
    BY DEF Dial, delayVars
  <2> SUFFICES ASSUME NEW c \in Dials, NEW s \in Sources, NEW o \in windows[<<c, s>>]
               PROVE  WindowRight(c, s, o)'
    BY <2>1 DEF WindowsRight
  <2>2. WindowRight(c, s, o)
    BY <1>1 DEF WindowsRight
  <2>3. c \in DOMAIN link' /\ link'[c] = link[c]
    BY <1>2, <2>2 DEF WindowRight
  <2> QED BY <2>1, <2>2, <2>3 DEF WindowRight
<1>6. Growing
  BY <1>2 DEF Growing, Dial, delayVars
<1>7. UNCHANGED <<telling, rows>>
  BY DEF Dial
<1> QED BY <1>1, <1>3, <1>4, <1>5, <1>6, <1>7, TableStays DEF StatsInv

LEMMA ConnectedKeeps ==
    ASSUME StatsInv, NEW c \in DOMAIN link, Connected(c) PROVE StatsInv'
<1>1. StatsTypes /\ Listing /\ WindowsRight /\ RowsRight /\ TellingRight
  BY DEF StatsInv
<1>2. DOMAIN link = 1 .. Len(link) /\ Len(link) \in Nat /\ c \in 1 .. MaxDials
      /\ link[c].of \in Vehicles /\ link[c].open
  <2>1. link \in Seq([of : Vehicles, open : BOOLEAN]) /\ Len(link) =< MaxDials
    BY <1>1 DEF StatsTypes
  <2>2. Len(link) \in Nat /\ DOMAIN link = 1 .. Len(link)
    BY <2>1, LenProperties
  <2>3. link[c] \in [of : Vehicles, open : BOOLEAN]
    BY <2>1, <2>2, ElementOfSeq
  <2> QED BY <2>1, <2>2, <2>3, StatisticsConstants DEF Connected
<1>3. StatsTypes'
  BY <1>1, <1>2 DEF StatsTypes, Connected, dialVars, countVars
<1>4. Listing'
  BY <1>1, <1>2 DEF Listing, Connected, dialVars, StatsTypes
<1>5. WindowsRight'
  <2> SUFFICES ASSUME NEW d \in Dials, NEW s \in Sources, NEW o \in windows[<<d, s>>]
               PROVE  WindowRight(d, s, o)'
    BY DEF WindowsRight, Connected
  <2>1. WindowRight(d, s, o)
    BY <1>1 DEF WindowsRight
  <2>2. link[d].of \notin replaced /\ link[d].of = link[c].of => d = c
    <3> SUFFICES ASSUME link[d].of \notin replaced, link[d].of = link[c].of PROVE d = c
      OBVIOUS
    <3>1. mapped[link[d].of][s] = d /\ d \in DOMAIN link
      BY <2>1 DEF WindowRight
    <3>2. link[d].open
      BY <1>1, <1>2, <3>1 DEF Listing
    <3> QED BY <1>1, <1>2, <3>1, <3>2 DEF Listing
  <2>3. UNCHANGED <<link, replaced, reported>>
        /\ mapped' = [mapped EXCEPT ![link[c].of] = [q \in Sources |-> c]]
    BY DEF Connected, dialVars
  <2>4. link[d].of \notin replaced /\ mapped[link[d].of][s] = d => mapped'[link[d].of][s] = d
    <3>1. CASE link[d].of = link[c].of
      BY <1>1, <1>2, <2>2, <2>3, <3>1 DEF StatsTypes
    <3>2. CASE link[d].of # link[c].of
      BY <1>1, <1>2, <2>3, <3>2 DEF StatsTypes
    <3> QED BY <3>1, <3>2
  <2> QED BY <2>1, <2>3, <2>4 DEF WindowRight
<1>6. Growing /\ UNCHANGED <<telling, rows>>
  BY DEF Growing, Connected, dialVars
<1> QED BY <1>1, <1>3, <1>4, <1>5, <1>6, TableStays DEF StatsInv

LEMMA StatsDestroyKeeps ==
    ASSUME StatsInv, NEW gone \in SUBSET Vehicles, Destroy(gone),
           gone = Vehicles \/ \E v \in Vehicles : gone = {v}
    PROVE  StatsInv'
<1>1. StatsTypes /\ Listing /\ WindowsRight /\ RowsRight /\ TellingRight
  BY DEF StatsInv
<1> DEFINE left == IF gone = Vehicles THEN gone ELSE {v \in gone : listed[v] # 0}
<1>g. left = gone
  BY DEF Destroy
<1>l. Len(link) \in Nat /\ DOMAIN link = 1 .. Len(link)
      /\ \A c \in DOMAIN link : link[c] \in [of : Vehicles, open : BOOLEAN]
  <2>1. link \in Seq([of : Vehicles, open : BOOLEAN])
    BY <1>1 DEF StatsTypes
  <2> QED BY <2>1, LenProperties, ElementOfSeq
<1>2. /\ DOMAIN link' = DOMAIN link
      /\ \A c \in DOMAIN link : link'[c].of = link[c].of /\ link'[c].open \in BOOLEAN
      /\ \A c \in DOMAIN link : link'[c].open <=> link[c].open /\ \A v \in gone : listed[v] # c
  BY <1>l DEF Destroy
<1>3. /\ mapped' = [v \in Vehicles |-> IF v \in gone THEN [s \in Sources |-> 0] ELSE mapped[v]]
      /\ windows' = [w \in StreamIds |->
                       IF w[1] \in DOMAIN link /\ link[w[1]].of \in gone THEN {} ELSE windows[w]]
      /\ listed' = [v \in Vehicles |-> IF v \in gone THEN 0 ELSE listed[v]]
      /\ UNCHANGED <<replaced, count, asked, arrived, reported, telling, rows>>
  BY <1>g DEF Destroy, countVars, pollVars
<1>4. StatsTypes'
  <2>1. link' \in Seq([of : Vehicles, open : BOOLEAN]) /\ Len(link') = Len(link)
    <3>1. link' = [i \in 1 .. Len(link) |-> link'[i]]
      BY <1>l, <1>2 DEF Destroy
    <3>2. \A i \in 1 .. Len(link) : link'[i] \in [of : Vehicles, open : BOOLEAN]
      BY <1>l DEF Destroy
    <3> DEFINE f == [i \in 1 .. Len(link) |-> link'[i]]
    <3>3. f \in [1 .. Len(link) -> [of : Vehicles, open : BOOLEAN]]
      BY <3>2
    <3>4. f \in Seq([of : Vehicles, open : BOOLEAN])
      BY <1>l, <3>3
    <3>5. Len(f) = Len(link)
      BY <1>l, <3>4, LenProperties
    <3> QED BY <3>1, <3>4, <3>5
  <2> QED BY <1>1, <1>2, <1>3, <2>1, StatisticsConstants DEF StatsTypes
<1>5. Listing'
  <2>1. ASSUME NEW w \in Vehicles, listed'[w] # 0
        PROVE  listed'[w] \in DOMAIN link' /\ link'[listed'[w]].of = w /\ link'[listed'[w]].open
    <3>1. w \notin gone /\ listed'[w] = listed[w] /\ listed[w] \in DOMAIN link
          /\ link[listed[w]].of = w /\ link[listed[w]].open
      BY <1>1, <1>3, <2>1 DEF Listing
    <3>2. ASSUME NEW v \in gone, listed[v] = listed[w] PROVE FALSE
      <4>1. listed[v] # 0 /\ v \in Vehicles
        BY <2>1, <3>1, <3>2
      <4> QED BY <1>1, <3>1, <3>2, <4>1 DEF Listing
    <3> QED BY <1>2, <3>1, <3>2
  <2>2. ASSUME NEW c \in DOMAIN link', link'[c].open, link'[c].of \notin replaced'
        PROVE  listed'[link'[c].of] = c
    <3>1. c \in DOMAIN link /\ link[c].open /\ link'[c].of = link[c].of
          /\ \A v \in gone : listed[v] # c
      BY <1>2, <2>2
    <3>2. listed[link[c].of] = c /\ link[c].of \in Vehicles
      BY <1>1, <1>3, <1>l, <2>2, <3>1 DEF Listing
    <3> QED BY <1>3, <3>1, <3>2
  <2>3. ASSUME NEW w \in Vehicles, NEW s \in Sources, mapped'[w][s] # 0
        PROVE  /\ mapped'[w][s] \in DOMAIN link' /\ link'[mapped'[w][s]].of = w
               /\ w \notin replaced' => link'[mapped'[w][s]].open
    <3>1. w \notin gone /\ mapped'[w][s] = mapped[w][s] /\ mapped[w][s] # 0
      BY <1>3, <2>3
    <3>2. mapped[w][s] \in DOMAIN link /\ link[mapped[w][s]].of = w
          /\ (w \notin replaced => link[mapped[w][s]].open)
      BY <1>1, <3>1 DEF Listing
    <3>3. ASSUME NEW v \in gone, listed[v] = mapped[w][s] PROVE FALSE
      <4>1. listed[v] # 0 /\ v \in Vehicles
        BY <3>1, <3>3
      <4> QED BY <1>1, <3>1, <3>2, <3>3, <4>1 DEF Listing
    <3> QED BY <1>2, <1>3, <3>1, <3>2, <3>3
  <2> QED BY <2>1, <2>2, <2>3 DEF Listing
<1>6. WindowsRight'
  <2> SUFFICES ASSUME NEW c \in Dials, NEW s \in Sources, NEW o \in windows'[<<c, s>>]
               PROVE  WindowRight(c, s, o)'
    BY DEF WindowsRight
  <2>1. o \in windows[<<c, s>>] /\ ~(c \in DOMAIN link /\ link[c].of \in gone)
    BY <1>3 DEF StreamIds
  <2>2. WindowRight(c, s, o)
    BY <1>1, <2>1 DEF WindowsRight
  <2>3. c \in DOMAIN link /\ link[c].of \in Vehicles /\ link[c].of \notin gone
    BY <1>l, <2>1, <2>2 DEF WindowRight
  <2>4. mapped'[link[c].of] = mapped[link[c].of]
    BY <1>3, <2>3
  <2> QED BY <1>2, <1>3, <2>2, <2>3, <2>4 DEF WindowRight
<1>7. Growing /\ UNCHANGED <<telling, rows>>
  BY <1>2, <1>3 DEF Growing
<1> QED BY <1>1, <1>4, <1>5, <1>6, <1>7, TableStays DEF StatsInv

LEMMA RunReportKeeps == ASSUME StatsInv, RunReport PROVE StatsInv'
<1> DEFINE r == Head(arrived)
           v == link[r.conn].of
           new(s) == CHOOSE n \in r.counts[s] : TRUE
           here == {s \in Sources : r.counts[s] # {} /\ mapped[v][s] = r.conn}
<1>1. StatsTypes /\ Listing /\ WindowsRight /\ RowsRight /\ TellingRight
  BY DEF StatsInv
<1>2. r \in StatsReports /\ r.conn \in DOMAIN link /\ v \in Vehicles
      /\ arrived' \in Seq(StatsReports)
      /\ \A i \in DOMAIN arrived' : arrived'[i].conn \in DOMAIN link
  <2>1. arrived \in Seq(StatsReports) /\ arrived # <<>> /\ arrived' = Tail(arrived)
    BY <1>1 DEF StatsTypes, RunReport
  <2>2. /\ Head(arrived) \in StatsReports /\ Tail(arrived) \in Seq(StatsReports)
        /\ Len(Tail(arrived)) = Len(arrived) - 1
        /\ \A i \in 1 .. Len(Tail(arrived)) : Tail(arrived)[i] = arrived[i + 1]
    BY <2>1, HeadTailProperties
  <2>3. Head(arrived) = arrived[1] /\ Len(arrived) \in Nat /\ Len(arrived) # 0
        /\ DOMAIN arrived = 1 .. Len(arrived) /\ DOMAIN Tail(arrived) = 1 .. Len(Tail(arrived))
    BY <2>1, <2>2, LenProperties, EmptySeq
  <2>4. Head(arrived).conn \in DOMAIN link
    <3>1. 1 \in DOMAIN arrived
      BY <2>3
    <3> QED BY <1>1, <2>3, <3>1 DEF StatsTypes
  <2>5. link \in Seq([of : Vehicles, open : BOOLEAN])
    BY <1>1 DEF StatsTypes
  <2>6. link[Head(arrived).conn].of \in Vehicles
    <3>1. Head(arrived).conn \in 1 .. Len(link)
      BY <2>4, <2>5, LenProperties
    <3>2. link[Head(arrived).conn] \in [of : Vehicles, open : BOOLEAN]
      BY <2>5, <3>1, ElementOfSeq
    <3> QED BY <3>2
  <2>7. \A i \in DOMAIN arrived' : arrived'[i].conn \in DOMAIN link
    BY <1>1, <2>1, <2>2, <2>3 DEF StatsTypes
  <2> QED BY <2>1, <2>2, <2>4, <2>6, <2>7
<1>3. r.conn \in Dials /\ r.counts \in [Sources -> SUBSET StreamCounts]
      /\ \A s \in Sources : r.counts[s] # {} => new(s) \in StreamCounts
  BY <1>2 DEF StatsReports
<1> HIDE DEF new
<1>4. windows' = [w \in StreamIds |->
                    IF w \in {WindowOf(r.conn, s) : s \in here} THEN {new(w[2])}
                    ELSE windows[w]]
  BY DEF RunReport, new
<1>5. telling' = {[of |-> v, source |-> s, row |-> FALSE,
                   delay |-> Means(r.conn, windows[WindowOf(r.conn, s)], new(s))] : s \in here}
  BY DEF RunReport, new
<1>6. reported' = [w \in StreamIds |->
                     IF w[1] = r.conn /\ r.counts[w[2]] # {}
                     THEN Append(reported[w], new(w[2])) ELSE reported[w]]
  BY DEF RunReport, new
<1>7. UNCHANGED <<link, listed, replaced, count, asked, mapped, rows>>
  BY DEF RunReport, dialVars, countVars, pollVars
<1>h. here \subseteq Sources
  OBVIOUS
<1>m. \A s \in here : r.counts[s] # {} /\ mapped[v][s] = r.conn /\ new(s) \in StreamCounts
  BY <1>3
<1>n. \A s \in Sources : r.counts[s] # {} /\ mapped[v][s] = r.conn => s \in here
  OBVIOUS
<1>d. ASSUME NEW c \in Dials, NEW s \in Sources
      PROVE  /\ <<c, s>> \in StreamIds /\ reported[<<c, s>>] \in Seq(StreamCounts)
             /\ c = r.conn /\ r.counts[s] # {} =>
                  reported'[<<c, s>>] = Append(reported[<<c, s>>], new(s))
             /\ ~(c = r.conn /\ r.counts[s] # {}) => reported'[<<c, s>>] = reported[<<c, s>>]
             /\ c = r.conn /\ s \in here => windows'[<<c, s>>] = {new(s)}
             /\ ~(c = r.conn /\ s \in here) => windows'[<<c, s>>] = windows[<<c, s>>]
  <2>1. <<c, s>> \in StreamIds /\ <<c, s>>[1] = c /\ <<c, s>>[2] = s
    BY DEF StreamIds
  <2>2. <<c, s>> \in {WindowOf(r.conn, q) : q \in here} <=> c = r.conn /\ s \in here
    BY DEF WindowOf
  <2>3. windows'[<<c, s>>] = IF c = r.conn /\ s \in here THEN {new(s)} ELSE windows[<<c, s>>]
    BY <1>4, <2>1, <2>2, Zenon
  <2>4. reported'[<<c, s>>] = IF c = r.conn /\ r.counts[s] # {}
                              THEN Append(reported[<<c, s>>], new(s)) ELSE reported[<<c, s>>]
    BY <1>6, <2>1
  <2>5. reported[<<c, s>>] \in Seq(StreamCounts)
    BY <1>1, <2>1 DEF StatsTypes
  <2> QED BY <2>1, <2>3, <2>4, <2>5
<1>a. ASSUME NEW c \in Dials, NEW s \in Sources, c = r.conn, r.counts[s] # {}
      PROVE  /\ reported'[<<c, s>>] \in Seq(StreamCounts)
             /\ Len(reported'[<<c, s>>]) = Len(reported[<<c, s>>]) + 1
             /\ \A i \in 1 .. Len(reported[<<c, s>>]) : reported'[<<c, s>>][i] = reported[<<c, s>>][i]
             /\ reported'[<<c, s>>][Len(reported[<<c, s>>]) + 1] = new(s)
             /\ DOMAIN reported'[<<c, s>>] = 1 .. Len(reported[<<c, s>>]) + 1
  <2>1. reported'[<<c, s>>] = Append(reported[<<c, s>>], new(s)) /\ new(s) \in StreamCounts
        /\ reported[<<c, s>>] \in Seq(StreamCounts)
    BY <1>a, <1>d, <1>3
  <2>2. /\ Append(reported[<<c, s>>], new(s)) \in Seq(StreamCounts)
        /\ Len(Append(reported[<<c, s>>], new(s))) = Len(reported[<<c, s>>]) + 1
        /\ \A i \in 1 .. Len(reported[<<c, s>>]) : Append(reported[<<c, s>>], new(s))[i] = reported[<<c, s>>][i]
        /\ Append(reported[<<c, s>>], new(s))[Len(reported[<<c, s>>]) + 1] = new(s)
    BY <2>1, AppendProperties
  <2> QED BY <2>1, <2>2, LenProperties
<1>b. \A c \in Dials, s \in Sources :
         Len(reported[<<c, s>>]) \in Nat /\ DOMAIN reported[<<c, s>>] = 1 .. Len(reported[<<c, s>>])
  BY <1>d, LenProperties
<1> HIDE DEF r, v, here
<1>8. Growing
  <2>1. ASSUME NEW c \in Dials, NEW s \in Sources, NEW i \in DOMAIN reported[<<c, s>>]
        PROVE  i \in DOMAIN reported'[<<c, s>>] /\ reported'[<<c, s>>][i] = reported[<<c, s>>][i]
    <3>1. CASE c = r.conn /\ r.counts[s] # {}
      <4>1. DOMAIN reported'[<<c, s>>] = 1 .. Len(reported[<<c, s>>]) + 1
            /\ \A k \in 1 .. Len(reported[<<c, s>>]) : reported'[<<c, s>>][k] = reported[<<c, s>>][k]
        BY <1>a, <3>1
      <4>2. i \in 1 .. Len(reported[<<c, s>>]) /\ Len(reported[<<c, s>>]) \in Nat
        BY <1>b
      <4> QED BY <4>1, <4>2
    <3>2. CASE ~(c = r.conn /\ r.counts[s] # {})
      BY <1>d, <3>2
    <3> QED BY <3>1, <3>2
  <2> QED BY <1>7, <2>1 DEF Growing
<1>9. StatsTypes'
  <2>1. reported' \in [StreamIds -> Seq(StreamCounts)]
    <3>1. \A c \in Dials, s \in Sources : reported'[<<c, s>>] \in Seq(StreamCounts)
      BY <1>a, <1>d
    <3>2. \A w \in StreamIds : w[1] \in Dials /\ w[2] \in Sources /\ w = <<w[1], w[2]>>
      BY DEF StreamIds
    <3>3. \A w \in StreamIds : reported'[w] \in Seq(StreamCounts)
      BY <3>1, <3>2
    <3> QED BY <1>6, <3>3
  <2>2. windows' \in [StreamIds -> SUBSET StreamCounts]
    <3>1. ASSUME NEW c \in Dials, NEW s \in Sources
          PROVE  windows'[<<c, s>>] \in SUBSET StreamCounts
      <4>1. windows[<<c, s>>] \in SUBSET StreamCounts
        BY <1>1, <1>d DEF StatsTypes
      <4> QED BY <1>d, <1>m, <4>1
    <3>2. \A w \in StreamIds : w[1] \in Dials /\ w[2] \in Sources /\ w = <<w[1], w[2]>>
      BY DEF StreamIds
    <3>3. \A w \in StreamIds : windows'[w] \in SUBSET StreamCounts
      BY <3>1, <3>2
    <3> QED BY <1>4, <3>3
  <2> QED BY <1>1, <1>2, <1>7, <2>1, <2>2 DEF StatsTypes
<1>10. Listing'
  BY <1>1, <1>7 DEF Listing
<1>11. WindowsRight'
  <2> SUFFICES ASSUME NEW c \in Dials, NEW s \in Sources, NEW o \in windows'[<<c, s>>]
               PROVE  WindowRight(c, s, o)'
    BY DEF WindowsRight
  <2>1. CASE c = r.conn /\ s \in here
    <3>1. o = new(s) /\ r.counts[s] # {} /\ mapped[v][s] = r.conn
      BY <1>d, <1>m, <2>1
    <3>2. Len(reported[<<c, s>>]) \in Nat
      BY <1>b
    <3>3. Len(reported[<<c, s>>]) + 1 \in DOMAIN reported'[<<c, s>>]
          /\ Len(reported'[<<c, s>>]) = Len(reported[<<c, s>>]) + 1
          /\ reported'[<<c, s>>][Len(reported[<<c, s>>]) + 1] = o
      BY <1>a, <2>1, <3>1, <3>2
    <3>4. mapped'[link'[c].of][s] = c /\ c \in DOMAIN link'
      BY <1>2, <1>7, <2>1, <3>1 DEF v
    <3> QED BY <3>3, <3>4 DEF WindowRight
  <2>2. CASE ~(c = r.conn /\ s \in here)
    <3>1. o \in windows[<<c, s>>]
      BY <1>d, <2>2
    <3>2. WindowRight(c, s, o)
      BY <1>1, <3>1 DEF WindowsRight
    <3>3. PICK k \in DOMAIN reported[<<c, s>>] :
             /\ reported[<<c, s>>][k] = o
             /\ link[c].of \notin replaced =>
                   k = Len(reported[<<c, s>>]) /\ mapped[link[c].of][s] = c
      BY <3>2 DEF WindowRight
    <3>4. k \in DOMAIN reported'[<<c, s>>] /\ reported'[<<c, s>>][k] = o
      BY <1>8, <3>3 DEF Growing
    <3>5. ASSUME link[c].of \notin replaced PROVE reported'[<<c, s>>] = reported[<<c, s>>]
      <4>1. mapped[link[c].of][s] = c
        BY <3>3, <3>5
      <4>2. ~(c = r.conn /\ r.counts[s] # {})
        BY <1>n, <2>2, <4>1 DEF v
      <4> QED BY <1>d, <4>2
    <3> QED BY <1>7, <3>2, <3>3, <3>4, <3>5 DEF WindowRight
  <2> QED BY <2>1, <2>2
<1>12. RowsRight'
  BY <1>1, <1>7, <1>8, DelayStays DEF RowsRight
<1>13. TellingRight'
  <2> SUFFICES ASSUME NEW t \in telling'
               PROVE  /\ t \in [of : Vehicles, source : Sources, row : BOOLEAN,
                                delay : [Parts -> SUBSET [conn : Nat, from : Nat, to : Nat]]]
                      /\ DelayRight(t.of, t.source, t.delay)'
    BY DEF TellingRight
  <2>t. PICK s \in here : t = [of |-> v, source |-> s, row |-> FALSE,
                              delay |-> Means(r.conn, windows[WindowOf(r.conn, s)], new(s))]
    BY <1>5
  <2> DEFINE d == Means(r.conn, windows[WindowOf(r.conn, s)], new(s))
  <2>1. d = [p \in Parts |-> {[conn |-> r.conn, from |-> o[p], to |-> new(s)[p]] :
                                 o \in {w \in windows[<<r.conn, s>>] : w[p] < new(s)[p]}}]
    BY DEF Means, WindowOf
  <2>2. s \in Sources /\ windows[<<r.conn, s>>] \subseteq StreamCounts /\ new(s) \in StreamCounts
        /\ r.conn \in Nat
    BY <1>1, <1>3, <1>d, <1>h, <1>m DEF StatsTypes, Dials
  <2>3. d \in [Parts -> SUBSET [conn : Nat, from : Nat, to : Nat]]
    BY <2>1, <2>2 DEF StreamCounts
  <2>4. ASSUME NEW p \in Parts, NEW m \in d[p]
        PROVE  /\ m.conn \in DOMAIN link' /\ m.conn \in Dials /\ link'[m.conn].of = v
               /\ \E i, j \in DOMAIN reported'[<<m.conn, s>>] :
                    /\ i < j /\ (v \notin replaced' => j = i + 1)
                    /\ m.from = reported'[<<m.conn, s>>][i][p]
                    /\ m.to = reported'[<<m.conn, s>>][j][p]
                    /\ m.from < m.to
    <3>1. PICK o \in windows[<<r.conn, s>>] :
             o[p] < new(s)[p] /\ m = [conn |-> r.conn, from |-> o[p], to |-> new(s)[p]]
      BY <2>1, <2>4
    <3>2. m.conn = r.conn /\ m.from = o[p] /\ m.to = new(s)[p] /\ m.from < m.to
      BY <3>1
    <3>3. WindowRight(r.conn, s, o)
      BY <1>1, <1>3, <2>2, <3>1 DEF WindowsRight
    <3>4. PICK k \in DOMAIN reported[<<r.conn, s>>] :
             /\ reported[<<r.conn, s>>][k] = o
             /\ link[r.conn].of \notin replaced => k = Len(reported[<<r.conn, s>>])
      BY <3>3 DEF WindowRight
    <3>5. k \in 1 .. Len(reported[<<r.conn, s>>]) /\ Len(reported[<<r.conn, s>>]) \in Nat
      BY <1>3, <1>b, <2>2, <3>4
    <3> DEFINE j == Len(reported[<<r.conn, s>>]) + 1
    <3>6. /\ DOMAIN reported'[<<r.conn, s>>] = 1 .. j
          /\ reported'[<<r.conn, s>>][j] = new(s) /\ reported'[<<r.conn, s>>][k] = o
      BY <1>3, <1>a, <1>m, <2>2, <3>4, <3>5
    <3>7. k \in DOMAIN reported'[<<r.conn, s>>] /\ j \in DOMAIN reported'[<<r.conn, s>>]
          /\ k < j /\ (v \notin replaced' => j = k + 1)
      BY <1>7, <3>4, <3>5, <3>6 DEF v
    <3> QED BY <1>2, <1>3, <1>7, <3>2, <3>6, <3>7 DEF v
  <2>5. t.of = v /\ t.source = s /\ t.delay = d
        /\ t = [of |-> v, source |-> s, row |-> FALSE, delay |-> d]
    BY <2>t
  <2> HIDE DEF d
  <2>6. DelayRight(t.of, t.source, t.delay)'
    BY <2>4, <2>5 DEF DelayRight
  <2> QED BY <1>2, <1>h, <2>3, <2>5, <2>6
<1> QED BY <1>9, <1>10, <1>11, <1>12, <1>13 DEF StatsInv

LEMMA TellsKeep ==
    ASSUME StatsInv, NEW t \in telling, TellRow(t) \/ TellDelay(t) PROVE StatsInv'
<1>1. StatsTypes /\ Listing /\ WindowsRight /\ RowsRight /\ TellingRight
  BY DEF StatsInv
<1>2. UNCHANGED <<link, listed, replaced, count, asked, arrived, mapped, windows, reported>>
  BY DEF TellRow, TellDelay, dialVars, countVars, pollVars, delayVars
<1>3. StatsTypes' /\ Listing' /\ WindowsRight'
  <2>1. StatsTypes'
    BY <1>1, <1>2 DEF StatsTypes
  <2>2. Listing'
    BY <1>1, <1>2 DEF Listing
  <2>3. WindowsRight'
    <3>1. ASSUME NEW c \in Dials, NEW s \in Sources, NEW o \in windows[<<c, s>>]
          PROVE  WindowRight(c, s, o)'
      <4>1. WindowRight(c, s, o)
        BY <1>1 DEF WindowsRight
      <4> QED BY <1>2, <4>1 DEF WindowRight
    <3> QED BY <1>2, <3>1 DEF WindowsRight
  <2> QED BY <2>1, <2>2, <2>3
<1>4. ASSUME NEW v \in Vehicles, NEW s \in Sources, NEW d, DelayRight(v, s, d)
      PROVE  DelayRight(v, s, d)'
  BY <1>2, <1>4, DelayStays DEF Growing
<1>5. /\ t \in [of : Vehicles, source : Sources, row : BOOLEAN,
               delay : [Parts -> SUBSET [conn : Nat, from : Nat, to : Nat]]]
      /\ DelayRight(t.of, t.source, t.delay)
  BY <1>1 DEF TellingRight
<1>6. RowsRight'
  <2>1. ASSUME NEW delay \in [Parts -> SUBSET [conn : Nat, from : Nat, to : Nat]],
               DelayRight(t.of, t.source, delay),
               rows' = [rows EXCEPT ![<<t.of, t.source>>] = {delay}]
        PROVE  RowsRight'
    <3>1. rows' \in [Vehicles \X Sources -> SUBSET [Parts -> SUBSET [conn : Nat, from : Nat, to : Nat]]]
      BY <1>1, <1>5, <2>1 DEF RowsRight
    <3>2. ASSUME NEW v \in Vehicles, NEW s \in Sources, NEW row \in rows'[<<v, s>>]
          PROVE  DelayRight(v, s, row)'
      <4>1. CASE v = t.of /\ s = t.source
        <5>1. row = delay
          BY <1>1, <1>5, <2>1, <3>2, <4>1 DEF RowsRight
        <5> QED BY <1>4, <1>5, <2>1, <4>1, <5>1
      <4>2. CASE ~(v = t.of /\ s = t.source)
        <5>1. row \in rows[<<v, s>>]
          BY <1>1, <1>5, <2>1, <3>2, <4>2 DEF RowsRight
        <5> QED BY <1>1, <1>4, <5>1 DEF RowsRight
      <4> QED BY <4>1, <4>2
    <3> QED BY <3>1, <3>2 DEF RowsRight
  <2>2. DelayRight(t.of, t.source, NoDelay)
        /\ NoDelay \in [Parts -> SUBSET [conn : Nat, from : Nat, to : Nat]]
    BY DEF DelayRight, NoDelay
  <2>3. ASSUME rows' = rows PROVE RowsRight'
    BY <1>1, <1>4, <2>3 DEF RowsRight
  <2> QED BY <1>5, <2>1, <2>2, <2>3 DEF TellRow, TellDelay
<1>7. TellingRight'
  <2> SUFFICES ASSUME NEW u \in telling'
               PROVE  /\ u \in [of : Vehicles, source : Sources, row : BOOLEAN,
                                delay : [Parts -> SUBSET [conn : Nat, from : Nat, to : Nat]]]
                      /\ DelayRight(u.of, u.source, u.delay)'
    BY DEF TellingRight
  <2>1. CASE u \in telling
    <3>1. /\ u \in [of : Vehicles, source : Sources, row : BOOLEAN,
                    delay : [Parts -> SUBSET [conn : Nat, from : Nat, to : Nat]]]
          /\ DelayRight(u.of, u.source, u.delay)
      BY <1>1, <2>1 DEF TellingRight
    <3> QED BY <1>4, <3>1
  <2>2. CASE u \notin telling
    <3>1. u = [t EXCEPT !.row = TRUE]
      BY <2>2 DEF TellRow, TellDelay
    <3>2. u.of = t.of /\ u.source = t.source /\ u.delay = t.delay
          /\ u \in [of : Vehicles, source : Sources, row : BOOLEAN,
                    delay : [Parts -> SUBSET [conn : Nat, from : Nat, to : Nat]]]
      BY <1>5, <3>1
    <3> QED BY <1>4, <1>5, <3>2
  <2> QED BY <2>1, <2>2
<1> QED BY <1>3, <1>6, <1>7 DEF StatsInv

LEMMA AnswerKeeps == ASSUME StatsInv, NEW c \in DOMAIN link, Answer(c) PROVE StatsInv'
<1>1. StatsTypes /\ Listing /\ WindowsRight /\ RowsRight /\ TellingRight
  BY DEF StatsInv
<1>2. UNCHANGED <<link, listed, replaced, count, mapped, windows, reported, telling, rows>>
      /\ asked' = asked \ {c}
  BY DEF Answer, dialVars, countVars, delayVars
<1> DEFINE report == [conn |-> c,
             counts |-> [s \in Sources |-> IF link[c].open THEN {count[<<c, s>>]} ELSE {}]]
<1>3. c \in Dials /\ report \in StatsReports
  <2>1. c \in Dials
    <3>1. link \in Seq([of : Vehicles, open : BOOLEAN]) /\ Len(link) =< MaxDials
      BY <1>1 DEF StatsTypes
    <3>2. DOMAIN link = 1 .. Len(link) /\ Len(link) \in Nat
      BY <3>1, LenProperties
    <3> QED BY <3>1, <3>2, StatisticsConstants DEF Dials
  <2>2. \A s \in Sources : count[<<c, s>>] \in StreamCounts
    BY <1>1, <2>1 DEF StatsTypes, StreamIds
  <2> QED BY <2>1, <2>2 DEF StatsReports
<1> HIDE DEF report
<1>4. arrived' \in Seq(StatsReports) /\ \A i \in DOMAIN arrived' : arrived'[i].conn \in DOMAIN link
  <2>1. arrived' = Append(arrived, report) /\ arrived \in Seq(StatsReports)
        /\ \A i \in DOMAIN arrived : arrived[i].conn \in DOMAIN link
    BY <1>1 DEF Answer, StatsTypes, report
  <2>2. /\ Append(arrived, report) \in Seq(StatsReports)
        /\ Len(Append(arrived, report)) = Len(arrived) + 1
        /\ \A i \in 1 .. Len(arrived) : Append(arrived, report)[i] = arrived[i]
        /\ Append(arrived, report)[Len(arrived) + 1] = report
    BY <1>3, <2>1, AppendProperties
  <2>3. DOMAIN arrived = 1 .. Len(arrived) /\ Len(arrived) \in Nat
        /\ DOMAIN Append(arrived, report) = 1 .. Len(arrived) + 1
    BY <2>1, <2>2, LenProperties
  <2>4. report.conn = c
    BY DEF report
  <2> QED BY <2>1, <2>2, <2>3, <2>4
<1>5. StatsTypes'
  BY <1>1, <1>2, <1>4 DEF StatsTypes
<1>6. Listing' /\ WindowsRight'
  BY <1>1, <1>2 DEF Listing, WindowsRight, WindowRight
<1>7. Growing
  BY <1>2 DEF Growing
<1> QED BY <1>1, <1>2, <1>5, <1>6, <1>7, TableStays DEF StatsInv

LEMMA OthersKeep ==
    ASSUME StatsInv,
           \/ \E c \in DOMAIN link, s \in Sources, p \in Parts : FrameCounted(c, s, p)
           \/ TimerFires
           \/ RowsCleared
           \/ UNCHANGED statsVars
    PROVE  StatsInv'
<1>1. StatsTypes /\ Listing /\ WindowsRight /\ RowsRight /\ TellingRight
  BY DEF StatsInv
<1>2. UNCHANGED <<link, listed, replaced, arrived, mapped, windows, reported, telling>>
  BY DEF FrameCounted, TimerFires, RowsCleared, statsVars, dialVars, delayVars
<1>3. StatsTypes'
  <2>1. CASE \E c \in DOMAIN link, s \in Sources, p \in Parts : FrameCounted(c, s, p)
    <3>1. PICK c \in DOMAIN link, s \in Sources, p \in Parts : FrameCounted(c, s, p)
      BY <2>1
    <3>2. c \in Dials
      <4>1. link \in Seq([of : Vehicles, open : BOOLEAN]) /\ Len(link) =< MaxDials
        BY <1>1 DEF StatsTypes
      <4>2. DOMAIN link = 1 .. Len(link) /\ Len(link) \in Nat
        BY <4>1, LenProperties
      <4> QED BY <4>1, <4>2, StatisticsConstants DEF Dials
    <3>3. count[<<c, s>>] \in StreamCounts
      BY <1>1, <3>2 DEF StatsTypes, StreamIds
    <3>4. [count[<<c, s>>] EXCEPT ![p] = @ + 1] \in StreamCounts
      BY <3>3 DEF StreamCounts
    <3>5. count' = [count EXCEPT ![<<c, s>>] = [count[<<c, s>>] EXCEPT ![p] = @ + 1]] /\ asked' = asked
      BY <3>1 DEF FrameCounted, pollVars
    <3>6. count' \in [StreamIds -> StreamCounts]
      BY <1>1, <3>4, <3>5 DEF StatsTypes
    <3> QED BY <1>1, <1>2, <3>5, <3>6 DEF StatsTypes
  <2>2. CASE TimerFires
    BY <1>1, <1>2, <2>2 DEF TimerFires, StatsTypes, Listing, countVars
  <2>3. CASE RowsCleared \/ UNCHANGED statsVars
    BY <1>1, <1>2, <2>3 DEF RowsCleared, StatsTypes, statsVars, countVars, pollVars
  <2> QED BY <2>1, <2>2, <2>3
<1>4. Listing' /\ WindowsRight'
  BY <1>1, <1>2 DEF Listing, WindowsRight, WindowRight
<1>5. Growing
  BY <1>2 DEF Growing
<1>6. CASE RowsCleared
  <2>1. \A t \in telling' : t.of \in Vehicles /\ t.source \in Sources
    BY <1>1, <1>2 DEF TellingRight
  <2>2. TellingRight'
    BY <1>1, <1>2, <1>5, <2>1, DelayStays DEF TellingRight
  <2>3. RowsRight'
    BY <1>6 DEF RowsRight, RowsCleared
  <2> QED BY <1>3, <1>4, <2>2, <2>3 DEF StatsInv
<1>7. CASE rows' = rows
  BY <1>1, <1>2, <1>3, <1>4, <1>5, <1>7, TableStays DEF StatsInv
<1> QED BY <1>6, <1>7 DEF FrameCounted, TimerFires, statsVars

\* Every delay the console shows is the mean over the frames between two
\* reports of that very stream, adjacent ones unless its vehicle was given a
\* connection over another, for every number of vehicles, sources, connections
\* and reports, in whatever order connections come and go and reports are heard.
THEOREM DelaysAreOfTheirStream == StatisticsSpec => []DelaysAreMeans
<1>1. StatisticsInit => StatsInv
  <2> SUFFICES ASSUME StatisticsInit PROVE StatsInv
    OBVIOUS
  <2>1. link = <<>> /\ DOMAIN link = {} /\ Len(link) = 0 /\ arrived = <<>> /\ DOMAIN arrived = {}
        /\ link \in Seq([of : Vehicles, open : BOOLEAN]) /\ arrived \in Seq(StatsReports)
    BY EmptySeq DEF StatisticsInit
  <2>2. \A w \in StreamIds : windows[w] = {} /\ reported[w] = <<>>
    BY DEF StatisticsInit
  <2>3. <<>> \in Seq(StreamCounts)
    BY EmptySeq
  <2>4. count \in [StreamIds -> StreamCounts]
    BY DEF StatisticsInit, StreamCounts
  <2>5. StatsTypes
    <3>1. reported \in [StreamIds -> Seq(StreamCounts)] /\ windows \in [StreamIds -> SUBSET StreamCounts]
      BY <2>3 DEF StatisticsInit
    <3>2. listed \in [Vehicles -> 0 .. MaxDials] /\ mapped \in [Vehicles -> [Sources -> 0 .. MaxDials]]
          /\ Len(link) =< MaxDials /\ replaced \subseteq Vehicles /\ asked \subseteq DOMAIN link
      BY <2>1, StatisticsConstants DEF StatisticsInit
    <3> QED BY <2>1, <2>4, <3>1, <3>2 DEF StatsTypes
  <2>6. Listing /\ WindowsRight
    BY <2>1, <2>2 DEF Listing, WindowsRight, StatisticsInit, StreamIds
  <2>7. RowsRight /\ TellingRight
    BY DEF RowsRight, TellingRight, StatisticsInit
  <2> QED BY <2>5, <2>6, <2>7 DEF StatsInv
<1>2. StatsInv /\ [StatisticsNext]_statsVars => StatsInv'
  BY DialKeeps, ConnectedKeeps, StatsDestroyKeeps, RunReportKeeps, TellsKeep, AnswerKeeps, OthersKeep
     DEF StatisticsNext
<1>3. StatsInv => DelaysAreMeans
  BY DEF StatsInv, RowsRight, DelayRight, DelaysAreMeans
<1> QED BY <1>1, <1>2, <1>3, PTL DEF StatisticsSpec

-----------------------------------------------------------------------------
(* Peer connections.                                                        *)

Channels == {"none", "connecting", "open", "closed"}
Connections == [remote : Remotes \cup {NoRemote}, role : {"none", "offer", "answer"},
                pc : {"none", "open", "closed"},
                sdp : {"none", "creating", "created", "sent", "lost", "answered", "stable"},
                ice : {"new", "connected", "disconnected", "failed", "closed"},
                dc : Channels, known : BOOLEAN, prio : BOOLEAN]
Reports == {"sdp", "p2p", "channel", "newchannel"}
PeerTasks == [task : Reports \cup {"offer", "answer", "outage"}, conn : 0 .. MaxConns,
              remote : Remotes \cup {NoRemote},
              arg : {"none", "Connected", "Disconnected", "Failed", "Closed", "good", "bad", "refused"}]

PeerTypes ==
    /\ made \in 0 .. MaxConns /\ senders \in 0 .. MaxConns
    /\ conn \in [Conns -> Connections] /\ map \in [Remotes -> 0 .. MaxConns]
    /\ queue \in Seq(PeerTasks) /\ told \in [Remotes -> Channels]
    /\ stats \subseteq Remotes /\ clash \subseteq Remotes

\* What is true of a connection whatever is waiting.
Grown ==
    /\ senders =< made
    /\ \A c \in Conns :
       /\ made < c => conn[c] = Unused
       /\ c =< made => conn[c].remote \in Remotes /\ conn[c].pc # "none" /\ conn[c].role # "none"
       /\ conn[c].dc = "open" => conn[c].pc = "open" /\ conn[c].sdp # "none"
       /\ conn[c].sdp = "none" => conn[c].ice \in {"new", "closed"}
       /\ conn[c].role = "answer" /\ conn[c].sdp # "none" => conn[c].prio
       /\ conn[c].role = "offer" => conn[c].known

\* A task names the remote of its connection, which was negotiated; the observer
\* of a channel is known.
Sound(t) ==
    /\ t.task \in Reports => t.conn # 0
    /\ t.task # "outage" => t.remote \in Remotes
    /\ t.conn # 0 => /\ t.conn =< made /\ t.remote = conn[t.conn].remote /\ conn[t.conn].sdp # "none"
                     /\ t.task = "channel" => conn[t.conn].known
Waiting == \A t \in Range(queue) : Sound(t)

Negotiated == \A r \in Remotes : map[r] # 0 => conn[map[r]].sdp # "none"

\* A channel that was said to be open is, or its end is still to be told.
Closes(t, r) == t.task = "channel" /\ conn[t.conn].remote = r /\ conn[t.conn].dc = "closed"
IsOpen(c, r) == conn[c].remote = r /\ conn[c].dc = "open" /\ conn[c].known
ToldOf(r) == (\E c \in 1 .. made : IsOpen(c, r)) \/ \E t \in Range(queue) : Closes(t, r)
ToldOpen == \A r \in Remotes \ clash : told[r] = "open" => ToldOf(r)

PeerInv ==
    /\ PeerTypes /\ Grown /\ Waiting /\ Negotiated /\ ToldOpen
    /\ NoLostConnection /\ StatsOfLive /\ NewestLimited

-----------------------------------------------------------------------------
(* The tasks of a queue, as a set.                                          *)

LEMMA RestOfTasks ==
    ASSUME NEW S, NEW q \in Seq(S), q # <<>>
    PROVE  Head(q) \in Range(q) /\ Tail(q) \in Seq(S) /\ Range(q) = {Head(q)} \cup Range(Tail(q))
<1> SUFFICES ASSUME NEW r, r = Tail(q)
             PROVE  Head(q) \in Range(q) /\ r \in Seq(S) /\ Range(q) = {Head(q)} \cup Range(r)
  OBVIOUS
<1>1. /\ r \in Seq(S) /\ Len(r) = Len(q) - 1 /\ \A i \in 1 .. Len(r) : r[i] = q[i + 1]
      /\ Len(q) \in Nat \ {0} /\ Head(q) = q[1]
  BY HeadTailProperties, EmptySeq
<1>2. DOMAIN q = 1 .. Len(q) /\ DOMAIN r = 1 .. Len(r)
  BY <1>1, LenProperties
<1>3. ASSUME NEW t \in Range(q) PROVE t \in {Head(q)} \cup Range(r)
  <2>1. PICK i \in 1 .. Len(q) : t = q[i]
    BY <1>2 DEF Range
  <2>2. CASE i = 1
    BY <1>1, <2>1, <2>2
  <2>3. CASE i # 1
    <3>1. i - 1 \in 1 .. Len(r) /\ r[i - 1] = q[(i - 1) + 1] /\ (i - 1) + 1 = i
      BY <1>1, <2>1, <2>3
    <3> QED BY <1>2, <2>1, <3>1 DEF Range
  <2> QED BY <2>2, <2>3
<1>4. ASSUME NEW t \in {Head(q)} \cup Range(r) PROVE t \in Range(q)
  <2>1. CASE t = Head(q)
    BY <1>1, <1>2, <2>1 DEF Range
  <2>2. CASE t \in Range(r)
    <3>1. PICK i \in 1 .. Len(r) : t = r[i]
      BY <1>2, <2>2 DEF Range
    <3>2. i + 1 \in 1 .. Len(q) /\ t = q[i + 1]
      BY <1>1, <3>1
    <3> QED BY <1>2, <3>2 DEF Range
  <2> QED BY <2>1, <2>2
<1> QED BY <1>1, <1>3, <1>4

LEMMA TasksAnd ==
    ASSUME NEW S, NEW q \in Seq(S), NEW t \in S
    PROVE  Append(q, t) \in Seq(S) /\ Range(Append(q, t)) = Range(q) \cup {t}
<1>1. Append(q, t) = q \o <<t>> /\ <<t>> \in Seq(S)
  BY AppendIsConcat
<1>2. Range(q \o <<t>>) = Range(q) \cup Range(<<t>>)
  <2>1. PICK s \in Seq(S) : s = <<t>>
    BY <1>1
  <2>2. Range(q \o s) = Range(q) \cup Range(s)
    BY RangeConcatenation
  <2> QED BY <2>1, <2>2
<1>3. Range(<<t>>) = {t}
  <2>1. DOMAIN <<t>> = {1} /\ <<t>>[1] = t
    OBVIOUS
  <2> QED BY <2>1 DEF Range
<1> QED BY <1>1, <1>2, <1>3, AppendProperties

LEMMA FiniteImage ==
    ASSUME NEW f, IsFiniteSet(DOMAIN f), f = [x \in DOMAIN f |-> f[x]] PROVE IsFiniteSet(Range(f))
<1>1. f \in Surjection(DOMAIN f, Range(f))
  BY DEF Surjection, Range
<1> QED BY <1>1, FS_Surjection

-----------------------------------------------------------------------------
(* Destroying.                                                              *)

Hit(victims) == {map[r] : r \in victims} \ {0}
Ends(c) == Task("channel", c, conn[c].remote, "none")
IsClosed(c) == Task("p2p", c, conn[c].remote, "Closed")
Heard(c) == conn[c].known /\ conn[c].dc \in {"connecting", "open"}

\* What destroying leaves of the connections, and which tasks it adds: the end of
\* every channel that is observed, and what the connections hit report of closing.
LEMMA Destruction ==
    ASSUME PeerTypes, Grown, NoLostConnection, NEW victims \in SUBSET Remotes, NEW q \in Seq(PeerTasks),
           DestroyPeers(victims, map, q)
    PROVE  /\ Hit(victims) \subseteq 1 .. made
           /\ map' = [r \in Remotes |-> IF r \in victims THEN 0 ELSE map[r]]
           /\ conn' = [c \in Conns |->
                         IF c \notin Hit(victims) THEN conn[c]
                         ELSE [conn[c] EXCEPT !.pc = "closed", !.ice = "closed",
                                 !.dc = IF @ = "none" THEN @ ELSE "closed"]]
           /\ stats' = stats \ victims
           /\ queue' \in Seq(PeerTasks) /\ Range(q) \subseteq Range(queue')
           /\ \A t \in Range(queue') : \/ t \in Range(q)
                                       \/ \E c \in Hit(victims) : Heard(c) /\ t = Ends(c)
                                       \/ \E c \in Hit(victims) : t = IsClosed(c)
           /\ \A c \in Hit(victims) : Heard(c) => Ends(c) \in Range(queue')
<1> DEFINE heard == {c \in Hit(victims) : Heard(c)}
           ends == {Ends(c) : c \in heard}
           closes == {IsClosed(c) : c \in Hit(victims)}
<1>1. /\ map' = [r \in Remotes |-> IF r \in victims THEN 0 ELSE map[r]]
      /\ conn' = [c \in Conns |->
                    IF c \notin Hit(victims) THEN conn[c]
                    ELSE [conn[c] EXCEPT !.pc = "closed", !.ice = "closed",
                            !.dc = IF @ = "none" THEN @ ELSE "closed"]]
      /\ stats' = stats \ victims
      /\ \E reports \in {ends, ends \cup closes} : \E s \in InTurn(reports) : queue' = q \o s
  BY DEF DestroyPeers, Hit, Heard, Ends, IsClosed
<1>2. made \in Nat /\ MaxConns \in Nat /\ made =< MaxConns
  BY PeerConnectionsConstants DEF PeerTypes
<1>3. Hit(victims) \subseteq 1 .. made
  <2>1. ASSUME NEW r \in victims, map[r] # 0 PROVE map[r] \in 1 .. made
    <3>1. map[r] \in Conns /\ conn[map[r]].pc = "open"
      BY <2>1, <1>2 DEF NoLostConnection, Live, PeerTypes, Conns
    <3>2. ~(made < map[r])
      BY <3>1 DEF Grown, Unused
    <3> QED BY <1>2, <3>1, <3>2 DEF Conns
  <2> QED BY <2>1 DEF Hit
<1>4. IsFiniteSet(Hit(victims))
  <2>1. IsFiniteSet(1 .. made)
    BY <1>2, FS_Interval
  <2> QED BY <1>3, <2>1, FS_Subset
<1>5. \A c \in Hit(victims) : Ends(c) \in PeerTasks /\ IsClosed(c) \in PeerTasks
  <2>1. ASSUME NEW c \in Hit(victims) PROVE c \in 0 .. MaxConns /\ conn[c].remote \in Remotes
    <3>1. c \in Conns /\ c =< made
      BY <1>2, <1>3 DEF Conns
    <3> QED BY <1>2, <3>1 DEF Conns, Grown
  <2> QED BY <2>1 DEF Ends, IsClosed, Task, PeerTasks, Reports
<1>6. IsFiniteSet(ends) /\ IsFiniteSet(closes)
  <2>1. IsFiniteSet(heard)
    BY <1>4, FS_Subset
  <2> DEFINE f == [c \in heard |-> Ends(c)]
             g == [c \in Hit(victims) |-> IsClosed(c)]
  <2>2. Range(f) = ends /\ DOMAIN f = heard /\ f = [x \in DOMAIN f |-> f[x]]
    BY DEF Range
  <2>3. Range(g) = closes /\ DOMAIN g = Hit(victims) /\ g = [x \in DOMAIN g |-> g[x]]
    BY DEF Range
  <2> HIDE DEF f, g, ends, closes, heard
  <2> QED BY <1>4, <2>1, <2>2, <2>3, FiniteImage
<1>7. PICK reports \in {ends, ends \cup closes} : \E s \in InTurn(reports) : queue' = q \o s
  BY <1>1
<1>8. PICK s \in InTurn(reports) : queue' = q \o s
  BY <1>7
<1>9. ends \subseteq reports /\ reports \subseteq ends \cup closes /\ reports \subseteq PeerTasks
  BY <1>5, <1>7
<1>10. ends \subseteq {Ends(c) : c \in {d \in Hit(victims) : Heard(d)}} /\ closes \subseteq {IsClosed(c) : c \in Hit(victims)}
  OBVIOUS
<1>11. \A c \in Hit(victims) : Heard(c) => Ends(c) \in ends
  OBVIOUS
<1> HIDE DEF ends, closes, heard
<1>12. IsFiniteSet(reports)
  BY <1>6, <1>7, FS_Union
<1>13. Cardinality(reports) \in Nat /\ s \in [1 .. Cardinality(reports) -> reports]
       /\ \A t \in reports : \E i \in DOMAIN s : s[i] = t
  BY <1>8, <1>12, FS_CardinalityType DEF InTurn
<1>14. s \in Seq(PeerTasks) /\ Range(s) = reports
  <2>1. Range(s) = reports
    BY <1>13 DEF Range
  <2>2. s \in [1 .. Cardinality(reports) -> PeerTasks]
    BY <1>9, <1>13
  <2>3. s \in Seq(PeerTasks)
    BY <1>13, <2>2
  <2> QED BY <2>1, <2>3
<1>15. queue' \in Seq(PeerTasks) /\ Range(queue') = Range(q) \cup reports
  <2>1. q \o s \in Seq(PeerTasks) /\ Range(q \o s) = Range(q) \cup Range(s)
    BY <1>14, ConcatProperties, RangeConcatenation
  <2> QED BY <1>8, <1>14, <2>1
<1>16. \A t \in Range(queue') : \/ t \in Range(q)
                                \/ \E c \in Hit(victims) : Heard(c) /\ t = Ends(c)
                                \/ \E c \in Hit(victims) : t = IsClosed(c)
  BY <1>9, <1>10, <1>15
<1>17. \A c \in Hit(victims) : Heard(c) => Ends(c) \in Range(queue')
  BY <1>9, <1>11, <1>15
<1> QED BY <1>1, <1>3, <1>15, <1>16, <1>17

LEMMA DestroyKeeps ==
    ASSUME PeerInv, NEW victims \in SUBSET Remotes, NEW q \in Seq(PeerTasks),
           Range(q) \subseteq Range(queue), DestroyPeers(victims, map, q),
           UNCHANGED <<made, senders, clash>>, told' \in [Remotes -> Channels],
           \A r \in Remotes \ clash : told'[r] = "open" =>
              \/ \E c \in 1 .. made : IsOpen(c, r)
              \/ \E t \in Range(q) : Closes(t, r)
    PROVE  PeerInv'
<1>i. PeerTypes /\ Grown /\ Waiting /\ Negotiated /\ NoLostConnection /\ StatsOfLive /\ NewestLimited
  BY DEF PeerInv
<1>k. made \in Nat /\ MaxConns \in Nat /\ made =< MaxConns
  BY <1>i, PeerConnectionsConstants DEF PeerTypes
<1>1. Hit(victims) \subseteq 1 .. made
  BY <1>i, Destruction
<1>m. map' = [r \in Remotes |-> IF r \in victims THEN 0 ELSE map[r]]
  BY <1>i, Destruction
<1>n. conn' = [c \in Conns |->
                 IF c \notin Hit(victims) THEN conn[c]
                 ELSE [conn[c] EXCEPT !.pc = "closed", !.ice = "closed",
                         !.dc = IF @ = "none" THEN @ ELSE "closed"]]
  BY <1>i, Destruction
<1>s. stats' = stats \ victims
  BY <1>i, Destruction
<1>2. /\ queue' \in Seq(PeerTasks) /\ Range(q) \subseteq Range(queue')
      /\ \A t \in Range(queue') : \/ t \in Range(q)
                                  \/ \E c \in Hit(victims) : Heard(c) /\ t = Ends(c)
                                  \/ \E c \in Hit(victims) : t = IsClosed(c)
      /\ \A c \in Hit(victims) : Heard(c) => Ends(c) \in Range(queue')
  BY <1>i, Destruction
<1>3. \A c \in Hit(victims) : \E r \in victims : r \in Remotes /\ map[r] = c /\ c # 0
  BY DEF Hit
<1>4. \A r \in victims : map[r] # 0 => map[r] \in Hit(victims)
  BY DEF Hit
<1>h. Hit(victims) \subseteq Conns
  BY <1>1, <1>k DEF Conns
<1>c. /\ \A c \in Hit(victims) : conn'[c] = [conn[c] EXCEPT !.pc = "closed", !.ice = "closed",
                                          !.dc = IF @ = "none" THEN @ ELSE "closed"]
      /\ \A c \in Conns \ Hit(victims) : conn'[c] = conn[c]
  BY <1>n, <1>h
<1>d. ASSUME NEW c \in Hit(victims)
      PROVE  /\ conn'[c] \in Connections
             /\ conn'[c].remote = conn[c].remote /\ conn'[c].role = conn[c].role
             /\ conn'[c].sdp = conn[c].sdp /\ conn'[c].known = conn[c].known
             /\ conn'[c].prio = conn[c].prio
             /\ conn'[c].pc = "closed" /\ conn'[c].ice = "closed"
             /\ conn'[c].dc = (IF conn[c].dc = "none" THEN "none" ELSE "closed")
  <2>1. conn[c] \in Connections
    BY <1>i, <1>h DEF PeerTypes
  <2>2. conn'[c] = [conn[c] EXCEPT !.pc = "closed", !.ice = "closed",
                                   !.dc = IF @ = "none" THEN @ ELSE "closed"]
    BY <1>c
  <2> QED BY <2>1, <2>2 DEF Connections, Channels
<1>5. /\ Hit(victims) \subseteq Conns
      /\ \A c \in Conns : conn'[c] \in Connections
                          /\ conn'[c].remote = conn[c].remote /\ conn'[c].role = conn[c].role
                          /\ conn'[c].sdp = conn[c].sdp /\ conn'[c].known = conn[c].known
                          /\ conn'[c].prio = conn[c].prio
      /\ \A c \in Hit(victims) : conn'[c].pc = "closed" /\ conn'[c].ice = "closed"
                                 /\ conn'[c].dc = (IF conn[c].dc = "none" THEN "none" ELSE "closed")
      /\ \A c \in Conns \ Hit(victims) : conn'[c] = conn[c]
  <2>1. \A c \in Conns \ Hit(victims) : conn'[c] \in Connections
    BY <1>i, <1>c DEF PeerTypes
  <2> QED BY <1>h, <1>c, <1>d, <2>1
<1>6. PeerTypes'
  <2>1. conn' \in [Conns -> Connections]
    <3>1. \A c \in Conns : conn'[c] \in Connections
      BY <1>5
    <3> QED BY <1>n, <3>1
  <2>2. map' \in [Remotes -> 0 .. MaxConns]
    <3>1. 0 \in 0 .. MaxConns /\ map \in [Remotes -> 0 .. MaxConns]
      BY <1>i, <1>k DEF PeerTypes
    <3> QED BY <1>m, <3>1
  <2>3. Connections' = Connections /\ PeerTasks' = PeerTasks /\ Channels' = Channels /\ Conns' = Conns
    BY DEF PeerTasks, Reports, Conns, Connections, Channels
  <2>4. made' \in 0 .. MaxConns /\ senders' \in 0 .. MaxConns /\ clash' \subseteq Remotes
        /\ stats' \subseteq Remotes
    BY <1>i, <1>s DEF PeerTypes
  <2> QED BY <1>2, <2>1, <2>2, <2>3, <2>4 DEF PeerTypes
<1>7. Grown'
  <2>1. ASSUME NEW c \in Conns
        PROVE  /\ made' < c => conn'[c] = Unused
               /\ c =< made' => conn'[c].remote \in Remotes /\ conn'[c].pc # "none" /\ conn'[c].role # "none"
               /\ conn'[c].dc = "open" => conn'[c].pc = "open" /\ conn'[c].sdp # "none"
               /\ conn'[c].sdp = "none" => conn'[c].ice \in {"new", "closed"}
               /\ conn'[c].role = "answer" /\ conn'[c].sdp # "none" => conn'[c].prio
               /\ conn'[c].role = "offer" => conn'[c].known
    <3>1. CASE c \in Hit(victims)
      <4>1. c =< made /\ ~(made < c)
        <5>1. c \in 1 .. made
          BY <1>1, <3>1
        <5> QED BY <1>k, <5>1
      <4>2. conn'[c].pc = "closed" /\ conn'[c].dc # "open" /\ conn'[c].ice = "closed"
        BY <1>5, <3>1
      <4> QED BY <1>5, <1>i, <4>1, <4>2 DEF Grown
    <3>2. CASE c \notin Hit(victims)
      <4>1. conn'[c] = conn[c]
        BY <1>5, <3>2
      <4> QED BY <1>i, <4>1 DEF Grown
    <3> QED BY <3>1, <3>2
  <2>2. senders' =< made'
    BY <1>i DEF Grown
  <2> QED BY <2>1, <2>2 DEF Grown, Conns
<1>8. Waiting'
  <2>1. ASSUME NEW t \in Range(queue') PROVE Sound(t)'
    <3>1. CASE t \in Range(q)
      <4>1. Sound(t) /\ t \in PeerTasks
        BY <1>i, <3>1, RangeOfSeq DEF Waiting, PeerTypes
      <4>2. t.conn # 0 => t.conn \in Conns
        BY <1>k, <4>1 DEF PeerTasks, Conns
      <4> QED BY <1>5, <4>1, <4>2 DEF Sound
    <3>2. ASSUME NEW c \in Hit(victims), (Heard(c) /\ t = Ends(c)) \/ t = IsClosed(c) PROVE Sound(t)'
      <4>1. c \in Conns /\ c # 0 /\ c =< made /\ conn[c].sdp # "none"
        <5>1. c \in 1 .. made
          BY <1>1
        <5>2. PICK r \in Remotes : map[r] = c /\ c # 0
          BY <1>3
        <5> QED BY <1>k, <5>1, <5>2, <1>i DEF Negotiated, Conns
      <4>2. conn[c].remote \in Remotes
        BY <1>i, <4>1 DEF Grown
      <4>3. t.conn = c /\ t.remote = conn[c].remote /\ (t.task = "channel" => conn[c].known)
            /\ t.task # "outage"
        BY <3>2 DEF Ends, IsClosed, Task, Heard
      <4> QED BY <1>5, <4>1, <4>2, <4>3 DEF Sound
    <3> QED BY <1>2, <3>1, <3>2
  <2> QED BY <2>1 DEF Waiting
<1>9. Negotiated'
  <2>1. ASSUME NEW r \in Remotes, map'[r] # 0 PROVE conn'[map'[r]].sdp # "none"
    <3>1. map'[r] = map[r]
      BY <1>m, <2>1
    <3>2. map[r] \in Conns
      BY <1>i, <1>k, <2>1, <3>1 DEF PeerTypes, Conns
    <3> QED BY <1>5, <1>i, <2>1, <3>1, <3>2 DEF Negotiated
  <2> QED BY <2>1 DEF Negotiated
<1>10. ToldOpen'
  <2>1. ASSUME NEW r \in Remotes \ clash, told'[r] = "open" PROVE ToldOf(r)'
    <3>1. ASSUME NEW c \in 1 .. made, IsOpen(c, r), c \in Hit(victims) PROVE ToldOf(r)'
      <4>1. Heard(c) /\ c \in Conns
        BY <1>5, <3>1 DEF IsOpen, Heard
      <4>2. Ends(c) \in Range(queue') /\ conn'[c].dc = "closed" /\ conn'[c].remote = r
        BY <1>2, <1>5, <3>1, <4>1 DEF IsOpen
      <4>3. Ends(c).task = "channel" /\ Ends(c).conn = c
        BY DEF Ends, Task
      <4>4. PICK t \in Range(queue') : t = Ends(c)
        BY <4>2
      <4>5. Closes(t, r)'
        BY <4>2, <4>3, <4>4 DEF Closes
      <4> QED BY <4>4, <4>5 DEF ToldOf
    <3>2. ASSUME NEW c \in 1 .. made, IsOpen(c, r), c \notin Hit(victims) PROVE ToldOf(r)'
      <4>1. conn'[c] = conn[c]
        BY <1>5, <1>k, <3>2 DEF Conns
      <4>2. IsOpen(c, r)'
        BY <3>2, <4>1 DEF IsOpen
      <4> QED BY <4>2 DEF ToldOf
    <3>3. ASSUME NEW t \in Range(q), Closes(t, r) PROVE ToldOf(r)'
      <4>1. Sound(t) /\ t \in PeerTasks
        BY <1>i, <3>3, RangeOfSeq DEF Waiting, PeerTypes
      <4>2. t.conn \in Conns
        BY <1>k, <3>3, <4>1 DEF PeerTasks, Conns, Sound, Closes, Reports
      <4>3. Closes(t, r)'
        BY <1>5, <3>3, <4>2 DEF Closes
      <4> QED BY <1>2, <4>3 DEF ToldOf
    <3> QED BY <2>1, <3>1, <3>2, <3>3
  <2> QED BY <2>1 DEF ToldOpen
<1>11. NoLostConnection'
  <2>1. ASSUME NEW r \in Remotes, map'[r] # 0
        PROVE  conn'[map'[r]].pc = "open" /\ conn'[map'[r]].remote = r
    <3>1. map'[r] = map[r] /\ r \notin victims
      BY <1>m, <2>1
    <3>2. conn[map[r]].pc = "open" /\ conn[map[r]].remote = r /\ map[r] \in Conns
      BY <1>i, <1>k, <2>1, <3>1 DEF NoLostConnection, Live, PeerTypes, Conns
    <3>3. map[r] \notin Hit(victims)
      BY <1>3, <1>i, <3>1, <3>2 DEF NoLostConnection
    <3> QED BY <1>5, <3>1, <3>2, <3>3
  <2>2. ASSUME NEW c \in Conns, Live(c)', conn'[c].sdp # "none", conn'[c].remote \notin clash
        PROVE  map'[conn'[c].remote] = c
    <3>1. c \notin Hit(victims)
      BY <1>5, <2>2 DEF Live
    <3>2. conn'[c] = conn[c] /\ Live(c)
      BY <1>5, <2>2, <3>1 DEF Live
    <3>3. map[conn[c].remote] = c
      BY <1>i, <2>2, <3>2 DEF NoLostConnection
    <3>4. conn[c].remote \in Remotes /\ c # 0
      BY <1>i, <1>k, <3>2 DEF Grown, Live, Unused, Conns, PeerTypes
    <3> QED BY <1>m, <1>4, <3>1, <3>2, <3>3, <3>4
  <2> QED BY <2>1, <2>2 DEF NoLostConnection, Conns, Live
<1>12. StatsOfLive'
  BY <1>i, <1>m, <1>s DEF StatsOfLive, PeerTypes
<1>13. NewestLimited'
  BY <1>i, <1>5 DEF NewestLimited, Conns
<1> QED BY <1>6, <1>7, <1>8, <1>9, <1>10, <1>11, <1>12, <1>13 DEF PeerInv

-----------------------------------------------------------------------------
(* The steps that destroy nothing.                                          *)

\* A task that waits stays sound as long as connections only grow.
LEMMA StaysSound ==
    ASSUME PeerTypes, NEW t \in Range(queue), Sound(t), made =< made', made' \in Nat,
           \A c \in Conns : c =< made =>
              conn'[c].remote = conn[c].remote /\ (conn[c].sdp # "none" => conn'[c].sdp # "none")
              /\ (conn[c].known => conn'[c].known)
    PROVE  Sound(t)'
<1>1. t \in PeerTasks
  BY RangeOfSeq DEF PeerTypes
<1>2. t.conn # 0 => t.conn \in Conns
  BY <1>1, PeerConnectionsConstants DEF PeerTasks, Conns
<1>3. made \in Nat /\ t.conn \in Nat /\ MaxConns \in Nat
  BY <1>1, PeerConnectionsConstants DEF PeerTasks, PeerTypes
<1> QED BY <1>2, <1>3 DEF Sound

\* Connections grow: what was negotiated, observed or limited stays that.
LEMMA GrowingKeeps ==
    ASSUME PeerInv, PeerTypes', UNCHANGED <<made, map, senders, clash>>,
           \A c \in Conns : c =< made =>
              /\ conn'[c].remote = conn[c].remote /\ conn'[c].role = conn[c].role
              /\ conn'[c].pc = conn[c].pc /\ (conn[c].sdp = "none" <=> conn'[c].sdp = "none")
              /\ (conn[c].known => conn'[c].known) /\ (conn[c].prio => conn'[c].prio)
              /\ (conn[c].sdp = "none" => conn'[c].ice = conn[c].ice)
              /\ (conn'[c].dc = "open" => conn[c].dc = "open" \/ (conn[c].pc = "open" /\ conn[c].sdp # "none"))
              /\ (conn'[c].sdp = "stable" /\ senders = c => conn'[c].prio),
           \A c \in Conns : made < c => conn'[c] = conn[c],
           \A t \in Range(queue') : t \in Range(queue) \/ Sound(t)',
           ToldOpen', \A r \in stats' \ clash : map[r] # 0
    PROVE  PeerInv'
<1>k. made \in Nat /\ MaxConns \in Nat /\ made =< MaxConns /\ senders \in Nat
  BY PeerConnectionsConstants DEF PeerTypes, PeerInv
<1>1. Grown'
  <2>1. ASSUME NEW c \in Conns
        PROVE  /\ made' < c => conn'[c] = Unused
               /\ c =< made' => conn'[c].remote \in Remotes /\ conn'[c].pc # "none" /\ conn'[c].role # "none"
               /\ conn'[c].dc = "open" => conn'[c].pc = "open" /\ conn'[c].sdp # "none"
               /\ conn'[c].sdp = "none" => conn'[c].ice \in {"new", "closed"}
               /\ conn'[c].role = "answer" /\ conn'[c].sdp # "none" => conn'[c].prio
               /\ conn'[c].role = "offer" => conn'[c].known
    <3>1. CASE c =< made
      <4>1. ~(made < c)
        BY <1>k, <3>1 DEF Conns
      <4> QED BY <3>1, <4>1 DEF PeerInv, Grown
    <3>2. CASE made < c
      <4>1. conn'[c] = conn[c] /\ ~(c =< made)
        BY <1>k, <3>2 DEF Conns
      <4> QED BY <3>2, <4>1 DEF PeerInv, Grown
    <3> QED BY <1>k, <3>1, <3>2 DEF Conns
  <2> QED BY <2>1 DEF Grown, Conns, PeerInv
<1>2. Waiting'
  <2>1. ASSUME NEW t \in Range(queue') PROVE Sound(t)'
    <3>1. CASE t \in Range(queue)
      <4>1. Sound(t) /\ PeerTypes
        BY <3>1 DEF PeerInv, Waiting
      <4> QED BY <1>k, <3>1, <4>1, StaysSound
    <3> QED BY <3>1
  <2> QED BY <2>1 DEF Waiting
<1>3. \A r \in Remotes : map[r] # 0 => map[r] \in Conns /\ map[r] =< made
  <2>1. ASSUME NEW r \in Remotes, map[r] # 0 PROVE map[r] \in Conns /\ map[r] =< made
    <3>1. map[r] \in Conns
      BY <1>k, <2>1 DEF PeerInv, PeerTypes, Conns
    <3>2. ~(made < map[r])
      BY <2>1, <3>1 DEF PeerInv, NoLostConnection, Live, Grown, Unused
    <3> QED BY <1>k, <3>1, <3>2 DEF Conns
  <2> QED BY <2>1
<1>4. Negotiated'
  BY <1>3 DEF PeerInv, Negotiated
<1>5. NoLostConnection'
  <2>1. ASSUME NEW r \in Remotes, map'[r] # 0
        PROVE  conn'[map'[r]].pc = "open" /\ conn'[map'[r]].remote = r
    BY <1>3, <2>1 DEF PeerInv, NoLostConnection, Live
  <2>2. ASSUME NEW c \in Conns, conn'[c].pc = "open", conn'[c].sdp # "none", conn'[c].remote \notin clash
        PROVE  map'[conn'[c].remote] = c
    <3>1. c =< made
      <4>1. CASE made < c
        BY <2>2, <4>1 DEF PeerInv, Grown, Unused
      <4> QED BY <1>k, <4>1 DEF Conns
    <3> QED BY <2>2, <3>1 DEF PeerInv, NoLostConnection, Live
  <2> QED BY <2>1, <2>2 DEF NoLostConnection, Live, Conns
<1>6. StatsOfLive'
  BY DEF StatsOfLive
<1>7. NewestLimited'
  <2>1. ASSUME NEW c \in Conns, conn'[c].sdp = "stable", senders' = c PROVE conn'[c].prio
    <3>1. CASE c =< made
      BY <2>1, <3>1
    <3>2. CASE made < c
      BY <1>k, <2>1, <3>2 DEF PeerInv, Grown
    <3> QED BY <1>k, <3>1, <3>2 DEF Conns
  <2> QED BY <2>1 DEF NewestLimited, Conns
<1> QED BY <1>1, <1>2, <1>4, <1>5, <1>6, <1>7 DEF PeerInv

\* A connection is made, and kept in the map if its description parses.
LEMMA BeginningKeeps ==
    ASSUME PeerInv, made < MaxConns, NEW x \in Connections, x.remote \in Remotes,
           x.role # "none", x.pc = "open", x.dc = "connecting", x.ice = "new",
           x.sdp \in {"none", "creating"}, x.role = "answer" /\ x.sdp # "none" => x.prio,
           x.role = "offer" => x.known,
           made' = made + 1, senders' = made + 1, conn' = [conn EXCEPT ![made + 1] = x],
           queue' \in Seq(PeerTasks), Range(queue') \subseteq Range(queue),
           \A t \in Range(queue) \ Range(queue') : t.task # "channel",
           UNCHANGED <<told, stats>>, clash \subseteq clash', clash' \subseteq Remotes,
           \/ x.sdp = "none" /\ UNCHANGED <<map, clash>>
           \/ /\ x.sdp = "creating" /\ map' = [map EXCEPT ![x.remote] = made + 1]
              /\ x.remote \notin clash' =>
                    \A c \in 1 .. made : conn[c].remote = x.remote => conn[c].pc # "open"
    PROVE  PeerInv'
<1>k. made \in Nat /\ MaxConns \in Nat /\ made + 1 \in Conns /\ senders \in Nat /\ PeerTypes
  BY PeerConnectionsConstants DEF PeerTypes, PeerInv, Conns
<1>1. conn'[made + 1] = x /\ \A c \in Conns : c # made + 1 => conn'[c] = conn[c]
  BY <1>k DEF PeerTypes
<1>2. PeerTypes'
  <2>1. conn' \in [Conns -> Connections]
    BY <1>k DEF PeerTypes
  <2>2. map' \in [Remotes -> 0 .. MaxConns] /\ made' \in 0 .. MaxConns /\ senders' \in 0 .. MaxConns
    BY <1>k DEF PeerTypes, Conns
  <2>3. Connections' = Connections /\ PeerTasks' = PeerTasks /\ Channels' = Channels /\ Conns' = Conns
    BY DEF PeerTasks, Reports, Conns, Connections, Channels
  <2> QED BY <1>k, <2>1, <2>2, <2>3 DEF PeerTypes
<1>3. Grown'
  <2>1. ASSUME NEW c \in Conns
        PROVE  /\ made' < c => conn'[c] = Unused
               /\ c =< made' => conn'[c].remote \in Remotes /\ conn'[c].pc # "none" /\ conn'[c].role # "none"
               /\ conn'[c].dc = "open" => conn'[c].pc = "open" /\ conn'[c].sdp # "none"
               /\ conn'[c].sdp = "none" => conn'[c].ice \in {"new", "closed"}
               /\ conn'[c].role = "answer" /\ conn'[c].sdp # "none" => conn'[c].prio
               /\ conn'[c].role = "offer" => conn'[c].known
    <3>1. CASE c = made + 1
      BY <1>1, <1>k, <3>1
    <3>2. CASE c # made + 1
      <4>1. conn'[c] = conn[c] /\ (made' < c => made < c) /\ (c =< made' => c =< made)
        BY <1>1, <1>k, <3>2 DEF Conns
      <4> QED BY <4>1 DEF PeerInv, Grown
    <3> QED BY <3>1, <3>2
  <2> QED BY <1>k, <2>1 DEF Grown, Conns
<1>4. Waiting'
  <2>1. \A c \in Conns : c =< made => conn'[c] = conn[c]
    BY <1>1, <1>k
  <2>2. \A t \in Range(queue) : Sound(t)
    BY DEF PeerInv, Waiting
  <2> QED BY <1>k, <2>1, <2>2, StaysSound DEF Waiting
<1>5. Negotiated'
  <2>1. ASSUME NEW r \in Remotes, map'[r] # 0 PROVE conn'[map'[r]].sdp # "none"
    <3>1. CASE map'[r] = made + 1
      <4>1. CASE x.sdp = "none"
        <5>1. map[r] = made + 1
          BY <3>1, <4>1
        <5>2. conn[made + 1] = Unused
          BY <1>k DEF PeerInv, Grown
        <5> QED BY <1>k, <2>1, <5>1, <5>2 DEF PeerInv, Negotiated, Unused
      <4> QED BY <1>1, <3>1, <4>1
    <3>2. CASE map'[r] # made + 1
      <4>1. map'[r] = map[r] /\ map[r] \in Conns
        BY <1>k, <2>1, <3>2 DEF PeerTypes, Conns
      <4> QED BY <1>1, <2>1, <3>2, <4>1 DEF PeerInv, Negotiated
    <3> QED BY <3>1, <3>2
  <2> QED BY <2>1 DEF Negotiated
<1>6. ToldOpen'
  <2>1. ASSUME NEW r \in Remotes \ clash', told'[r] = "open" PROVE ToldOf(r)'
    <3>1. ToldOf(r)
      BY <2>1 DEF PeerInv, ToldOpen
    <3>2. ASSUME NEW c \in 1 .. made, IsOpen(c, r) PROVE ToldOf(r)'
      <4>1. conn'[c] = conn[c] /\ c \in 1 .. made'
        BY <1>1, <1>k DEF Conns
      <4>2. IsOpen(c, r)'
        BY <3>2, <4>1 DEF IsOpen
      <4> QED BY <4>1, <4>2 DEF ToldOf
    <3>3. ASSUME NEW t \in Range(queue), Closes(t, r) PROVE ToldOf(r)'
      <4>1. t \in PeerTasks /\ Sound(t)
        BY <1>k, RangeOfSeq DEF PeerInv, Waiting, PeerTypes
      <4>2. t.conn \in Conns /\ t.conn =< made
        BY <1>k, <3>3, <4>1 DEF PeerTasks, Sound, Closes, Reports, Conns
      <4>3. conn'[t.conn] = conn[t.conn]
        BY <1>1, <1>k, <4>2 DEF Conns
      <4>4. t \in Range(queue') /\ Closes(t, r)'
        BY <3>3, <4>3 DEF Closes
      <4> QED BY <4>4 DEF ToldOf
    <3> QED BY <3>1, <3>2, <3>3 DEF ToldOf
  <2> QED BY <2>1 DEF ToldOpen
<1>7. NoLostConnection'
  <2>1. ASSUME NEW r \in Remotes, map'[r] # 0
        PROVE  conn'[map'[r]].pc = "open" /\ conn'[map'[r]].remote = r
    <3>1. CASE map'[r] = made + 1 /\ map[r] # made + 1
      <4>1. r = x.remote
        BY <1>k, <3>1 DEF PeerTypes
      <4> QED BY <1>1, <3>1, <4>1
    <3>2. CASE map'[r] = map[r]
      <4>1. map[r] \in Conns /\ conn[map[r]].pc = "open" /\ conn[map[r]].remote = r
        BY <1>k, <2>1, <3>2 DEF PeerInv, PeerTypes, Conns, NoLostConnection, Live
      <4>2. map[r] # made + 1
        BY <1>k, <4>1 DEF PeerInv, Grown, Unused
      <4> QED BY <1>1, <3>2, <4>1, <4>2
    <3> QED BY <1>k, <3>1, <3>2 DEF PeerTypes
  <2>2. ASSUME NEW c \in Conns, conn'[c].pc = "open", conn'[c].sdp # "none", conn'[c].remote \notin clash'
        PROVE  map'[conn'[c].remote] = c
    <3>1. CASE c = made + 1
      BY <1>1, <1>k, <2>2, <3>1 DEF PeerTypes
    <3>2. CASE c # made + 1
      <4>1. conn'[c] = conn[c]
        BY <1>1, <3>2
      <4>2. map[conn[c].remote] = c
        BY <2>2, <4>1 DEF PeerInv, NoLostConnection, Live
      <4>3. ~(made < c) /\ c \in 1 .. made /\ conn[c].remote \in Remotes
        <5>1. ~(made < c)
          BY <2>2, <4>1 DEF PeerInv, Grown, Unused
        <5> QED BY <1>k, <5>1 DEF Conns, PeerInv, Grown
      <4>4. map'[conn[c].remote] = map[conn[c].remote]
        BY <1>k, <2>2, <4>1, <4>3 DEF PeerTypes
      <4> QED BY <4>1, <4>2, <4>4
    <3> QED BY <3>1, <3>2
  <2> QED BY <2>1, <2>2 DEF NoLostConnection, Live, Conns
<1>8. StatsOfLive'
  <2>1. ASSUME NEW r \in stats \ clash' PROVE map'[r] # 0
    BY <1>k DEF PeerInv, StatsOfLive, PeerTypes
  <2> QED BY <2>1 DEF StatsOfLive
<1>9. NewestLimited'
  BY <1>1, <1>k DEF NewestLimited, Conns
<1> QED BY <1>2, <1>3, <1>4, <1>5, <1>6, <1>7, <1>8, <1>9 DEF PeerInv

\* What the application was told of a channel stays accounted for.
LEMMA ToldStays ==
    ASSUME PeerInv, UNCHANGED <<made, clash, told>>,
           \A c \in 1 .. made : conn'[c].remote = conn[c].remote
              /\ (conn[c].dc = "closed" => conn'[c].dc = "closed"),
           \A t \in Range(queue) : t.task = "channel" => t \in Range(queue'),
           \A c \in 1 .. made : \A r \in Remotes : IsOpen(c, r) => ToldOf(r)'
    PROVE  ToldOpen'
<1>k. made \in Nat /\ MaxConns \in Nat /\ PeerTypes
  BY PeerConnectionsConstants DEF PeerTypes, PeerInv
<1>1. ASSUME NEW r \in Remotes \ clash, told[r] = "open" PROVE ToldOf(r)'
  <2>1. ToldOf(r)
    BY <1>1 DEF PeerInv, ToldOpen
  <2>2. ASSUME NEW t \in Range(queue), Closes(t, r) PROVE ToldOf(r)'
    <3>1. t \in PeerTasks /\ Sound(t)
      BY <1>k, RangeOfSeq DEF PeerInv, Waiting, PeerTypes
    <3>2. t.conn \in 1 .. made
      BY <1>k, <2>2, <3>1 DEF PeerTasks, Sound, Closes, Reports
    <3>3. t \in Range(queue') /\ Closes(t, r)'
      BY <2>2, <3>2 DEF Closes
    <3> QED BY <3>3 DEF ToldOf
  <2> QED BY <2>1, <2>2 DEF ToldOf
<1> QED BY <1>1 DEF ToldOpen

LEMMA SameTypes ==
    Connections' = Connections /\ PeerTasks' = PeerTasks /\ Channels' = Channels /\ Conns' = Conns
BY DEF PeerTasks, Reports, Conns, Connections, Channels

\* One field of a connection moves on, the way WebRTC lets it.
MovesOn(c) ==
    /\ conn' \in [Conns -> Connections] /\ \A d \in Conns : d # c => conn'[d] = conn[d]
    /\ conn'[c].remote = conn[c].remote /\ conn'[c].role = conn[c].role
    /\ conn'[c].pc = conn[c].pc /\ conn'[c].known = conn[c].known /\ conn'[c].prio = conn[c].prio
    /\ conn[c].sdp = "none" <=> conn'[c].sdp = "none"
    /\ conn[c].sdp = "none" => conn'[c].ice = conn[c].ice
    /\ conn[c].dc = "closed" => conn'[c].dc = "closed"
    /\ conn'[c].dc = "open" => conn[c].dc = "open" \/ (conn[c].pc = "open" /\ conn[c].sdp # "none")
    /\ conn'[c].sdp = "stable" => conn[c].sdp = "stable"
    /\ conn[c].dc = "open" /\ conn'[c].dc # "open" => conn'[c].dc = "closed"

\* One field of an open connection moves on, and a report may be posted.
LEMMA WebRtcStep == ASSUME PeerInv, NEW c \in Conns, WebRtc(c) PROVE PeerInv'
<1>k. made \in Nat /\ MaxConns \in Nat /\ PeerTypes /\ Grown /\ made =< MaxConns
  BY PeerConnectionsConstants DEF PeerTypes, PeerInv
<1>u. UNCHANGED <<made, map, senders, told, stats, clash>>
  BY DEF WebRtc, SdpCreated, IceConnects, IceDisconnects, IceFails, IceMoves, ChannelOpens, ChannelCloses
<1>1. Live(c)
  BY DEF WebRtc, SdpCreated, IceConnects, IceDisconnects, IceFails, IceMoves, ChannelOpens, ChannelCloses
<1>2. c \in 1 .. made /\ conn[c].remote \in Remotes
  <2>1. ~(made < c)
    BY <1>k, <1>1 DEF Grown, Live, Unused
  <2> QED BY <1>k, <2>1 DEF Conns, Grown
<1>3. \/ /\ conn[c].sdp = "creating" /\ conn' = [conn EXCEPT ![c].sdp = "created"]
         /\ Posts("sdp", c, "none")
      \/ /\ conn[c].sdp = "stable" /\ \E to \in {"connected", "disconnected", "failed"} : conn' = [conn EXCEPT ![c].ice = to]
         /\ \E x \in {"Connected", "Disconnected", "Failed"} : Posts("p2p", c, x)
      \/ /\ conn[c].ice = "connected" /\ conn' = [conn EXCEPT ![c].dc = "open"]
         /\ conn[c].dc = "connecting"
         /\ Posts(IF conn[c].role = "offer" THEN "channel" ELSE "newchannel", c, "none")
      \/ /\ conn[c].dc = "open" /\ conn' = [conn EXCEPT ![c].dc = "closed"]
         /\ IF conn[c].known THEN Posts("channel", c, "none") ELSE UNCHANGED queue
  <2>1. CASE SdpCreated(c)
    BY <2>1 DEF SdpCreated
  <2>2. CASE IceConnects(c)
    BY <2>2 DEF IceConnects, IceMoves
  <2>3. CASE IceDisconnects(c)
    BY <2>3 DEF IceDisconnects, IceMoves
  <2>4. CASE IceFails(c)
    BY <2>4 DEF IceFails, IceMoves
  <2>5. CASE ChannelOpens(c)
    BY <2>5 DEF ChannelOpens
  <2>6. CASE ChannelCloses(c)
    BY <2>6 DEF ChannelCloses
  <2> QED BY <2>1, <2>2, <2>3, <2>4, <2>5, <2>6 DEF WebRtc
<1>4. MovesOn(c)
  <2>1. conn[c] \in Connections /\ conn \in [Conns -> Connections] /\ conn[c].pc = "open"
    BY <1>k, <1>1 DEF PeerTypes, Live
  <2>2. CASE conn[c].sdp = "creating" /\ conn' = [conn EXCEPT ![c].sdp = "created"]
    BY <2>1, <2>2 DEF MovesOn, Connections
  <2>3. ASSUME NEW to \in {"connected", "disconnected", "failed"}, conn[c].sdp = "stable",
               conn' = [conn EXCEPT ![c].ice = to]
        PROVE  MovesOn(c)
    BY <2>1, <2>3 DEF MovesOn, Connections
  <2>4. CASE /\ conn[c].ice = "connected" /\ conn[c].dc = "connecting"
             /\ conn' = [conn EXCEPT ![c].dc = "open"]
    <3>1. conn[c].sdp # "none"
      BY <1>k, <2>4 DEF Grown
    <3> QED BY <2>1, <2>4, <3>1 DEF MovesOn, Connections, Channels
  <2>5. CASE conn[c].dc = "open" /\ conn' = [conn EXCEPT ![c].dc = "closed"]
    BY <2>1, <2>5 DEF MovesOn, Connections, Channels
  <2> QED BY <1>3, <2>2, <2>3, <2>4, <2>5
<1>5. /\ queue' \in Seq(PeerTasks) /\ Range(queue) \subseteq Range(queue')
      /\ \A t \in Range(queue') : t \in Range(queue) \/ Sound(t)'
      /\ conn[c].dc = "open" /\ conn[c].known /\ conn'[c].dc = "closed"
            => Task("channel", c, conn[c].remote, "none") \in Range(queue')
  <2>1. ASSUME NEW t \in {"sdp", "p2p", "channel", "newchannel"},
               NEW x \in {"none", "Connected", "Disconnected", "Failed"}, Posts(t, c, x),
               conn[c].sdp # "none", t = "channel" => conn[c].known
        PROVE  /\ queue' \in Seq(PeerTasks)
               /\ Range(queue') = Range(queue) \cup {Task(t, c, conn[c].remote, x)}
               /\ \A u \in Range(queue') : u \in Range(queue) \/ Sound(u)'
    <3>1. Task(t, c, conn[c].remote, x) \in PeerTasks
      BY <1>k, <1>2 DEF Task, PeerTasks, Reports, Conns
    <3>2. /\ queue' \in Seq(PeerTasks)
          /\ Range(queue') = Range(queue) \cup {Task(t, c, conn[c].remote, x)}
      BY <1>k, <2>1, <3>1, TasksAnd DEF Posts, PeerTypes
    <3>3. ASSUME NEW u, u = Task(t, c, conn[c].remote, x) PROVE Sound(u)'
      <4>1. u.task = t /\ u.conn = c /\ u.remote = conn[c].remote
        BY <3>3 DEF Task
      <4> QED BY <1>k, <1>u, <1>2, <1>4, <2>1, <4>1 DEF Sound, Reports, MovesOn
    <3> QED BY <3>2, <3>3
  <2>2. CASE conn[c].sdp = "creating" /\ conn' = [conn EXCEPT ![c].sdp = "created"] /\ Posts("sdp", c, "none")
    <3>1. conn'[c].dc = conn[c].dc
      BY <1>k, <2>2 DEF PeerTypes, Connections
    <3> QED BY <2>1, <2>2, <3>1
  <2>3. ASSUME NEW x \in {"Connected", "Disconnected", "Failed"}, Posts("p2p", c, x), conn[c].sdp = "stable",
               NEW to \in {"connected", "disconnected", "failed"}, conn' = [conn EXCEPT ![c].ice = to]
        PROVE  <1>5!:
    <3>1. conn'[c].dc = conn[c].dc
      BY <1>k, <2>3 DEF PeerTypes, Connections
    <3> QED BY <2>1, <2>3, <3>1
  <2>4. CASE /\ conn[c].ice = "connected" /\ conn' = [conn EXCEPT ![c].dc = "open"]
             /\ Posts(IF conn[c].role = "offer" THEN "channel" ELSE "newchannel", c, "none")
    <3>1. conn'[c].dc = "open"
      BY <1>k, <2>4 DEF PeerTypes, Connections
    <3>2. conn[c].sdp # "none" /\ (conn[c].role = "offer" => conn[c].known)
      BY <1>k, <2>4 DEF Grown
    <3>3. CASE conn[c].role = "offer"
      BY <2>1, <2>4, <3>1, <3>2, <3>3
    <3>4. CASE conn[c].role # "offer"
      BY <2>1, <2>4, <3>1, <3>2, <3>4
    <3> QED BY <3>3, <3>4
  <2>5. CASE /\ conn[c].dc = "open"
             /\ IF conn[c].known THEN Posts("channel", c, "none") ELSE UNCHANGED queue
    <3>1. conn[c].sdp # "none"
      BY <1>k, <2>5 DEF Grown
    <3>2. CASE conn[c].known
      BY <2>1, <2>5, <3>1, <3>2
    <3>3. CASE ~conn[c].known
      BY <1>k, <2>5, <3>3 DEF PeerTypes
    <3> QED BY <3>2, <3>3
  <2> QED BY <1>3, <2>2, <2>3, <2>4, <2>5
<1>6. PeerTypes'
  BY <1>k, <1>u, <1>4, <1>5, SameTypes DEF PeerTypes, MovesOn
<1>7. ToldOpen'
  <2>1. ASSUME NEW d \in 1 .. made, NEW r \in Remotes, IsOpen(d, r) PROVE ToldOf(r)'
    <3>1. CASE IsOpen(d, r)'
      BY <1>u, <3>1 DEF ToldOf
    <3>2. CASE ~IsOpen(d, r)'
      <4>1. d = c /\ conn'[c].dc = "closed" /\ conn'[c].remote = r /\ conn[c].known /\ conn[c].dc = "open"
        BY <1>k, <1>4, <2>1, <3>2 DEF MovesOn, IsOpen, Conns
      <4>2. PICK t \in Range(queue') : t = Task("channel", c, conn[c].remote, "none")
        BY <1>5, <4>1
      <4>3. Closes(t, r)'
        BY <4>1, <4>2 DEF Closes, Task
      <4> QED BY <4>2, <4>3 DEF ToldOf
    <3> QED BY <3>1, <3>2
  <2>2. \A d \in 1 .. made : conn'[d].remote = conn[d].remote
                             /\ (conn[d].dc = "closed" => conn'[d].dc = "closed")
    BY <1>k, <1>4 DEF MovesOn, Conns
  <2> QED BY <1>u, <1>5, <2>1, <2>2, ToldStays
<1>8. /\ \A d \in Conns : d =< made =>
              /\ conn'[d].remote = conn[d].remote /\ conn'[d].role = conn[d].role
              /\ conn'[d].pc = conn[d].pc /\ (conn[d].sdp = "none" <=> conn'[d].sdp = "none")
              /\ (conn[d].known => conn'[d].known) /\ (conn[d].prio => conn'[d].prio)
              /\ (conn[d].sdp = "none" => conn'[d].ice = conn[d].ice)
              /\ (conn'[d].dc = "open" => conn[d].dc = "open" \/ (conn[d].pc = "open" /\ conn[d].sdp # "none"))
              /\ (conn'[d].sdp = "stable" /\ senders = d => conn'[d].prio)
      /\ \A d \in Conns : made < d => conn'[d] = conn[d]
  BY <1>k, <1>2, <1>4 DEF MovesOn, PeerInv, NewestLimited, Conns
<1>9. \A r \in stats' \ clash : map[r] # 0
  BY <1>u DEF PeerInv, StatsOfLive
<1> QED BY <1>u, <1>5, <1>6, <1>7, <1>8, <1>9, GrowingKeeps

LEMMA NextTask ==
    ASSUME PeerInv, queue # <<>>
    PROVE  /\ This \in PeerTasks /\ This \in Range(queue) /\ Sound(This)
           /\ Tail(queue) \in Seq(PeerTasks) /\ Range(queue) = {This} \cup Range(Tail(queue))
<1>1. queue \in Seq(PeerTasks)
  BY DEF PeerInv, PeerTypes
<1>2. Head(queue) \in Range(queue) /\ Tail(queue) \in Seq(PeerTasks)
      /\ Range(queue) = {Head(queue)} \cup Range(Tail(queue))
  BY <1>1, RestOfTasks
<1>3. Head(queue) \in PeerTasks
  BY <1>1, <1>2, RangeOfSeq
<1>4. Sound(Head(queue))
  BY <1>2 DEF PeerInv, Waiting
<1> QED BY <1>2, <1>3, <1>4 DEF This

\* The connections stay as they are.
LEMMA StillKeeps ==
    ASSUME PeerInv, PeerTypes', UNCHANGED <<made, map, senders, clash, conn>>,
           \A t \in Range(queue') : t \in Range(queue) \/ Sound(t)',
           ToldOpen', \A r \in stats' \ clash : map[r] # 0
    PROVE  PeerInv'
<1>1. \A c \in Conns : conn[c].sdp = "stable" /\ senders = c => conn[c].prio
  BY DEF PeerInv, NewestLimited
<1> QED BY <1>1, GrowingKeeps

LEMMA StillTold ==
    ASSUME PeerInv, UNCHANGED <<made, clash, told, conn>>,
           \A t \in Range(queue) : t.task = "channel" => t \in Range(queue')
    PROVE  ToldOpen'
<1>1. ASSUME NEW c \in 1 .. made, NEW r \in Remotes, IsOpen(c, r) PROVE ToldOf(r)'
  <2>1. IsOpen(c, r)'
    BY <1>1 DEF IsOpen
  <2> QED BY <2>1 DEF ToldOf
<1> QED BY <1>1, ToldStays

LEMMA RemoteStep == ASSUME PeerInv, Remote \/ SignalingLost \/ SignalingBack PROVE PeerInv'
<1>k. made \in Nat /\ MaxConns \in Nat /\ PeerTypes /\ Grown /\ made =< MaxConns
  BY PeerConnectionsConstants DEF PeerTypes, PeerInv
<1>s. \A r \in stats \ clash : map[r] # 0
  BY DEF PeerInv, StatsOfLive
<1>1. ASSUME NEW t \in PeerTasks, t.task \in {"offer", "answer", "outage"}, t.conn = 0,
             t.task # "outage" => t.remote \in Remotes, queue' = Append(queue, t)
      PROVE  /\ queue' \in Seq(PeerTasks) /\ Range(queue') = Range(queue) \cup {t} /\ Sound(t)'
  <2>1. /\ Append(queue, t) \in Seq(PeerTasks) /\ Range(Append(queue, t)) = Range(queue) \cup {t}
    BY <1>k, TasksAnd DEF PeerTypes
  <2> QED BY <1>1, <2>1 DEF Sound, Reports
<1>2. ASSUME NEW t \in PeerTasks, t.task \in {"offer", "answer", "outage"}, t.conn = 0,
             t.task # "outage" => t.remote \in Remotes, queue' = Append(queue, t),
             UNCHANGED <<made, conn, map, senders, told, stats, clash>>
      PROVE  PeerInv'
  <2>1. queue' \in Seq(PeerTasks) /\ Range(queue') = Range(queue) \cup {t} /\ Sound(t)'
    BY <1>1, <1>2
  <2>2. PeerTypes'
    BY <1>k, <1>2, <2>1, SameTypes DEF PeerTypes
  <2>3. ToldOpen'
    BY <1>2, <2>1, StillTold
  <2> QED BY <1>2, <1>s, <2>1, <2>2, <2>3, StillKeeps
<1>3. ASSUME NEW r \in Remotes, NEW x \in {"good", "bad", "refused"}, RemoteOffers(r, x) PROVE PeerInv'
  <2> DEFINE t == Task("offer", 0, r, x)
  <2>1. t \in PeerTasks /\ t.task = "offer" /\ t.conn = 0 /\ t.remote = r
    BY <1>k DEF Task, PeerTasks
  <2>2. queue' = Append(queue, t) /\ UNCHANGED <<made, conn, map, senders, told, stats, clash>>
    BY <1>3 DEF RemoteOffers
  <2> HIDE DEF t
  <2> QED BY <1>2, <2>1, <2>2
<1>4. ASSUME NEW c \in Conns, NEW x \in {"good", "bad"}, RemoteAnswers(c, x) PROVE PeerInv'
  <2>1. c =< made /\ conn[c].remote \in Remotes /\ conn[c] \in Connections
    <3>1. ~(made < c)
      BY <1>k, <1>4 DEF RemoteAnswers, Grown, Unused
    <3> QED BY <1>k, <3>1 DEF Grown, Conns, PeerTypes
  <2>2. PICK t \in PeerTasks : /\ t.task = "answer" /\ t.conn = 0 /\ t.remote = conn[c].remote
                               /\ queue' = Append(queue, t)
    <3>1. Task("answer", 0, conn[c].remote, x) \in PeerTasks
      BY <1>k, <2>1 DEF Task, PeerTasks
    <3> QED BY <1>4, <3>1 DEF RemoteAnswers, Task
  <2>3. queue' \in Seq(PeerTasks) /\ Range(queue') = Range(queue) \cup {t} /\ Sound(t)'
    BY <1>1, <2>1, <2>2
  <2>4. /\ conn' = [conn EXCEPT ![c].sdp = "answered"] /\ conn[c].sdp = "sent"
        /\ UNCHANGED <<made, map, senders, told, stats, clash>>
    BY <1>4 DEF RemoteAnswers
  <2>5. MovesOn(c) /\ conn'[c].dc = conn[c].dc
    BY <1>k, <2>1, <2>4 DEF MovesOn, PeerTypes, Connections
  <2>6. PeerTypes'
    BY <1>k, <2>3, <2>4, <2>5, SameTypes DEF PeerTypes, MovesOn
  <2>7. ToldOpen'
    <3>1. \A d \in 1 .. made : conn'[d].remote = conn[d].remote /\ conn'[d].dc = conn[d].dc
                               /\ conn'[d].known = conn[d].known
      BY <1>k, <2>5 DEF MovesOn, Conns
    <3>2. ASSUME NEW d \in 1 .. made, NEW r \in Remotes, IsOpen(d, r) PROVE ToldOf(r)'
      <4>1. IsOpen(d, r)'
        BY <3>1, <3>2 DEF IsOpen
      <4> QED BY <2>4, <4>1 DEF ToldOf
    <3> QED BY <2>3, <2>4, <3>1, <3>2, ToldStays
  <2>8. /\ \A d \in Conns : d =< made =>
              /\ conn'[d].remote = conn[d].remote /\ conn'[d].role = conn[d].role
              /\ conn'[d].pc = conn[d].pc /\ (conn[d].sdp = "none" <=> conn'[d].sdp = "none")
              /\ (conn[d].known => conn'[d].known) /\ (conn[d].prio => conn'[d].prio)
              /\ (conn[d].sdp = "none" => conn'[d].ice = conn[d].ice)
              /\ (conn'[d].dc = "open" => conn[d].dc = "open" \/ (conn[d].pc = "open" /\ conn[d].sdp # "none"))
              /\ (conn'[d].sdp = "stable" /\ senders = d => conn'[d].prio)
        /\ \A d \in Conns : made < d => conn'[d] = conn[d]
    BY <1>k, <2>1, <2>5 DEF MovesOn, PeerInv, NewestLimited, Conns
  <2> QED BY <1>s, <2>3, <2>4, <2>6, <2>7, <2>8, GrowingKeeps
<1>5. CASE SignalingLost
  <2> DEFINE t == Task("outage", 0, NoRemote, "none")
  <2>1. t \in PeerTasks /\ t.task = "outage" /\ t.conn = 0
    BY <1>k DEF Task, PeerTasks
  <2>2. queue' = Append(queue, t) /\ UNCHANGED <<made, conn, map, senders, told, stats, clash>>
    BY <1>5 DEF SignalingLost
  <2> HIDE DEF t
  <2> QED BY <1>2, <2>1, <2>2
<1>6. CASE SignalingBack
  <2>1. UNCHANGED <<made, conn, map, senders, queue, told, stats, clash>>
    BY <1>6 DEF SignalingBack
  <2>2. PeerTypes'
    BY <1>k, <2>1, SameTypes DEF PeerTypes
  <2>3. ToldOpen'
    BY <2>1, StillTold
  <2> QED BY <1>s, <2>1, <2>2, <2>3, StillKeeps
<1> QED BY <1>3, <1>4, <1>5, <1>6 DEF Remote

\* A report that was handled and changes the statistics at most.
LEMMA HandledKeeps ==
    ASSUME PeerInv, queue # <<>>, This.task # "channel", queue' = Tail(queue),
           UNCHANGED <<made, conn, map, senders, told, clash>>, stats' \subseteq Remotes,
           \A r \in stats' \ clash : map[r] # 0
    PROVE  PeerInv'
<1>1. /\ queue' \in Seq(PeerTasks) /\ Range(queue) = {This} \cup Range(queue')
  BY NextTask
<1>2. PeerTypes'
  BY <1>1, SameTypes DEF PeerTypes, PeerInv
<1>3. ToldOpen'
  BY <1>1, StillTold
<1> QED BY <1>1, <1>2, <1>3, StillKeeps

\* What a connection that was just made for a remote has.
Begun(x, r, role) ==
    x.remote = r /\ x.role = role /\ x.pc = "open" /\ x.dc = "connecting" /\ x.ice = "new"

LEMMA FreshConnection ==
    ASSUME NEW r \in Remotes, NEW role \in {"offer", "answer"}
    PROVE  Fresh(r, role) \in Connections /\ Begun(Fresh(r, role), r, role) /\ Fresh(r, role).sdp = "creating"
<1>1. Unused \in Connections
  BY DEF Unused, Connections, Channels
<1> DEFINE a == [Unused EXCEPT !.remote = r]
           b == [a EXCEPT !.role = role]
           c == [b EXCEPT !.pc = "open"]
           d == [c EXCEPT !.sdp = "creating"]
           e == [d EXCEPT !.dc = "connecting"]
<1>2. a \in Connections /\ a.remote = r /\ a.ice = "new"
  BY <1>1 DEF Connections, Unused
<1>3. b \in Connections /\ b.remote = r /\ b.ice = "new" /\ b.role = role
  <2> HIDE DEF a
  <2> QED BY <1>2 DEF Connections
<1>4. c \in Connections /\ c.remote = r /\ c.ice = "new" /\ c.role = role /\ c.pc = "open"
  <2> HIDE DEF b
  <2> QED BY <1>3 DEF Connections
<1>5. d \in Connections /\ d.remote = r /\ d.ice = "new" /\ d.role = role /\ d.pc = "open" /\ d.sdp = "creating"
  <2> HIDE DEF c
  <2> QED BY <1>4 DEF Connections
<1>6. /\ e \in Connections /\ e.remote = r /\ e.ice = "new" /\ e.role = role /\ e.pc = "open"
      /\ e.sdp = "creating" /\ e.dc = "connecting"
  <2> HIDE DEF d
  <2> QED BY <1>5 DEF Connections, Channels
<1>7. Fresh(r, role) = e
  BY Zenon DEF Fresh
<1> QED BY <1>6, <1>7 DEF Begun

\* A connection made for a remote is in the map and, in either role, what
\* BeginningKeeps asks for.
LEMMA InteractKeeps ==
    ASSUME PeerInv, NEW r \in Remotes, NEW role \in {"offer", "answer"}, Interact(r, role),
           queue' \in Seq(PeerTasks), Range(queue') \subseteq Range(queue),
           \A t \in Range(queue) \ Range(queue') : t.task # "channel",
           UNCHANGED <<told, stats>>
    PROVE  PeerInv'
<1>k. made \in Nat /\ MaxConns \in Nat /\ PeerTypes /\ made < MaxConns /\ made + 1 \in Conns
  BY PeerConnectionsConstants DEF PeerTypes, PeerInv, Interact, Conns
<1>f. Fresh(r, role) \in Connections /\ Begun(Fresh(r, role), r, role) /\ Fresh(r, role).sdp = "creating"
  BY FreshConnection
<1>1. PICK x \in Connections :
         /\ x.remote = r /\ x.role = role /\ x.pc = "open" /\ x.dc = "connecting" /\ x.ice = "new"
         /\ x.sdp = "creating" /\ (role = "answer" => x.prio) /\ (role = "offer" => x.known)
         /\ conn' = [conn EXCEPT ![made + 1] = x]
  <2>1. CASE role = "offer"
    <3>1. conn' = [conn EXCEPT ![made + 1] = AddDataChannel(Fresh(r, role))]
      BY <2>1 DEF Interact
    <3> DEFINE f == Fresh(r, role)
               x == [f EXCEPT !.known = TRUE]
    <3>2. x \in Connections /\ Begun(x, r, role) /\ x.sdp = "creating" /\ x.known
      <4> HIDE DEF f
      <4>1. f \in Connections /\ Begun(f, r, role) /\ f.sdp = "creating"
        BY <1>f DEF f
      <4> QED BY <4>1 DEF Connections, Begun
    <3>3. conn' = [conn EXCEPT ![made + 1] = x]
      BY <3>1 DEF AddDataChannel
    <3> HIDE DEF x
    <3> QED BY <2>1, <3>2, <3>3 DEF Begun
  <2>2. CASE role = "answer"
    <3> DEFINE f == Fresh(r, role)
               cs == [conn EXCEPT ![made + 1] = f]
               x == [f EXCEPT !.prio = TRUE]
    <3>1. conn' = SetRtpSendersPriority(cs, made + 1)
      BY <2>2 DEF Interact
    <3>2. x \in Connections /\ Begun(x, r, role) /\ x.sdp = "creating" /\ x.prio
      <4> HIDE DEF f
      <4>1. f \in Connections /\ Begun(f, r, role) /\ f.sdp = "creating"
        BY <1>f DEF f
      <4> QED BY <4>1 DEF Connections, Begun
    <3>3. ASSUME NEW c \in Conns PROVE conn'[c] = [conn EXCEPT ![made + 1] = x][c]
      <4>1. conn'[c] = [cs[c] EXCEPT !.prio = @ \/ c = made + 1]
        BY <3>1 DEF SetRtpSendersPriority
      <4>2. CASE c = made + 1
        <5>1. cs[c] = f /\ [conn EXCEPT ![made + 1] = x][c] = x
          BY <1>k, <4>2 DEF PeerTypes
        <5>2. (f.prio \/ c = made + 1) = TRUE
          BY <4>2
        <5>3. [cs[c] EXCEPT !.prio = @ \/ c = made + 1] = [f EXCEPT !.prio = (f.prio \/ c = made + 1)]
          BY <5>1
        <5> QED BY <4>1, <5>1, <5>2, <5>3
      <4>3. CASE c # made + 1
        <5>1. cs[c] = conn[c] /\ [conn EXCEPT ![made + 1] = x][c] = conn[c] /\ conn[c] \in Connections
          BY <1>k, <4>3 DEF PeerTypes
        <5>2. [conn[c] EXCEPT !.prio = @ \/ c = made + 1] = conn[c]
          BY <4>3, <5>1 DEF Connections
        <5> QED BY <4>1, <5>1, <5>2
      <4> QED BY <4>2, <4>3
    <3>4. conn' = [c \in Conns |-> conn'[c]]
      BY <3>1 DEF SetRtpSendersPriority
    <3>5. conn' = [conn EXCEPT ![made + 1] = x]
      <4> HIDE DEF x
      <4>1. [conn EXCEPT ![made + 1] = x] = [c \in Conns |-> [conn EXCEPT ![made + 1] = x][c]]
        BY <1>k DEF PeerTypes
      <4> QED BY <3>3, <3>4, <4>1
    <3> HIDE DEF x
    <3> QED BY <2>2, <3>2, <3>5 DEF Begun
  <2> QED BY <2>1, <2>2
<1>2. /\ made' = made + 1 /\ senders' = made + 1 /\ map' = [map EXCEPT ![r] = made + 1]
      /\ clash' = IF \E c \in 1 .. made : conn[c].remote = r /\
                        (Live(c) \/ \E i \in DOMAIN queue : queue[i].conn = c)
                  THEN clash \cup {r} ELSE clash
  BY DEF Interact, AddVideoTrack
<1>3. clash \subseteq clash' /\ clash' \subseteq Remotes
  BY <1>2, <1>k DEF PeerTypes
<1>4. r \notin clash' => \A c \in 1 .. made : conn[c].remote = r => conn[c].pc # "open"
  BY <1>2 DEF Live
<1> QED BY <1>k, <1>1, <1>2, <1>3, <1>4, BeginningKeeps

LEMMA RunOfferStep == ASSUME PeerInv, RunOffer PROVE PeerInv'
<1>k. made \in Nat /\ MaxConns \in Nat /\ PeerTypes /\ made =< MaxConns
  BY PeerConnectionsConstants DEF PeerTypes, PeerInv
<1>1. /\ queue # <<>> /\ This.task = "offer" /\ queue' = Tail(queue) /\ UNCHANGED <<told, stats>>
  BY DEF RunOffer, Runs, This
<1>2. /\ This \in PeerTasks /\ Sound(This) /\ queue' \in Seq(PeerTasks)
      /\ Range(queue) = {This} \cup Range(queue')
  BY <1>1, NextTask
<1>3. This.remote \in Remotes
  BY <1>1, <1>2 DEF Sound
<1>4. \A r \in stats \ clash : map[r] # 0
  BY DEF PeerInv, StatsOfLive
<1>5. CASE UNCHANGED <<made, conn, map, senders, clash>>
  BY <1>1, <1>4, <1>5, <1>k, HandledKeeps DEF PeerTypes
<1>6. CASE Interact(This.remote, "answer")
  BY <1>1, <1>2, <1>3, <1>6, InteractKeeps
<1>7. CASE /\ made < MaxConns /\ made' = made + 1 /\ AddVideoTrack(made + 1)
           /\ conn' = [conn EXCEPT ![made + 1] = [Fresh(This.remote, "answer") EXCEPT !.sdp = "none"]]
           /\ UNCHANGED <<map, clash>>
  <2>1. PICK x : x = [Fresh(This.remote, "answer") EXCEPT !.sdp = "none"]
    OBVIOUS
  <2>2. x \in Connections /\ Begun(x, This.remote, "answer") /\ x.sdp = "none"
    <3>1. PICK f \in Connections : f = Fresh(This.remote, "answer") /\ Begun(f, This.remote, "answer")
      BY <1>3, FreshConnection
    <3>2. x = [f EXCEPT !.sdp = "none"]
      BY <2>1, <3>1
    <3> QED BY <3>1, <3>2 DEF Connections, Begun
  <2>3. conn' = [conn EXCEPT ![made + 1] = x]
    BY <1>7, <2>1
  <2>4. senders' = made + 1
    BY <1>7 DEF AddVideoTrack
  <2>5. clash \subseteq clash' /\ clash' \subseteq Remotes
    BY <1>k, <1>7 DEF PeerTypes
  <2>6. /\ x.remote \in Remotes /\ x.role # "none" /\ x.pc = "open" /\ x.dc = "connecting" /\ x.ice = "new"
        /\ x.sdp \in {"none", "creating"} /\ (x.role = "answer" /\ x.sdp # "none" => x.prio)
        /\ (x.role = "offer" => x.known)
    BY <1>3, <2>2 DEF Begun
  <2>7. /\ Range(queue') \subseteq Range(queue)
        /\ \A t \in Range(queue) \ Range(queue') : t.task # "channel"
    BY <1>1, <1>2
  <2>8. /\ made < MaxConns /\ made' = made + 1 /\ UNCHANGED <<map, clash, told, stats>>
    BY <1>1, <1>7
  <2> QED BY <1>2, <2>2, <2>3, <2>4, <2>5, <2>6, <2>7, <2>8, BeginningKeeps
<1>8. \/ UNCHANGED <<made, conn, map, senders, clash>>
      \/ Interact(This.remote, "answer")
      \/ /\ made < MaxConns /\ made' = made + 1 /\ AddVideoTrack(made + 1)
         /\ conn' = [conn EXCEPT ![made + 1] = [Fresh(This.remote, "answer") EXCEPT !.sdp = "none"]]
         /\ UNCHANGED <<map, clash>>
  BY DEF RunOffer, InteractRefused
<1> QED BY <1>5, <1>6, <1>7, <1>8

LEMMA JoinRoomStep == ASSUME PeerInv, NEW r \in Remotes, JoinRoom(r) PROVE PeerInv'
<1>1. Interact(r, "offer") /\ UNCHANGED <<queue, told, stats>>
  BY DEF JoinRoom
<1>2. queue' \in Seq(PeerTasks)
  BY <1>1 DEF PeerInv, PeerTypes
<1> QED BY <1>1, <1>2, InteractKeeps

LEMMA AllDestroyed == ASSUME PeerInv, LeaveRoom \/ RunOutage PROVE PeerInv'
<1>1. told \in [Remotes -> Channels] /\ queue \in Seq(PeerTasks)
      /\ \A r \in Remotes \ clash : told[r] = "open" => ToldOf(r)
  BY DEF PeerInv, PeerTypes, ToldOpen
<1>2. CASE LeaveRoom
  <2>1. DestroyPeers(Remotes, map, queue) /\ UNCHANGED <<made, senders, told, clash>>
    BY <1>2 DEF LeaveRoom
  <2> QED BY <1>1, <2>1, DestroyKeeps DEF ToldOf
<1>3. CASE RunOutage
  <2>1. /\ DestroyPeers(Remotes, map, Tail(queue)) /\ UNCHANGED <<made, senders, told, clash>>
        /\ queue # <<>> /\ This.task = "outage"
    BY <1>3 DEF RunOutage, Runs, This
  <2>2. PICK q \in Seq(PeerTasks) : q = Tail(queue) /\ Range(queue) = {This} \cup Range(q)
    BY <2>1, NextTask
  <2>3. \A r \in Remotes \ clash : told'[r] = "open" =>
           (\E c \in 1 .. made : IsOpen(c, r)) \/ \E t \in Range(q) : Closes(t, r)
    BY <1>1, <2>1, <2>2 DEF ToldOf, Closes
  <2> QED BY <1>1, <2>1, <2>2, <2>3, DestroyKeeps
<1> QED BY <1>2, <1>3

LEMMA RunSdpStep == ASSUME PeerInv, RunSdp PROVE PeerInv'
<1>k. made \in Nat /\ MaxConns \in Nat /\ PeerTypes /\ Grown /\ made =< MaxConns
  BY PeerConnectionsConstants DEF PeerTypes, PeerInv
<1>s. \A r \in stats \ clash : map[r] # 0
  BY DEF PeerInv, StatsOfLive
<1>1. /\ queue # <<>> /\ This.task = "sdp" /\ queue' = Tail(queue)
      /\ UNCHANGED <<made, map, senders, told, stats, clash>>
  BY DEF RunSdp, Runs, This
<1>2. /\ This \in PeerTasks /\ Sound(This) /\ queue' \in Seq(PeerTasks)
      /\ Range(queue) = {This} \cup Range(queue')
  BY <1>1, NextTask
<1>3. PICK c \in 1 .. made : c = This.conn /\ c \in Conns /\ conn[c].sdp # "none"
  BY <1>1, <1>2, <1>k DEF Sound, Reports, PeerTasks, Conns
<1>4. CASE ~Live(c)
  <2>1. conn' = conn
    BY <1>3, <1>4 DEF RunSdp
  <2> QED BY <1>1, <1>k, <1>s, <2>1, HandledKeeps DEF PeerTypes
<1>5. CASE Live(c)
  <2>1. PICK x \in {"lost", "sent", "stable"} :
           conn' = [conn EXCEPT ![c].sdp = x] /\ (x = "stable" => conn[c].role # "offer")
    BY <1>3, <1>5 DEF RunSdp
  <2>2. conn[c] \in Connections /\ conn[c].role # "none" /\ (conn[c].role = "answer" => conn[c].prio)
    BY <1>k, <1>3 DEF PeerTypes, Grown
  <2>3. /\ conn' \in [Conns -> Connections] /\ \A d \in Conns : d # c => conn'[d] = conn[d]
        /\ conn'[c].remote = conn[c].remote /\ conn'[c].role = conn[c].role
        /\ conn'[c].pc = conn[c].pc /\ conn'[c].known = conn[c].known /\ conn'[c].prio = conn[c].prio
        /\ conn'[c].sdp # "none" /\ conn'[c].dc = conn[c].dc
        /\ (conn'[c].sdp = "stable" => conn[c].prio)
    <3>1. conn' = [conn EXCEPT ![c].sdp = x] /\ conn[c] \in Connections /\ c \in Conns
          /\ conn \in [Conns -> Connections]
      BY <1>k, <1>3, <2>1, <2>2 DEF PeerTypes
    <3>2. /\ conn' \in [Conns -> Connections] /\ \A d \in Conns : d # c => conn'[d] = conn[d]
          /\ conn'[c].remote = conn[c].remote /\ conn'[c].role = conn[c].role
          /\ conn'[c].pc = conn[c].pc /\ conn'[c].known = conn[c].known /\ conn'[c].prio = conn[c].prio
          /\ conn'[c].sdp = x /\ conn'[c].dc = conn[c].dc
      BY <3>1 DEF Connections
    <3>3. x = "stable" => conn[c].prio
      BY <2>1, <2>2 DEF Connections
    <3> QED BY <3>2, <3>3
  <2>4. PeerTypes'
    BY <1>k, <1>1, <1>2, <2>3, SameTypes DEF PeerTypes
  <2>5. ToldOpen'
    <3>1. \A d \in 1 .. made : conn'[d].remote = conn[d].remote /\ conn'[d].dc = conn[d].dc
                               /\ conn'[d].known = conn[d].known
      BY <1>k, <2>3 DEF Conns
    <3>2. ASSUME NEW d \in 1 .. made, NEW r \in Remotes, IsOpen(d, r) PROVE ToldOf(r)'
      <4>1. IsOpen(d, r)'
        BY <3>1, <3>2 DEF IsOpen
      <4> QED BY <1>1, <4>1 DEF ToldOf
    <3> QED BY <1>1, <1>2, <3>1, <3>2, ToldStays
  <2>6. /\ \A d \in Conns : d =< made =>
              /\ conn'[d].remote = conn[d].remote /\ conn'[d].role = conn[d].role
              /\ conn'[d].pc = conn[d].pc /\ (conn[d].sdp = "none" <=> conn'[d].sdp = "none")
              /\ (conn[d].known => conn'[d].known) /\ (conn[d].prio => conn'[d].prio)
              /\ (conn[d].sdp = "none" => conn'[d].ice = conn[d].ice)
              /\ (conn'[d].dc = "open" => conn[d].dc = "open" \/ (conn[d].pc = "open" /\ conn[d].sdp # "none"))
              /\ (conn'[d].sdp = "stable" /\ senders = d => conn'[d].prio)
        /\ \A d \in Conns : made < d => conn'[d] = conn[d]
    BY <1>k, <1>3, <2>3 DEF PeerInv, NewestLimited, Conns
  <2> QED BY <1>1, <1>2, <1>s, <2>4, <2>5, <2>6, GrowingKeeps
<1> QED BY <1>4, <1>5

\* A task other than a channel's destroys the connections of some remotes.
LEMMA TaskDestroys ==
    ASSUME PeerInv, queue # <<>>, This.task # "channel", NEW victims \in SUBSET Remotes,
           DestroyPeers(victims, map, Tail(queue)), UNCHANGED <<made, senders, clash>>,
           told' \in [Remotes -> Channels], \A r \in Remotes : told'[r] = "open" => told[r] = "open"
    PROVE  PeerInv'
<1>1. PICK q \in Seq(PeerTasks) : q = Tail(queue) /\ Range(queue) = {This} \cup Range(q)
  BY NextTask
<1>2. \A r \in Remotes \ clash : told[r] = "open" => ToldOf(r)
  BY DEF PeerInv, ToldOpen
<1>3. \A r \in Remotes \ clash : told'[r] = "open" =>
         (\E c \in 1 .. made : IsOpen(c, r)) \/ \E t \in Range(q) : Closes(t, r)
  BY <1>1, <1>2 DEF ToldOf, Closes
<1> QED BY <1>1, <1>3, DestroyKeeps

LEMMA RunAnswerStep == ASSUME PeerInv, RunAnswer PROVE PeerInv'
<1>k. made \in Nat /\ MaxConns \in Nat /\ PeerTypes /\ Grown /\ made =< MaxConns
  BY PeerConnectionsConstants DEF PeerTypes, PeerInv
<1>s. \A r \in stats \ clash : map[r] # 0
  BY DEF PeerInv, StatsOfLive
<1>1. /\ queue # <<>> /\ This.task = "answer" /\ UNCHANGED <<made, senders, told, clash>>
  BY DEF RunAnswer, Runs, This
<1>2. /\ This \in PeerTasks /\ Sound(This) /\ Tail(queue) \in Seq(PeerTasks)
      /\ Range(queue) = {This} \cup Range(Tail(queue))
  BY <1>1, NextTask
<1>3. This.remote \in Remotes
  BY <1>1, <1>2 DEF Sound
<1>4. CASE map[This.remote] = 0
  <2>1. queue' = Tail(queue) /\ UNCHANGED <<conn, map, stats>>
    BY <1>4 DEF RunAnswer
  <2> QED BY <1>1, <1>k, <1>s, <2>1, HandledKeeps DEF PeerTypes
<1>5. CASE map[This.remote] # 0 /\ This.arg = "bad"
  <2>1. DestroyPeers({This.remote}, map, Tail(queue))
    BY <1>5 DEF RunAnswer
  <2>2. told' \in [Remotes -> Channels] /\ {This.remote} \in SUBSET Remotes
    BY <1>1, <1>3, <1>k DEF PeerTypes
  <2> QED BY <1>1, <2>1, <2>2, TaskDestroys
<1>6. CASE map[This.remote] # 0 /\ This.arg # "bad"
  <2>1. PICK c \in Conns : c = map[This.remote]
    BY <1>3, <1>6, <1>k DEF PeerTypes, Conns
  <2> DEFINE sdp == IF conn[c].role = "offer" /\ conn[c].sdp \in {"sent", "answered", "lost"}
                    THEN "stable" ELSE conn[c].sdp
             cs == [conn EXCEPT ![c].sdp = sdp]
  <2>2. /\ conn' = SetRtpSendersPriority(cs, senders) /\ queue' = Tail(queue) /\ UNCHANGED <<map, stats>>
    BY <1>6, <2>1 DEF RunAnswer
  <2>3. conn[c].sdp # "none" /\ c =< made
    <3>1. conn[c].sdp # "none" /\ ~(made < c)
      BY <1>3, <1>6, <2>1 DEF PeerInv, Negotiated, Grown, Unused
    <3> QED BY <1>k, <2>1, <3>1 DEF Conns
  <2>4. cs \in [Conns -> Connections] /\ cs[c].sdp # "none" /\ \A d \in Conns : d # c => cs[d] = conn[d]
    <3>1. sdp \in {"creating", "created", "sent", "lost", "answered", "stable"}
      BY <1>k, <2>3 DEF PeerTypes, Connections
    <3> HIDE DEF sdp
    <3>2. conn \in [Conns -> Connections] /\ conn[c] \in Connections
      BY <1>k DEF PeerTypes
    <3>3. PICK x \in Connections : x = [conn[c] EXCEPT !.sdp = sdp]
      BY <3>1, <3>2 DEF Connections
    <3>4. x.sdp = sdp /\ sdp # "none"
      BY <3>1, <3>2, <3>3 DEF Connections
    <3>5. cs[c] = x /\ cs \in [Conns -> Connections] /\ \A d \in Conns : d # c => cs[d] = conn[d]
      BY <3>2, <3>3
    <3> QED BY <3>4, <3>5
  <2>5. /\ cs[c].remote = conn[c].remote /\ cs[c].role = conn[c].role /\ cs[c].pc = conn[c].pc
        /\ cs[c].known = conn[c].known /\ cs[c].prio = conn[c].prio /\ cs[c].dc = conn[c].dc
    <3> HIDE DEF sdp
    <3> QED BY <1>k DEF PeerTypes, Connections
  <2> HIDE DEF cs
  <2>6. ASSUME NEW d \in Conns
        PROVE  /\ conn'[d] \in Connections
               /\ conn'[d].remote = cs[d].remote /\ conn'[d].role = cs[d].role
               /\ conn'[d].pc = cs[d].pc /\ conn'[d].sdp = cs[d].sdp /\ conn'[d].ice = cs[d].ice
               /\ conn'[d].known = cs[d].known /\ conn'[d].dc = cs[d].dc
               /\ (cs[d].prio => conn'[d].prio) /\ (d = senders => conn'[d].prio)
    <3>1. conn'[d] = [cs[d] EXCEPT !.prio = @ \/ d = senders]
      BY <2>2 DEF SetRtpSendersPriority
    <3>2. PICK b \in BOOLEAN : b = (cs[d].prio \/ d = senders)
      BY <2>4 DEF Connections
    <3>3. conn'[d] = [cs[d] EXCEPT !.prio = b] /\ cs[d] \in Connections
      BY <2>4, <3>1, <3>2
    <3>4. /\ conn'[d] \in Connections /\ conn'[d].prio = b
          /\ conn'[d].remote = cs[d].remote /\ conn'[d].role = cs[d].role
          /\ conn'[d].pc = cs[d].pc /\ conn'[d].sdp = cs[d].sdp /\ conn'[d].ice = cs[d].ice
          /\ conn'[d].known = cs[d].known /\ conn'[d].dc = cs[d].dc
      <4> HIDE <3>2
      <4> QED BY <3>3 DEF Connections
    <3> QED BY <3>2, <3>4
  <2>7. conn' \in [Conns -> Connections]
    <3>1. conn' = [d \in Conns |-> conn'[d]]
      BY <2>2 DEF SetRtpSendersPriority
    <3> QED BY <2>6, <3>1
  <2>8. /\ queue' \in Seq(PeerTasks) /\ Range(queue) = {This} \cup Range(queue')
    BY <1>2, <2>2
  <2>9. PeerTypes'
    BY <1>k, <1>1, <2>2, <2>7, <2>8, SameTypes DEF PeerTypes
  <2>10. ToldOpen'
    <3>1. \A d \in 1 .. made : conn'[d].remote = conn[d].remote /\ conn'[d].dc = conn[d].dc
                               /\ conn'[d].known = conn[d].known
      BY <1>k, <2>4, <2>5, <2>6 DEF Conns
    <3>2. ASSUME NEW d \in 1 .. made, NEW r \in Remotes, IsOpen(d, r) PROVE ToldOf(r)'
      <4>1. IsOpen(d, r)'
        BY <3>1, <3>2 DEF IsOpen
      <4> QED BY <1>1, <4>1 DEF ToldOf
    <3> QED BY <1>1, <2>8, <3>1, <3>2, ToldStays
  <2>11. \A d \in Conns : d =< made =>
              /\ conn'[d].remote = conn[d].remote /\ conn'[d].role = conn[d].role
              /\ conn'[d].pc = conn[d].pc /\ (conn[d].sdp = "none" <=> conn'[d].sdp = "none")
              /\ (conn[d].known => conn'[d].known) /\ (conn[d].prio => conn'[d].prio)
              /\ (conn[d].sdp = "none" => conn'[d].ice = conn[d].ice)
              /\ (conn'[d].dc = "open" => conn[d].dc = "open" \/ (conn[d].pc = "open" /\ conn[d].sdp # "none"))
              /\ (conn'[d].sdp = "stable" /\ senders = d => conn'[d].prio)
    <3>1. ASSUME NEW d \in Conns, d # c PROVE cs[d] = conn[d]
      BY <2>4, <3>1
    <3> QED BY <2>3, <2>4, <2>5, <2>6, <3>1
  <2>12. ASSUME NEW d \in Conns, made < d PROVE conn'[d] = conn[d]
    <3>1. d # c /\ d # senders
      BY <1>k, <2>3, <2>12 DEF Conns, Grown, PeerTypes
    <3>2. cs[d] = conn[d] /\ conn[d] \in Connections
      BY <1>k, <2>4, <3>1 DEF PeerTypes
    <3>3. conn'[d] = [conn[d] EXCEPT !.prio = @ \/ d = senders]
      BY <2>2, <3>2 DEF SetRtpSendersPriority
    <3>4. (conn[d].prio \/ d = senders) = conn[d].prio
      BY <3>1, <3>2 DEF Connections
    <3>5. conn'[d] = [conn[d] EXCEPT !.prio = conn[d].prio]
      BY <3>3, <3>4
    <3> QED BY <3>2, <3>5 DEF Connections
  <2> QED BY <1>1, <1>s, <2>2, <2>8, <2>9, <2>10, <2>11, <2>12, GrowingKeeps
<1> QED BY <1>4, <1>5, <1>6

LEMMA RunP2PStateStep == ASSUME PeerInv, RunP2PState PROVE PeerInv'
<1>k. PeerTypes
  BY DEF PeerInv
<1>s. \A r \in stats \ clash : map[r] # 0
  BY DEF PeerInv, StatsOfLive
<1>1. /\ queue # <<>> /\ This.task = "p2p" /\ UNCHANGED <<made, senders, told, clash>>
  BY DEF RunP2PState, Runs, This
<1>2. This \in PeerTasks /\ Sound(This)
  BY <1>1, NextTask
<1>3. This.remote \in Remotes /\ This.conn \in Conns /\ conn[This.conn].remote = This.remote
      /\ conn[This.conn].sdp # "none"
  BY <1>1, <1>2, PeerConnectionsConstants DEF Sound, Reports, PeerTasks, Conns
<1>4. CASE This.arg = "Failed"
  <2>1. DestroyPeers({This.remote}, map, Tail(queue))
    BY <1>4 DEF RunP2PState, FailureDestroys
  <2>2. told' \in [Remotes -> Channels] /\ {This.remote} \in SUBSET Remotes
    BY <1>1, <1>3, <1>k DEF PeerTypes
  <2> QED BY <1>1, <2>1, <2>2, TaskDestroys
<1>5. CASE This.arg # "Failed"
  <2>1. /\ queue' = Tail(queue) /\ UNCHANGED <<conn, map>>
        /\ stats' = IF This.arg = "Connected" /\ login /\ Live(This.conn)
                    THEN stats \cup {This.remote} ELSE stats
    BY <1>5 DEF RunP2PState
  <2>2. Live(This.conn) /\ This.remote \notin clash => map[This.remote] # 0
    <3>1. Live(This.conn) /\ This.remote \notin clash => map[This.remote] = This.conn
      BY <1>3 DEF PeerInv, NoLostConnection
    <3>2. This.conn # 0
      BY <1>1, <1>2 DEF Sound, Reports
    <3> QED BY <3>1, <3>2
  <2>3. stats' \subseteq Remotes /\ \A r \in stats' \ clash : map[r] # 0
    BY <1>k, <1>s, <1>3, <2>1, <2>2 DEF PeerTypes
  <2> QED BY <1>1, <2>1, <2>3, HandledKeeps
<1> QED BY <1>4, <1>5

\* The application is told the state that the channel is in now: an open one is
\* open, and a closed one was the end that was still to be told.
LEMMA ChannelToldStep == ASSUME PeerInv, RunChannelState PROVE PeerInv'
<1>k. made \in Nat /\ MaxConns \in Nat /\ PeerTypes /\ Grown /\ made =< MaxConns
  BY PeerConnectionsConstants DEF PeerTypes, PeerInv
<1>s. \A r \in stats \ clash : map[r] # 0
  BY DEF PeerInv, StatsOfLive
<1>1. /\ queue # <<>> /\ This.task = "channel" /\ ChannelState(This.conn, Tail(queue))
      /\ UNCHANGED <<made, senders, clash>>
  BY DEF RunChannelState, Runs, This
<1>2. PICK q \in Seq(PeerTasks) : q = Tail(queue) /\ Range(queue) = {This} \cup Range(q)
  BY <1>1, NextTask
<1>3. This \in PeerTasks /\ Sound(This)
  BY <1>1, NextTask
<1>4. PICK c \in 1 .. made : c = This.conn /\ c \in Conns /\ conn[c].known /\ conn[c].remote \in Remotes
  <2>1. /\ This.conn \in 1 .. made /\ This.conn \in Conns /\ conn[This.conn].known
        /\ This.remote = conn[This.conn].remote /\ This.remote \in Remotes
    BY <1>1, <1>3, <1>k DEF Sound, Reports, PeerTasks, Conns
  <2> QED BY <2>1
<1>5. told' = [told EXCEPT ![conn[c].remote] = conn[c].dc] /\ conn[c].dc \in Channels
  BY <1>1, <1>4, <1>k DEF ChannelState, PeerTypes, Connections
<1>6. told' \in [Remotes -> Channels]
  BY <1>k, <1>5 DEF PeerTypes
<1>7. ASSUME NEW r \in Remotes \ clash, told'[r] = "open"
      PROVE  (\E d \in 1 .. made : IsOpen(d, r)) \/ \E t \in Range(q) : Closes(t, r)
  <2>1. CASE r = conn[c].remote
    <3>1. conn[c].dc = "open"
      BY <1>k, <1>5, <1>7, <2>1 DEF PeerTypes
    <3> QED BY <1>4, <2>1, <3>1 DEF IsOpen
  <2>2. CASE r # conn[c].remote
    <3>1. told[r] = "open"
      BY <1>k, <1>5, <1>7, <2>2 DEF PeerTypes
    <3>2. ToldOf(r)
      BY <1>7, <3>1 DEF PeerInv, ToldOpen
    <3>3. ~Closes(This, r)
      BY <1>4, <2>2 DEF Closes
    <3> QED BY <1>2, <3>2, <3>3 DEF ToldOf
  <2> QED BY <2>1, <2>2
<1>8. CASE conn[c].dc = "closed"
  <2>1. DestroyPeers({conn[c].remote}, map, q)
    BY <1>1, <1>2, <1>4, <1>8 DEF ChannelState
  <2>2. {conn[c].remote} \in SUBSET Remotes /\ Range(q) \subseteq Range(queue)
    BY <1>2, <1>4
  <2> QED BY <1>1, <1>6, <1>7, <2>1, <2>2, DestroyKeeps
<1>9. CASE conn[c].dc # "closed"
  <2>1. queue' = q /\ UNCHANGED <<conn, map, stats>>
    BY <1>1, <1>2, <1>4, <1>9 DEF ChannelState
  <2>2. PeerTypes'
    BY <1>k, <1>1, <1>6, <2>1, SameTypes DEF PeerTypes
  <2>3. ToldOpen'
    <3>1. ASSUME NEW r \in Remotes \ clash, told'[r] = "open" PROVE ToldOf(r)'
      <4>1. ASSUME NEW d \in 1 .. made, IsOpen(d, r) PROVE ToldOf(r)'
        <5>1. IsOpen(d, r)'
          BY <2>1, <4>1 DEF IsOpen
        <5> QED BY <1>1, <5>1 DEF ToldOf
      <4>2. ASSUME NEW t \in Range(q), Closes(t, r) PROVE ToldOf(r)'
        <5>1. Closes(t, r)'
          BY <2>1, <4>2 DEF Closes
        <5> QED BY <2>1, <5>1 DEF ToldOf
      <4> QED BY <1>7, <3>1, <4>1, <4>2
    <3> QED BY <1>1, <3>1 DEF ToldOpen
  <2>4. \A t \in Range(queue') : t \in Range(queue) \/ Sound(t)'
    BY <1>2, <2>1
  <2> QED BY <1>1, <1>s, <2>1, <2>2, <2>3, <2>4, StillKeeps
<1> QED BY <1>8, <1>9

LEMMA NewChannelStep == ASSUME PeerInv, RunNewChannel PROVE PeerInv'
<1>k. made \in Nat /\ MaxConns \in Nat /\ PeerTypes /\ Grown /\ made =< MaxConns
  BY PeerConnectionsConstants DEF PeerTypes, PeerInv
<1>s. \A r \in stats \ clash : map[r] # 0
  BY DEF PeerInv, StatsOfLive
<1>1. /\ queue # <<>> /\ This.task = "newchannel" /\ UNCHANGED <<made, senders, clash>>
  BY DEF RunNewChannel, Runs, This
<1>2. /\ This \in PeerTasks /\ Sound(This) /\ Tail(queue) \in Seq(PeerTasks)
      /\ Range(queue) = {This} \cup Range(Tail(queue))
  BY <1>1, NextTask
<1>3. PICK c \in 1 .. made : /\ c = This.conn /\ c \in Conns /\ conn[c].remote = This.remote
                             /\ This.remote \in Remotes /\ conn[c] \in Connections
  BY <1>1, <1>2, <1>k DEF Sound, Reports, PeerTasks, Conns, PeerTypes
<1>4. PICK r \in Remotes : r = This.remote
  BY <1>3
<1>5. CASE conn[c].known
  <2>1. queue' = Tail(queue) /\ UNCHANGED <<conn, map, told, stats>>
    BY <1>3, <1>5 DEF RunNewChannel
  <2> QED BY <1>1, <1>k, <1>s, <2>1, HandledKeeps DEF PeerTypes
<1>6. CASE ~conn[c].known
  <2>1. told' = [told EXCEPT ![r] = conn[c].dc]
    BY <1>3, <1>4, <1>6 DEF RunNewChannel
  <2>2. told' \in [Remotes -> Channels]
    BY <1>k, <1>3, <2>1 DEF PeerTypes, Connections
  <2>3. CASE conn[c].dc = "closed" /\ map[r] # 0
    <3>1. DestroyPeers({r}, map, Tail(queue))
      BY <1>3, <1>4, <1>6, <2>3 DEF RunNewChannel
    <3>2. \A s \in Remotes : told'[s] = "open" => told[s] = "open"
      BY <1>k, <2>1, <2>3 DEF PeerTypes
    <3>3. {r} \in SUBSET Remotes
      OBVIOUS
    <3> QED BY <1>1, <2>2, <3>1, <3>2, <3>3, TaskDestroys
  <2>4. CASE ~(conn[c].dc = "closed" /\ map[r] # 0)
    <3>1. conn' = [conn EXCEPT ![c].known = TRUE] /\ queue' = Tail(queue) /\ UNCHANGED <<map, stats>>
      BY <1>3, <1>4, <1>6, <2>4 DEF RunNewChannel
    <3>2. /\ conn' \in [Conns -> Connections] /\ \A d \in Conns : d # c => conn'[d] = conn[d]
          /\ conn'[c].remote = conn[c].remote /\ conn'[c].role = conn[c].role
          /\ conn'[c].pc = conn[c].pc /\ conn'[c].known /\ conn'[c].prio = conn[c].prio
          /\ conn'[c].sdp = conn[c].sdp /\ conn'[c].ice = conn[c].ice /\ conn'[c].dc = conn[c].dc
      BY <1>k, <1>3, <3>1 DEF PeerTypes, Connections
    <3>3. PeerTypes'
      BY <1>k, <1>1, <1>2, <2>2, <3>1, <3>2, SameTypes DEF PeerTypes
    <3>4. \A d \in 1 .. made : conn'[d].remote = conn[d].remote /\ conn'[d].dc = conn[d].dc
                               /\ (conn[d].known => conn'[d].known)
      BY <1>k, <3>2 DEF Conns
    <3>5. ToldOpen'
      <4>1. ASSUME NEW s \in Remotes \ clash, told'[s] = "open" PROVE ToldOf(s)'
        <5>1. CASE s = r
          <6>1. IsOpen(c, s)'
            BY <1>k, <1>3, <1>4, <2>1, <3>2, <4>1, <5>1 DEF IsOpen, PeerTypes
          <6> QED BY <1>1, <6>1 DEF ToldOf
        <5>2. CASE s # r
          <6>1. ToldOf(s)
            BY <1>k, <2>1, <4>1, <5>2 DEF PeerInv, PeerTypes, ToldOpen
          <6>2. ASSUME NEW d \in 1 .. made, IsOpen(d, s) PROVE ToldOf(s)'
            <7>1. IsOpen(d, s)'
              BY <3>4, <6>2 DEF IsOpen
            <7> QED BY <1>1, <7>1 DEF ToldOf
          <6>3. ASSUME NEW t \in Range(queue), Closes(t, s) PROVE ToldOf(s)'
            <7>1. t \in PeerTasks /\ Sound(t)
              BY <1>k, RangeOfSeq DEF PeerInv, Waiting, PeerTypes
            <7>2. t.conn \in 1 .. made /\ t # This
              BY <1>k, <1>1, <6>3, <7>1 DEF PeerTasks, Sound, Closes, Reports
            <7>3. t \in Range(queue') /\ Closes(t, s)'
              BY <1>2, <3>1, <3>4, <6>3, <7>2 DEF Closes
            <7> QED BY <7>3 DEF ToldOf
          <6> QED BY <6>1, <6>2, <6>3 DEF ToldOf
        <5> QED BY <5>1, <5>2
      <4> QED BY <1>1, <4>1 DEF ToldOpen
    <3>6. \A t \in Range(queue') : t \in Range(queue) \/ Sound(t)'
      BY <1>2, <3>1
    <3>7. /\ \A d \in Conns : d =< made =>
                /\ conn'[d].remote = conn[d].remote /\ conn'[d].role = conn[d].role
                /\ conn'[d].pc = conn[d].pc /\ (conn[d].sdp = "none" <=> conn'[d].sdp = "none")
                /\ (conn[d].known => conn'[d].known) /\ (conn[d].prio => conn'[d].prio)
                /\ (conn[d].sdp = "none" => conn'[d].ice = conn[d].ice)
                /\ (conn'[d].dc = "open" => conn[d].dc = "open" \/ (conn[d].pc = "open" /\ conn[d].sdp # "none"))
                /\ (conn'[d].sdp = "stable" /\ senders = d => conn'[d].prio)
          /\ \A d \in Conns : made < d => conn'[d] = conn[d]
      BY <1>k, <1>3, <3>2 DEF PeerInv, NewestLimited, Conns
    <3> QED BY <1>1, <1>s, <3>1, <3>3, <3>5, <3>6, <3>7, GrowingKeeps
  <2> QED BY <2>3, <2>4
<1> QED BY <1>5, <1>6

LEMMA PeerStart == ASSUME PeerInit PROVE PeerInv
<1>1. MaxConns \in Nat /\ Unused \in Connections
  BY PeerConnectionsConstants DEF Unused, Connections, Channels
<1>2. PeerTypes
  BY <1>1 DEF PeerInit, PeerTypes, Channels
<1>3. Range(queue) = {}
  BY DEF PeerInit, Range
<1>4. Grown
  BY DEF PeerInit, Grown, Unused, Conns
<1>5. Waiting /\ Negotiated /\ ToldOpen
  BY <1>3 DEF PeerInit, Waiting, Negotiated, ToldOpen
<1>6. NoLostConnection /\ StatsOfLive /\ NewestLimited
  BY DEF PeerInit, NoLostConnection, StatsOfLive, NewestLimited, Live, Unused
<1> QED BY <1>2, <1>4, <1>5, <1>6 DEF PeerInv

\* With nothing waiting the channel that was said to be open is the one that the
\* map leads to: its connection is open, and no open one is missing from the map.
LEMMA InvIsConsistent == ASSUME PeerInv PROVE PeersConsistent
<1>1. ASSUME queue = <<>>, NEW r \in Remotes, told[r] = "open", r \notin clash
      PROVE  map[r] # 0 /\ conn[map[r]].dc = "open"
  <2>1. Range(queue) = {}
    BY <1>1 DEF Range
  <2>2. PICK c \in 1 .. made : IsOpen(c, r)
    BY <1>1, <2>1 DEF PeerInv, ToldOpen, ToldOf
  <2>3. c \in Conns /\ c # 0
    BY PeerConnectionsConstants DEF PeerInv, PeerTypes, Conns
  <2>4. map[r] = c
    BY <1>1, <2>2, <2>3 DEF PeerInv, Grown, IsOpen, NoLostConnection, Live
  <2> QED BY <2>2, <2>3, <2>4 DEF IsOpen
<1> QED BY <1>1 DEF PeersConsistent, OpenMeansUsable, PeerInv

\* The map, what the application was told, the statistics and the bitrate limits
\* agree with the connections there are, for every number of remotes, connections
\* and waiting tasks, and whatever order reports and offers arrive in.
THEOREM PeersStayConsistent == PeerSpec => []PeersConsistent
<1>c. PeerConnectionsConstants
  BY PeerConnectionsConstants
<1>1. PeerInit => PeerInv
  BY <1>c, PeerStart
<1>2. PeerInv /\ [PeerNext]_peerVars => PeerInv'
  <2>1. ASSUME PeerInv, UNCHANGED peerVars PROVE PeerInv'
    <3>1. /\ UNCHANGED <<made, map, senders, clash, conn, queue, told, stats>>
          /\ \A r \in stats' \ clash : map[r] # 0
      BY <2>1 DEF peerVars, PeerInv, StatsOfLive
    <3>2. PeerTypes' /\ ToldOpen'
      BY <2>1, <3>1, SameTypes, StillTold DEF PeerInv, PeerTypes
    <3> QED BY <1>c, <2>1, <3>1, <3>2, StillKeeps
  <2>2. ASSUME PeerInv, LogicThread PROVE PeerInv'
    BY <1>c, <2>2, RunOfferStep, AllDestroyed, RunSdpStep, RunAnswerStep, RunP2PStateStep,
       ChannelToldStep, NewChannelStep DEF LogicThread
  <2>3. ASSUME PeerInv, PeerNext PROVE PeerInv'
    BY <1>c, <2>2, <2>3, WebRtcStep, RemoteStep, JoinRoomStep, AllDestroyed DEF PeerNext
  <2> QED BY <2>1, <2>3
<1>3. PeerInv => PeersConsistent
  BY <1>c, InvIsConsistent
<1> QED BY <1>1, <1>2, <1>3, PTL DEF PeerSpec
=============================================================================
