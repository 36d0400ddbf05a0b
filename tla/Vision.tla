------------------------------- MODULE Vision -------------------------------
(***************************************************************************)
(* Object detection on the edge, one camera frame per step: the detector's *)
(* boxes of the left and the right image, their fusion into stereo pairs,  *)
(* the stabilizer that gives them identities over time, and the broadcast. *)
(* A box is where its centre lies: 1..Span in the left half of the picture, *)
(* Span+1..2*Span in the right half.                                       *)
(***************************************************************************)
EXTENDS Integers, Sequences

CONSTANTS
  Span,                     \* bound: positions in one half of the picture
  kTrackHoldFrames,
  kTrackMaxMissedFrames,
  kMaxStabilizedDetections,
  MaxTrackIds               \* bound: identities handed out

ASSUME VisionConstants ==
  /\ Span \in Nat \ {0} /\ kTrackHoldFrames \in Nat
  /\ kTrackMaxMissedFrames >= kTrackHoldFrames
  /\ kMaxStabilizedDetections \in Nat \ {0}

VARIABLES
  detector,     \* "unloaded", "loaded", or "off" for good
  singleTracks, \* tracks_
  pairTracks,   \* pair_tracks_
  nextTrackId,  \* next_track_id_
  metadata,     \* metadata_sent
  boxesSent     \* the boxes of the last frame processed, "none" before

visionVars == <<detector, singleTracks, pairTracks, nextTrackId, metadata, boxesSent>>

IsLeft(x) == x <= Span
Opposite(x) == IF IsLeft(x) THEN x + Span ELSE x - Span
Near(x, y) == x - y \in -1..1
Distance(x, y) == IF x > y THEN x - y ELSE y - x

-----------------------------------------------------------------------------
(* RunYoloInferenceOnOriginalMonoFrames and MapMonoDetectionToStereo: left *)
(* boxes first, each numbered within its image and by its side.            *)
MonoBoxes(left, right) ==
  [i \in 1..Len(left) |-> [x |-> left[i], id |-> 2 * (i - 1)]]
  \o [i \in 1..Len(right) |-> [x |-> right[i] + Span, id |-> 2 * (i - 1) + 1]]

(* AddStereoPair: the box and its projection into the other half. *)
StereoPair(box) ==
  LET l == IF IsLeft(box.x) THEN box.x ELSE Opposite(box.x) IN
  << [x |-> l, id |-> 2 * box.id], [x |-> Opposite(l), id |-> 2 * box.id + 1] >>

(* FuseStereoDetectionsWithLocalMatching: a box for which feature matching *)
(* finds an offset becomes a pair and suppresses what it projects onto;    *)
(* when there is none the boxes stay as they are.                          *)
Fuse(boxes, matched) ==
  LET Suppressed(i) == \E j \in 1..(i - 1) :
                         j \in matched /\ boxes[j].x = Opposite(boxes[i].x)
      kept == {i \in matched : ~Suppressed(i)}
      fused[i \in 0..Len(boxes)] ==
        IF i = 0 THEN <<>>
        ELSE IF i \in kept THEN fused[i - 1] \o StereoPair(boxes[i]) ELSE fused[i - 1]
  IN IF kept = {} THEN boxes ELSE fused[Len(boxes)]

-----------------------------------------------------------------------------
(* DetectionStabilizer::Stabilize.  The work in progress: the tracks, the  *)
(* next identity and the boxes put out.                                    *)

LooksLikePair(boxes, i) ==
  /\ i < Len(boxes)
  /\ boxes[i].id \div 2 = boxes[i + 1].id \div 2
  /\ IsLeft(boxes[i].x) # IsLeft(boxes[i + 1].x)

(* Mutant of Unclaimed: a track may be matched twice in a frame. *)
ClaimedOrNot(track) == TRUE

(* FindBestTrack skips a track that already has its box of this frame. *)
Unclaimed(track) == ~track.matched

(* FindBestTrack and FindBestPairTrack: the nearest fitting track, 0 for none. *)
FindBest(tracks, x) ==
  LET fit == {i \in 1..Len(tracks) : /\ Unclaimed(tracks[i])
                                     /\ IsLeft(tracks[i].x) = IsLeft(x)
                                     /\ Near(tracks[i].x, x)}
      best == {i \in fit : \A j \in fit : Distance(tracks[i].x, x) <= Distance(tracks[j].x, x)}
  IN IF best = {} THEN 0 ELSE CHOOSE i \in best : \A j \in best : i <= j

(* SmoothNormBox keeps the old box or moves it towards the new one. *)
Hit(track, x, follow) ==
  [track EXCEPT !.matched = TRUE, !.missed = 0, !.x = IF follow THEN x ELSE @]
NewTrack(id, x) == [id |-> id, x |-> x, matched |-> TRUE, missed |-> 0]

(* The list with a new track, or with the track at i replaced. *)
Put(tracks, i, track) ==
  IF i = 0 THEN Append(tracks, track)
  ELSE [j \in 1..Len(tracks) |-> IF j = i THEN track ELSE tracks[j]]

SingleOut(track) == << [id |-> 2 * track.id, x |-> track.x] >>
PairOut(track) == << [id |-> 2 * track.id, x |-> track.x],
                     [id |-> 2 * track.id + 1, x |-> Opposite(track.x)] >>

StabilizeStereoPair(w, x, follow) ==
  LET i == FindBest(w.pairs, x)
      track == IF i = 0 THEN NewTrack(w.next, x) ELSE Hit(w.pairs[i], x, follow)
  IN IF Len(w.out) + 2 > kMaxStabilizedDetections THEN w
     ELSE [w EXCEPT !.pairs = Put(@, i, track),
                    !.next = IF i = 0 THEN @ + 1 ELSE @,
                    !.out = @ \o PairOut(track)]

StabilizeSingle(w, x, follow) ==
  LET i == FindBest(w.singles, x)
      track == IF i = 0 THEN NewTrack(w.next, x) ELSE Hit(w.singles[i], x, follow)
  IN [w EXCEPT !.singles = Put(@, i, track),
               !.next = IF i = 0 THEN @ + 1 ELSE @,
               !.out = @ \o SingleOut(track)]

(* One turn of the loop over the boxes; at is the box that is next.        *)
StabilizeBox(boxes, w, follow) ==
  IF w.at > Len(boxes) \/ Len(w.out) >= kMaxStabilizedDetections THEN w
  ELSE IF LooksLikePair(boxes, w.at)
  THEN LET l == IF IsLeft(boxes[w.at].x) THEN boxes[w.at].x ELSE boxes[w.at + 1].x
       IN [StabilizeStereoPair(w, l, follow) EXCEPT !.at = w.at + 2]
  ELSE [StabilizeSingle(w, boxes[w.at].x, follow) EXCEPT !.at = w.at + 1]

StabilizeBoxes(boxes, start, follow) ==
  LET turn[i \in 0..Len(boxes)] ==
        IF i = 0 THEN start ELSE StabilizeBox(boxes, turn[i - 1], follow)
  IN turn[Len(boxes)]

HeldOut(track, width) == IF width = 2 THEN PairOut(track) ELSE SingleOut(track)

(* AppendHeldPairTracks and AppendHeldTracks: tracks without a box age and *)
(* are put out for a few more frames.  Full output ends the walk, and the  *)
(* tracks it did not reach do not age.                                     *)
HoldTrack(a, i, width) ==
  LET older == [a.tracks[i] EXCEPT !.missed = @ + 1]
  IN IF a.tracks[i].matched THEN a
     ELSE IF a.full \/ Len(a.out) + width > kMaxStabilizedDetections
     THEN [a EXCEPT !.full = TRUE]
     ELSE [a EXCEPT !.tracks = Put(@, i, older),
                    !.out = IF older.missed > kTrackHoldFrames THEN @
                            ELSE @ \o HeldOut(older, width)]

AppendHeld(tracks, out, width) ==
  LET held[i \in 0..Len(tracks)] ==
        IF i = 0 THEN [tracks |-> tracks, out |-> out, full |-> FALSE]
        ELSE HoldTrack(held[i - 1], i, width)
  IN held[Len(tracks)]

PruneStaleTracks(tracks) ==
  LET kept[i \in 0..Len(tracks)] ==
        IF i = 0 THEN <<>>
        ELSE IF tracks[i].missed <= kTrackMaxMissedFrames THEN Append(kept[i - 1], tracks[i])
        ELSE kept[i - 1]
  IN kept[Len(tracks)]

Unmatch(tracks) == [i \in 1..Len(tracks) |-> [tracks[i] EXCEPT !.matched = FALSE]]

Stabilize(boxes, follow) ==
  LET w == StabilizeBoxes(boxes, [singles |-> Unmatch(singleTracks), pairs |-> Unmatch(pairTracks),
                                  next |-> nextTrackId, out |-> <<>>, at |-> 1], follow)
      pairs == AppendHeld(w.pairs, w.out, 2)
      singles == AppendHeld(w.singles, pairs.out, 1)
  IN /\ pairTracks' = PruneStaleTracks(pairs.tracks)
     /\ singleTracks' = PruneStaleTracks(singles.tracks)
     /\ nextTrackId' = w.next
     /\ boxesSent' = singles.out

-----------------------------------------------------------------------------
(* ProcessYoloFrame. *)

(* The detector is created by the first frame; without a model, or after   *)
(* an inference error, it is off for good.                                 *)
RunYoloInference ==
  \/ detector \in {"unloaded", "loaded"} /\ detector' = "loaded"
  \/ detector \in {"unloaded", "loaded"} /\ detector' = "off"

(* SendYoloDetections: the class map first, again every five seconds; a    *)
(* frame whose metadata could not be sent is dropped.                      *)
SendYoloDetections == metadata' \in BOOLEAN

Images == UNION {[1..n -> 1..Span] : n \in 0..2}

(* What the detector and the matching make of the two images of a frame. *)
Detections ==
  UNION { {Fuse(MonoBoxes(left, right), matched) :
             matched \in SUBSET (1..Len(MonoBoxes(left, right)))} :
          left \in Images, right \in Images }

ProcessYoloFrame ==
  /\ nextTrackId <= MaxTrackIds
  /\ RunYoloInference
  /\ IF detector' = "off"
     THEN UNCHANGED <<singleTracks, pairTracks, nextTrackId, metadata, boxesSent>>
     ELSE /\ \E boxes \in Detections, follow \in BOOLEAN : Stabilize(boxes, follow)
          /\ SendYoloDetections

VisionInit ==
  /\ detector = "unloaded" /\ singleTracks = <<>> /\ pairTracks = <<>>
  /\ nextTrackId = 1 /\ metadata = FALSE /\ boxesSent = <<>>

VisionNext == ProcessYoloFrame

VisionSpec == VisionInit /\ [][VisionNext]_visionVars

-----------------------------------------------------------------------------
(* Within a frame no two boxes carry the same identity, however boxes      *)
(* crowd around a track, whichever of them were fused into pairs, and with *)
(* tracks held over from earlier frames beside them; and the frame stays   *)
(* within what one message holds.                                          *)
IdentitiesUnique ==
  /\ \A i, j \in 1..Len(boxesSent) : i # j => boxesSent[i].id # boxesSent[j].id
  /\ Len(boxesSent) <= kMaxStabilizedDetections
=============================================================================
