---------------------------- MODULE Camera_proofs ----------------------------
(***************************************************************************)
(* Proofs about what a camera's frames go through.  Of Vision: the boxes   *)
(* of a frame carry each identity once, for any limits of the stabilizer.  *)
(* Of CameraPipeline, for every number of driver buffers, frames and view  *)
(* switches: each subscription is a LatestFrames, and the frames of a      *)
(* camera are accounted for.  Of EdgeCameras, for every set of cameras and *)
(* consoles: which cameras send, and how their workers begin and end.      *)
(***************************************************************************)
EXTENDS CameraPipeline, EdgeCameras, Vision, SequenceTheorems, FiniteSetTheorems, WellFoundedInduction, TLAPS

-----------------------------------------------------------------------------
(* Loops.  The passes over boxes and tracks are recursive functions; that   *)
(* one is what its equation says, and what its turns preserve, follows from *)
(* the least number at which it would fail.                                 *)

LEMMA Reaches == ASSUME NEW P \in SUBSET Nat, 0 \in P, \A n \in P : n + 1 \in P PROVE Nat \subseteq P
<1> SUFFICES ASSUME Nat \ P # {} PROVE FALSE
  OBVIOUS
<1>1. PICK x \in Nat \ P : \A y \in Nat \ P : ~(<<y, x>> \in OpToRel(<, Nat))
  BY NatLessThanWellFounded, WFMin
<1>2. \A y \in Nat \ P : ~(y < x)
  BY <1>1 DEF OpToRel
<1>3. x # 0 /\ x - 1 \in Nat
  OBVIOUS
<1>4. x - 1 \in P
  BY <1>2, <1>3
<1> QED BY <1>3, <1>4

\* What holds before the first turn and is kept by each holds after the last.
LEMMA AlongLoop ==
    ASSUME NEW k \in Nat, NEW P, 0 \in P, \A i \in 1 .. k : i - 1 \in P => i \in P
    PROVE  \A i \in 0 .. k : i \in P
<1> DEFINE Q == {n \in Nat : n =< k => n \in P}
<1>1. 0 \in Q
  OBVIOUS
<1>2. ASSUME NEW n \in Q PROVE n + 1 \in Q
  <2>1. CASE n + 1 =< k
    <3>1. n \in P /\ n + 1 \in 1 .. k /\ (n + 1) - 1 = n
      BY <2>1
    <3>2. n + 1 \in P
      BY <3>1
    <3> QED BY <3>2
  <2>2. CASE ~(n + 1 =< k)
    BY <2>2
  <2> QED BY <2>1, <2>2
<1>3. Nat \subseteq Q
  <2>1. Q \in SUBSET Nat
    OBVIOUS
  <2> HIDE DEF Q
  <2> QED BY <1>1, <1>2, <2>1, Reaches
<1> QED BY <1>3

\* There is a function that takes the turns, whatever a turn (F) is.
Turns(run, k, base, F) ==
  run = [i \in 0 .. k |-> IF i = 0 THEN base ELSE F[<<i, run[i - 1]>>]]

LEMMA LoopRuns ==
    ASSUME NEW k \in Nat, NEW U, NEW base \in U, NEW F \in [(1 .. k) \X U -> U]
    PROVE  \E run \in [0 .. k -> U] : Turns(run, k, base, F)
<1> DEFINE P == {n \in 0 .. k : \E run \in [0 .. n -> U] :
                    run = [i \in 0 .. n |-> IF i = 0 THEN base ELSE F[<<i, run[i - 1]>>]]}
<1>1. 0 \in P
  <2> DEFINE g == [i \in 0 .. 0 |-> base]
  <2>1. g \in [0 .. 0 -> U]
    OBVIOUS
  <2>2. g = [i \in 0 .. 0 |-> IF i = 0 THEN base ELSE F[<<i, g[i - 1]>>]]
    OBVIOUS
  <2> HIDE DEF g
  <2> QED BY <2>1, <2>2
<1>2. ASSUME NEW m \in 1 .. k, m - 1 \in P PROVE m \in P
  <2>1. PICK n \in 0 .. k : n = m - 1 /\ n \in P /\ m = n + 1
    BY <1>2
  <2>2. PICK run \in [0 .. n -> U] :
           run = [i \in 0 .. n |-> IF i = 0 THEN base ELSE F[<<i, run[i - 1]>>]]
    BY <2>1
  <2>3. <<m, run[n]>> \in (1 .. k) \X U
    BY <2>2
  <2> DEFINE g == [i \in 0 .. m |-> IF i \in 0 .. n THEN run[i] ELSE F[<<m, run[n]>>]]
  <2>4. g \in [0 .. m -> U]
    BY <2>2, <2>3
  <2>5. ASSUME NEW i \in 0 .. m PROVE g[i] = IF i = 0 THEN base ELSE F[<<i, g[i - 1]>>]
    <3>1. CASE i = 0
      BY <2>2, <3>1
    <3>2. CASE i # 0 /\ i \in 0 .. n
      <4>1. i - 1 \in 0 .. n /\ i - 1 \in 0 .. m
        BY <2>1, <3>2
      <4>2. g[i] = run[i] /\ g[i - 1] = run[i - 1]
        BY <3>2, <4>1
      <4>3. run[i] = F[<<i, run[i - 1]>>]
        BY <2>2, <3>2
      <4> QED BY <3>2, <4>2, <4>3
    <3>3. CASE i = m
      <4>1. i - 1 = n /\ i # 0 /\ i \notin 0 .. n /\ n \in 0 .. m /\ n \in 0 .. n
        BY <2>1, <3>3
      <4>2. g[i] = F[<<m, run[n]>>] /\ g[n] = run[n]
        BY <3>3, <4>1
      <4> QED BY <3>3, <4>1, <4>2
    <3> QED BY <2>1, <3>1, <3>2, <3>3
  <2>6. g = [i \in 0 .. m |-> g[i]]
    OBVIOUS
  <2> HIDE DEF g
  <2>7. g = [i \in 0 .. m |-> IF i = 0 THEN base ELSE F[<<i, g[i - 1]>>]]
    BY <2>5, <2>6
  <2>8. m \in 0 .. k
    OBVIOUS
  <2> QED BY <2>4, <2>7, <2>8
<1>3. k \in P
  <2> HIDE DEF P
  <2>1. \A i \in 0 .. k : i \in P
    BY <1>1, <1>2, AlongLoop
  <2> QED BY <2>1
<1> QED BY <1>3 DEF Turns

-----------------------------------------------------------------------------
(* Boxes put out and the tracks they belong to: the track with identity t   *)
(* puts out 2 * t, and 2 * t + 1 when it is a pair.                         *)

TrackSet == [id : Nat, x : Int, matched : BOOLEAN, missed : Nat]
BoxSet == [id : Nat, x : Int]
Ids(tracks) == {tracks[i].id : i \in 1 .. Len(tracks)}
WithBox(tracks) == {tracks[i].id : i \in {j \in 1 .. Len(tracks) : tracks[j].matched}}
OnceEach(list) == \A i, j \in 1 .. Len(list) : list[i].id = list[j].id => i = j
OfTrack(box, t) == box.id \in {2 * t, 2 * t + 1}
OutOf(out, S) == \A k \in 1 .. Len(out) : \E t \in S : OfTrack(out[k], t)

LEMMA OutsOfATrack ==
    ASSUME NEW track \in TrackSet, NEW more \in {SingleOut(track), PairOut(track)}
    PROVE  /\ more \in Seq(BoxSet) /\ OnceEach(more)
           /\ Len(SingleOut(track)) = 1 /\ Len(PairOut(track)) = 2
           /\ \A k \in 1 .. Len(more) : OfTrack(more[k], track.id)
<1>1. track.id \in Nat /\ track.x \in Int /\ Opposite(track.x) \in Int
  BY VisionConstants DEF TrackSet, Opposite, IsLeft
<1>2. [id |-> 2 * track.id, x |-> track.x] \in BoxSet
  BY <1>1 DEF BoxSet
<1>3. [id |-> 2 * track.id + 1, x |-> Opposite(track.x)] \in BoxSet
  BY <1>1 DEF BoxSet
<1>4. CASE more = SingleOut(track)
  BY <1>1, <1>2, <1>4 DEF SingleOut, PairOut, OnceEach, OfTrack
<1>5. CASE more = PairOut(track)
  BY <1>1, <1>2, <1>3, <1>5 DEF SingleOut, PairOut, OnceEach, OfTrack
<1> QED BY <1>4, <1>5

\* A track that has put out nothing adds its boxes without a repetition.
LEMMA PutsOut ==
    ASSUME NEW out \in Seq(BoxSet), OnceEach(out), NEW S \in SUBSET Nat, OutOf(out, S),
           NEW track \in TrackSet, track.id \notin S,
           NEW more \in {SingleOut(track), PairOut(track)}
    PROVE  /\ out \o more \in Seq(BoxSet) /\ OnceEach(out \o more)
           /\ OutOf(out \o more, S \cup {track.id})
<1> DEFINE t == track.id
           all == out \o more
<1>1. more \in Seq(BoxSet) /\ OnceEach(more) /\ \A k \in 1 .. Len(more) : OfTrack(more[k], t)
  BY OutsOfATrack
<1>2. t \in Nat
  BY DEF TrackSet
<1> HIDE DEF t
<1>3. all \in Seq(BoxSet) /\ Len(all) = Len(out) + Len(more)
  BY <1>1
<1>4. \A k \in 1 .. Len(all) : IF k =< Len(out) THEN all[k] = out[k] /\ k \in 1 .. Len(out)
                               ELSE all[k] = more[k - Len(out)] /\ k - Len(out) \in 1 .. Len(more)
  BY <1>1
<1> HIDE DEF all
<1>5. ASSUME NEW k \in 1 .. Len(all), k =< Len(out)
      PROVE  /\ all[k].id \in Nat /\ ~OfTrack(all[k], t)
             /\ \E s \in S \cup {t} : OfTrack(all[k], s)
  <2>1. all[k] = out[k] /\ k \in 1 .. Len(out)
    BY <1>4, <1>5
  <2>2. PICK s \in S : OfTrack(out[k], s)
    BY <2>1 DEF OutOf
  <2>3. s \in Nat /\ s # t
    BY <2>2 DEF t
  <2>4. out[k].id \in Nat
    <3>1. out[k] \in BoxSet
      BY <2>1
    <3> QED BY <3>1 DEF BoxSet
  <2>5. ~OfTrack(out[k], t)
    BY <1>2, <2>2, <2>3, <2>4 DEF OfTrack
  <2> QED BY <2>1, <2>2, <2>4, <2>5
<1>6. ASSUME NEW k \in 1 .. Len(all), ~(k =< Len(out)) PROVE OfTrack(all[k], t)
  BY <1>1, <1>4, <1>6
<1>7. ASSUME NEW i \in 1 .. Len(all), NEW j \in 1 .. Len(all), all[i].id = all[j].id PROVE i = j
  <2>1. OfTrack(all[i], t) <=> OfTrack(all[j], t)
    BY <1>7 DEF OfTrack
  <2>2. (i =< Len(out)) <=> (j =< Len(out))
    BY <1>5, <1>6, <2>1
  <2>3. CASE i =< Len(out)
    <3>1. all[i] = out[i] /\ all[j] = out[j] /\ i \in 1 .. Len(out) /\ j \in 1 .. Len(out)
      BY <1>4, <2>2, <2>3
    <3> QED BY <1>7, <3>1 DEF OnceEach
  <2>4. CASE ~(i =< Len(out))
    <3> DEFINE a == i - Len(out)
               b == j - Len(out)
    <3>1. all[i] = more[a] /\ all[j] = more[b] /\ a \in 1 .. Len(more) /\ b \in 1 .. Len(more)
      BY <1>4, <2>2, <2>4
    <3>2. a = b
      BY <1>1, <1>7, <3>1 DEF OnceEach
    <3> QED BY <3>2, <1>3
  <2> QED BY <2>3, <2>4
<1>8. OnceEach(all)
  BY <1>7 DEF OnceEach
<1>9. OutOf(all, S \cup {t})
  BY <1>5, <1>6 DEF OutOf
<1> QED BY <1>3, <1>8, <1>9 DEF all, t

\* FindBest returns 0, or the place of a track without its box of this frame.
LEMMA BestIsUnclaimed ==
    ASSUME NEW tracks \in Seq(TrackSet), NEW x \in Int
    PROVE  /\ FindBest(tracks, x) \in 0 .. Len(tracks)
           /\ FindBest(tracks, x) # 0 => ~tracks[FindBest(tracks, x)].matched
<1> DEFINE fit == {i \in 1 .. Len(tracks) : /\ Unclaimed(tracks[i])
                                            /\ IsLeft(tracks[i].x) = IsLeft(x)
                                            /\ Near(tracks[i].x, x)}
           best == {i \in fit : \A j \in fit : Distance(tracks[i].x, x) =< Distance(tracks[j].x, x)}
           first == CHOOSE i \in best : \A j \in best : i =< j
<1>1. FindBest(tracks, x) = IF best = {} THEN 0 ELSE first
  BY DEF FindBest
<1>2. best \subseteq Nat /\ best \subseteq fit /\ best \subseteq 1 .. Len(tracks)
  OBVIOUS
<1>3. ASSUME best # {} PROVE \E i \in best : \A j \in best : i =< j
  <2> HIDE DEF best
  <2>1. PICK i \in best : \A j \in best : ~(<<j, i>> \in OpToRel(<, Nat))
    BY <1>2, <1>3, NatLessThanWellFounded, WFMin
  <2>2. \A j \in best : ~(j < i)
    BY <1>2, <2>1 DEF OpToRel
  <2> QED BY <1>2, <2>2
<1>4. best # {} => first \in best
  <2> HIDE DEF best
  <2> QED BY <1>3
<1>5. best # {} => first \in 1 .. Len(tracks) /\ first \in fit
  <2> HIDE DEF fit, first
  <2> QED BY <1>2, <1>4
<1>6. first \in fit => ~tracks[first].matched
  <2> HIDE DEF first
  <2> QED BY DEF Unclaimed
<1> HIDE DEF fit, first, best
<1> QED BY <1>1, <1>5, <1>6

-----------------------------------------------------------------------------
(* The pass over the boxes.  IdsIssued: the identities of the tracks are     *)
(* issued numbers, one to each; and the boxes put out are those of tracks   *)
(* that have their box of this frame.                                       *)

IdsIssued(singles, pairs, next) ==
  /\ OnceEach(singles) /\ OnceEach(pairs)
  /\ Ids(singles) \cap Ids(pairs) = {}
  /\ \A t \in Ids(singles) \cup Ids(pairs) : t < next

Work == {w \in [singles : Seq(TrackSet), pairs : Seq(TrackSet), next : Nat,
                out : Seq(BoxSet), at : Nat \ {0}] :
           /\ IdsIssued(w.singles, w.pairs, w.next)
           /\ OnceEach(w.out) /\ OutOf(w.out, WithBox(w.singles) \cup WithBox(w.pairs))
           /\ Len(w.out) =< kMaxStabilizedDetections}

\* A track is put in its place, or a new one at the end: the list stays one
\* of tracks, and has the new track's identity beside those it had.
LEMMA PutsTrack ==
    ASSUME NEW tracks \in Seq(TrackSet), OnceEach(tracks), NEW i \in 0 .. Len(tracks),
           NEW track \in TrackSet, track.matched,
           IF i = 0 THEN track.id \notin Ids(tracks)
           ELSE track.id = tracks[i].id /\ ~tracks[i].matched
    PROVE  /\ Put(tracks, i, track) \in Seq(TrackSet) /\ OnceEach(Put(tracks, i, track))
           /\ Ids(Put(tracks, i, track)) = Ids(tracks) \cup {track.id}
           /\ WithBox(Put(tracks, i, track)) = WithBox(tracks) \cup {track.id}
           /\ track.id \notin WithBox(tracks)
<1> DEFINE new == Put(tracks, i, track)
<1>1. CASE i = 0
  <2>1. new = Append(tracks, track)
    BY <1>1 DEF Put
  <2>2. new \in Seq(TrackSet) /\ Len(new) = Len(tracks) + 1 /\ new[Len(tracks) + 1] = track
        /\ \A j \in 1 .. Len(tracks) : new[j] = tracks[j]
    BY <2>1
  <2>3. \A j \in 1 .. Len(tracks) : tracks[j].id # track.id
    BY <1>1 DEF Ids
  <2> HIDE DEF new
  <2>4. 1 .. Len(new) = (1 .. Len(tracks)) \cup {Len(tracks) + 1}
    BY <2>2
  <2>5. OnceEach(new)
    BY <2>2, <2>3, <2>4 DEF OnceEach
  <2>6. Ids(new) = Ids(tracks) \cup {track.id}
    BY <2>2, <2>4 DEF Ids
  <2>7. WithBox(new) = WithBox(tracks) \cup {track.id}
    BY <2>2, <2>4 DEF WithBox
  <2>8. track.id \notin WithBox(tracks)
    BY <2>3 DEF WithBox
  <2> QED BY <2>2, <2>5, <2>6, <2>7, <2>8 DEF new
<1>2. CASE i # 0
  <2>1. new = [j \in 1 .. Len(tracks) |-> IF j = i THEN track ELSE tracks[j]]
    BY <1>2 DEF Put
  <2>2. new \in Seq(TrackSet) /\ Len(new) = Len(tracks) /\ i \in 1 .. Len(tracks) /\ new[i] = track
        /\ \A j \in 1 .. Len(tracks) : j # i => new[j] = tracks[j]
    BY <1>2, <2>1
  <2>3. \A j \in 1 .. Len(tracks) : new[j].id = tracks[j].id
    BY <1>2, <2>2
  <2> HIDE DEF new
  <2>4. OnceEach(new)
    BY <2>2, <2>3 DEF OnceEach
  <2>5. track.id \in Ids(tracks) /\ Ids(new) = Ids(tracks)
    BY <1>2, <2>2, <2>3 DEF Ids
  <2>6. track.id \notin WithBox(tracks)
    BY <1>2, <2>2 DEF OnceEach, WithBox
  <2>7. WithBox(new) = WithBox(tracks) \cup {track.id}
    <3>1. ASSUME NEW t \in WithBox(new) PROVE t \in WithBox(tracks) \cup {track.id}
      BY <2>2 DEF WithBox
    <3>2. ASSUME NEW t \in WithBox(tracks) PROVE t \in WithBox(new)
      BY <1>2, <2>2 DEF WithBox
    <3>3. track.id \in WithBox(new)
      BY <1>2, <2>2 DEF WithBox
    <3> QED BY <3>1, <3>2, <3>3
  <2> QED BY <2>2, <2>4, <2>5, <2>6, <2>7 DEF new
<1> QED BY <1>1, <1>2

TrackFor(tracks, i, next, x, follow) ==
  IF i = 0 THEN NewTrack(next, x) ELSE Hit(tracks[i], x, follow)
NextAfter(i, next) == IF i = 0 THEN next + 1 ELSE next

\* A box has gone to the track put at i: the numbers are issued up to after, and
\* what is put out of the track belongs to tracks with a box of this frame.
BoxGiven(mine, theirs, out, i, track, after) ==
    /\ Put(mine, i, track) \in Seq(TrackSet) /\ after \in Nat /\ track \in TrackSet
    /\ IdsIssued(Put(mine, i, track), theirs, after)
    /\ \A more \in {SingleOut(track), PairOut(track)} :
          /\ out \o more \in Seq(BoxSet) /\ OnceEach(out \o more)
          /\ OutOf(out \o more, WithBox(Put(mine, i, track)) \cup WithBox(theirs))

\* A box gets its track, found or new, among tracks of its kind (mine) beside
\* those of the other (theirs), and the track puts out its boxes.
LEMMA BoxGetsTrack ==
    ASSUME NEW mine \in Seq(TrackSet), NEW theirs \in Seq(TrackSet), NEW next \in Nat,
           NEW out \in Seq(BoxSet), IdsIssued(mine, theirs, next),
           OnceEach(out), OutOf(out, WithBox(mine) \cup WithBox(theirs)),
           NEW x \in Int, NEW follow \in BOOLEAN, NEW i, i = FindBest(mine, x),
           NEW track, track = TrackFor(mine, i, next, x, follow),
           NEW after, after = NextAfter(i, next)
    PROVE  BoxGiven(mine, theirs, out, i, track, after)
<1>1. i \in 0 .. Len(mine) /\ (i # 0 => ~mine[i].matched)
  BY BestIsUnclaimed
<1>2. track \in TrackSet /\ track.matched
  <2>1. CASE i = 0
    BY <2>1 DEF TrackFor, NewTrack, TrackSet
  <2>2. CASE i # 0
    <3>1. mine[i] \in TrackSet
      BY <1>1, <2>2
    <3> QED BY <2>2, <3>1 DEF TrackFor, Hit, TrackSet
  <2> QED BY <2>1, <2>2
<1>3. i = 0 => track.id = next
  BY DEF TrackFor, NewTrack
<1>4. i # 0 => track.id = mine[i].id /\ track.id \in Ids(mine)
  <2> SUFFICES ASSUME i # 0 PROVE track.id = mine[i].id /\ track.id \in Ids(mine)
    OBVIOUS
  <2>1. mine[i] \in TrackSet /\ i \in 1 .. Len(mine)
    BY <1>1
  <2>2. track.id = mine[i].id
    BY <2>1 DEF TrackFor, Hit, TrackSet
  <2> QED BY <2>1, <2>2 DEF Ids
<1>5. WithBox(mine) \subseteq Ids(mine) /\ WithBox(theirs) \subseteq Ids(theirs)
  BY DEF WithBox, Ids
<1>6. Ids(mine) \subseteq Nat /\ Ids(theirs) \subseteq Nat
  <2>1. \A k \in 1 .. Len(mine) : mine[k] \in TrackSet
    OBVIOUS
  <2>2. \A k \in 1 .. Len(theirs) : theirs[k] \in TrackSet
    OBVIOUS
  <2> QED BY <2>1, <2>2 DEF Ids, TrackSet
<1>7. i = 0 => next \notin Ids(mine) /\ next \notin Ids(theirs)
  BY DEF IdsIssued
<1>8. track.id \notin Ids(theirs)
  BY <1>3, <1>4, <1>7 DEF IdsIssued
<1>9. OnceEach(mine) /\ OnceEach(theirs)
  BY DEF IdsIssued
<1> DEFINE new == Put(mine, i, track)
<1>10. /\ new \in Seq(TrackSet) /\ OnceEach(new)
       /\ Ids(new) = Ids(mine) \cup {track.id}
       /\ WithBox(new) = WithBox(mine) \cup {track.id}
       /\ track.id \notin WithBox(mine)
  BY <1>1, <1>2, <1>3, <1>4, <1>7, <1>9, PutsTrack
<1> HIDE DEF new
<1>11. after \in Nat /\ track.id \in Nat /\ track.id < after
  <2>1. \A t \in Ids(mine) : t \in Nat /\ t < next
    BY <1>6 DEF IdsIssued
  <2> QED BY <1>3, <1>4, <2>1 DEF NextAfter
<1>12. IdsIssued(new, theirs, after)
  <2>1. \A t \in Ids(mine) \cup Ids(theirs) : t \in Nat /\ t < next
    BY <1>6 DEF IdsIssued
  <2>2. next =< after
    BY DEF NextAfter
  <2>3. \A t \in Ids(new) \cup Ids(theirs) : t < after
    BY <1>10, <1>11, <2>1, <2>2
  <2>4. Ids(new) \cap Ids(theirs) = {}
    BY <1>8, <1>10 DEF IdsIssued
  <2> QED BY <1>9, <1>10, <2>3, <2>4 DEF IdsIssued
<1> DEFINE S == WithBox(mine) \cup WithBox(theirs)
<1>13. S \in SUBSET Nat /\ track.id \notin S
  BY <1>5, <1>6, <1>8, <1>10
<1>14. WithBox(new) \cup WithBox(theirs) = S \cup {track.id}
  BY <1>10
<1> HIDE DEF S
<1>15. ASSUME NEW more \in {SingleOut(track), PairOut(track)}
       PROVE  /\ out \o more \in Seq(BoxSet) /\ OnceEach(out \o more)
              /\ OutOf(out \o more, S \cup {track.id})
  <2>1. OutOf(out, S)
    BY DEF S
  <2> QED BY <1>2, <1>13, <2>1, PutsOut
<1> QED BY <1>2, <1>10, <1>11, <1>12, <1>14, <1>15 DEF BoxGiven, new

LEMMA SymmetricNumbers ==
    ASSUME NEW a, NEW b, NEW next PROVE IdsIssued(a, b, next) <=> IdsIssued(b, a, next)
BY DEF IdsIssued

WorkType == [singles : Seq(TrackSet), pairs : Seq(TrackSet), next : Nat, out : Seq(BoxSet), at : Nat \ {0}]

LEMMA SingleWorks ==
    ASSUME NEW w \in Work, NEW x \in Int, NEW follow \in BOOLEAN,
           Len(w.out) < kMaxStabilizedDetections
    PROVE  StabilizeSingle(w, x, follow) \in Work /\ StabilizeSingle(w, x, follow).at = w.at
<1>1. PICK mine : mine = w.singles
  OBVIOUS
<1>2. PICK theirs : theirs = w.pairs
  OBVIOUS
<1>3. PICK before : before = w.out
  OBVIOUS
<1>4. PICK next : next = w.next
  OBVIOUS
<1>5. w \in WorkType /\ Len(before) =< kMaxStabilizedDetections
  BY <1>3 DEF Work, WorkType
<1>6. /\ mine \in Seq(TrackSet) /\ theirs \in Seq(TrackSet) /\ next \in Nat
      /\ before \in Seq(BoxSet) /\ w.at \in Nat \ {0}
  BY <1>1, <1>2, <1>3, <1>4, <1>5 DEF WorkType
<1>7. /\ IdsIssued(mine, theirs, next) /\ OnceEach(before)
      /\ OutOf(before, WithBox(mine) \cup WithBox(theirs))
  BY <1>1, <1>2, <1>3, <1>4 DEF Work
<1>8. PICK i : i = FindBest(mine, x)
  OBVIOUS
<1>9. PICK track : track = TrackFor(mine, i, next, x, follow)
  OBVIOUS
<1>10. PICK after : after = NextAfter(i, next)
  OBVIOUS
<1>11. PICK new : new = Put(mine, i, track)
  OBVIOUS
<1>12. PICK more : more = SingleOut(track)
  OBVIOUS
<1>13. PICK out : out = before \o more
  OBVIOUS
<1>14. /\ new \in Seq(TrackSet) /\ after \in Nat /\ track \in TrackSet
       /\ IdsIssued(new, theirs, after)
       /\ out \in Seq(BoxSet) /\ OnceEach(out) /\ OutOf(out, WithBox(new) \cup WithBox(theirs))
  <2>1. more \in {SingleOut(track), PairOut(track)}
    BY <1>12
  <2>2. BoxGiven(mine, theirs, before, i, track, after)
    BY <1>6, <1>7, <1>8, <1>9, <1>10, BoxGetsTrack
  <2> QED BY <1>11, <1>13, <2>1, <2>2 DEF BoxGiven
<1>15. Len(out) = Len(before) + 1
  <2>1. more \in Seq(BoxSet) /\ Len(more) = 1
    BY <1>12, <1>14, OutsOfATrack
  <2>2. Len(before \o more) = Len(before) + Len(more)
    BY <1>6, <2>1, ConcatProperties
  <2> QED BY <1>13, <2>1, <2>2
<1>16. PICK r : r = [w EXCEPT !.singles = new, !.next = after, !.out = out]
  OBVIOUS
<1>17. StabilizeSingle(w, x, follow) = r
  BY <1>1, <1>3, <1>4, <1>8, <1>9, <1>10, <1>11, <1>12, <1>13, <1>16 DEF TrackFor, NextAfter, StabilizeSingle
<1>18. r \in WorkType /\ r.singles = new /\ r.pairs = theirs /\ r.next = after /\ r.out = out
       /\ r.at = w.at
  BY <1>2, <1>5, <1>14, <1>16 DEF WorkType
<1>19. Len(out) =< kMaxStabilizedDetections
  BY <1>3, <1>6, <1>15, VisionConstants
<1>20. r \in Work
  BY <1>14, <1>18, <1>19 DEF Work, WorkType
<1> QED BY <1>17, <1>18, <1>20

LEMMA PairWorks ==
    ASSUME NEW w \in Work, NEW x \in Int, NEW follow \in BOOLEAN
    PROVE  StabilizeStereoPair(w, x, follow) \in Work /\ StabilizeStereoPair(w, x, follow).at = w.at
<1>1. PICK mine : mine = w.pairs
  OBVIOUS
<1>2. PICK theirs : theirs = w.singles
  OBVIOUS
<1>3. PICK before : before = w.out
  OBVIOUS
<1>4. PICK next : next = w.next
  OBVIOUS
<1>5. w \in WorkType /\ Len(before) =< kMaxStabilizedDetections
  BY <1>3 DEF Work, WorkType
<1>6. /\ mine \in Seq(TrackSet) /\ theirs \in Seq(TrackSet) /\ next \in Nat
      /\ before \in Seq(BoxSet) /\ w.at \in Nat \ {0}
  BY <1>1, <1>2, <1>3, <1>4, <1>5 DEF WorkType
<1>7. /\ IdsIssued(mine, theirs, next) /\ OnceEach(before)
      /\ OutOf(before, WithBox(mine) \cup WithBox(theirs))
  <2>1. WithBox(mine) \cup WithBox(theirs) = WithBox(theirs) \cup WithBox(mine)
    OBVIOUS
  <2> QED BY <1>1, <1>2, <1>3, <1>4, <2>1, SymmetricNumbers DEF Work
<1>8. PICK i : i = FindBest(mine, x)
  OBVIOUS
<1>9. PICK track : track = TrackFor(mine, i, next, x, follow)
  OBVIOUS
<1>10. PICK after : after = NextAfter(i, next)
  OBVIOUS
<1>11. PICK new : new = Put(mine, i, track)
  OBVIOUS
<1>12. PICK more : more = PairOut(track)
  OBVIOUS
<1>13. PICK out : out = before \o more
  OBVIOUS
<1>14. /\ new \in Seq(TrackSet) /\ after \in Nat /\ track \in TrackSet
       /\ IdsIssued(new, theirs, after)
       /\ out \in Seq(BoxSet) /\ OnceEach(out) /\ OutOf(out, WithBox(new) \cup WithBox(theirs))
  <2>1. more \in {SingleOut(track), PairOut(track)}
    BY <1>12
  <2>2. BoxGiven(mine, theirs, before, i, track, after)
    BY <1>6, <1>7, <1>8, <1>9, <1>10, BoxGetsTrack
  <2> QED BY <1>11, <1>13, <2>1, <2>2 DEF BoxGiven
<1>15. Len(out) = Len(before) + 2
  <2>1. more \in Seq(BoxSet) /\ Len(more) = 2
    BY <1>12, <1>14, OutsOfATrack
  <2>2. Len(before \o more) = Len(before) + Len(more)
    BY <1>6, <2>1, ConcatProperties
  <2> QED BY <1>13, <2>1, <2>2
<1>16. PICK r : r = [w EXCEPT !.pairs = new, !.next = after, !.out = out]
  OBVIOUS
<1>17. StabilizeStereoPair(w, x, follow) = IF Len(before) + 2 > kMaxStabilizedDetections THEN w ELSE r
  BY <1>1, <1>3, <1>4, <1>8, <1>9, <1>10, <1>11, <1>12, <1>13, <1>16 DEF TrackFor, NextAfter, StabilizeStereoPair
<1>18. r \in WorkType /\ r.pairs = new /\ r.singles = theirs /\ r.next = after /\ r.out = out
       /\ r.at = w.at
  BY <1>2, <1>5, <1>14, <1>16 DEF WorkType
<1>19. IdsIssued(theirs, new, after) /\ OutOf(out, WithBox(theirs) \cup WithBox(new))
  <2>1. WithBox(new) \cup WithBox(theirs) = WithBox(theirs) \cup WithBox(new)
    OBVIOUS
  <2> QED BY <1>14, <2>1, SymmetricNumbers
<1>20. ASSUME ~(Len(before) + 2 > kMaxStabilizedDetections) PROVE r \in Work
  <2>1. Len(out) =< kMaxStabilizedDetections
    BY <1>6, <1>15, <1>20, VisionConstants
  <2> QED BY <1>14, <1>18, <1>19, <2>1 DEF Work, WorkType
<1> QED BY <1>17, <1>18, <1>20

LEMMA BoxWorks ==
    ASSUME NEW boxes \in Seq(BoxSet), NEW w \in Work, NEW follow \in BOOLEAN
    PROVE  StabilizeBox(boxes, w, follow) \in Work
<1>1. w \in WorkType
  BY DEF Work, WorkType
<1>2. w.at \in Nat \ {0}
  BY <1>1 DEF WorkType
<1>3. \A i \in 1 .. Len(boxes) : boxes[i].x \in Int
  <2>1. \A i \in 1 .. Len(boxes) : boxes[i] \in BoxSet
    OBVIOUS
  <2> QED BY <2>1 DEF BoxSet
<1>4. ASSUME NEW r \in Work, NEW at \in Nat \ {0} PROVE [r EXCEPT !.at = at] \in Work
  <2>1. PICK s : s = [r EXCEPT !.at = at]
    OBVIOUS
  <2>2. r \in WorkType
    BY DEF Work, WorkType
  <2>3. /\ s \in WorkType /\ s.singles = r.singles /\ s.pairs = r.pairs /\ s.next = r.next
        /\ s.out = r.out
    BY <2>1, <2>2 DEF WorkType
  <2>4. s \in Work
    BY <2>3 DEF Work, WorkType
  <2> QED BY <2>1, <2>4
<1>5. CASE w.at > Len(boxes) \/ Len(w.out) >= kMaxStabilizedDetections
  BY <1>5 DEF StabilizeBox
<1>6. ASSUME ~(w.at > Len(boxes) \/ Len(w.out) >= kMaxStabilizedDetections),
             LooksLikePair(boxes, w.at)
      PROVE  StabilizeBox(boxes, w, follow) \in Work
  <2>1. PICK l : l = IF IsLeft(boxes[w.at].x) THEN boxes[w.at].x ELSE boxes[w.at + 1].x
    OBVIOUS
  <2>2. w.at \in 1 .. Len(boxes) /\ w.at + 1 \in 1 .. Len(boxes) /\ w.at + 2 \in Nat \ {0}
    BY <1>2, <1>6 DEF LooksLikePair
  <2>3. l \in Int
    BY <1>3, <2>1, <2>2
  <2>4. PICK r : r = StabilizeStereoPair(w, l, follow)
    OBVIOUS
  <2>5. r \in Work
    BY <2>3, <2>4, PairWorks
  <2>6. StabilizeBox(boxes, w, follow) = [r EXCEPT !.at = w.at + 2]
    BY <1>6, <2>1, <2>4 DEF StabilizeBox
  <2> QED BY <1>4, <2>2, <2>5, <2>6
<1>7. ASSUME ~(w.at > Len(boxes) \/ Len(w.out) >= kMaxStabilizedDetections),
             ~LooksLikePair(boxes, w.at)
      PROVE  StabilizeBox(boxes, w, follow) \in Work
  <2>1. w.at \in 1 .. Len(boxes) /\ w.at + 1 \in Nat \ {0}
    BY <1>2, <1>7
  <2>2. boxes[w.at].x \in Int
    BY <1>3, <2>1
  <2>3. Len(w.out) < kMaxStabilizedDetections
    <3>1. w.out \in Seq(BoxSet)
      BY <1>1 DEF WorkType
    <3>2. Len(w.out) \in Nat /\ kMaxStabilizedDetections \in Nat
      BY <3>1, VisionConstants
    <3> QED BY <1>7, <3>2
  <2>4. PICK r : r = StabilizeSingle(w, boxes[w.at].x, follow)
    OBVIOUS
  <2>5. r \in Work
    BY <2>2, <2>3, <2>4, SingleWorks
  <2>6. StabilizeBox(boxes, w, follow) = [r EXCEPT !.at = w.at + 1]
    BY <1>7, <2>4 DEF StabilizeBox
  <2> QED BY <1>4, <2>1, <2>5, <2>6
<1> QED BY <1>5, <1>6, <1>7

LEMMA BoxesWork ==
    ASSUME NEW boxes \in Seq(BoxSet), NEW start \in Work, NEW follow \in BOOLEAN
    PROVE  StabilizeBoxes(boxes, start, follow) \in Work
<1> DEFINE k == Len(boxes)
           F == [p \in (1 .. k) \X Work |-> StabilizeBox(boxes, p[2], follow)]
           turn == CHOOSE run : run = [i \in 0 .. k |->
                      IF i = 0 THEN start ELSE StabilizeBox(boxes, run[i - 1], follow)]
<1>1. F \in [(1 .. k) \X Work -> Work]
  BY BoxWorks
<1>2. k \in Nat
  OBVIOUS
<1>3. PICK run \in [0 .. k -> Work] :
         run = [i \in 0 .. k |-> IF i = 0 THEN start ELSE F[<<i, run[i - 1]>>]]
  <2> HIDE DEF F, k
  <2>1. \E run \in [0 .. k -> Work] : Turns(run, k, start, F)
    BY <1>1, <1>2, LoopRuns
  <2> QED BY <2>1 DEF Turns
<1>4. run = [i \in 0 .. k |-> IF i = 0 THEN start ELSE StabilizeBox(boxes, run[i - 1], follow)]
  <2>1. ASSUME NEW i \in 0 .. k, i # 0
        PROVE  F[<<i, run[i - 1]>>] = StabilizeBox(boxes, run[i - 1], follow)
    <3>1. i \in 1 .. k /\ run[i - 1] \in Work
      BY <2>1, <1>2
    <3> QED BY <3>1
  <2> HIDE DEF F, k
  <2> QED BY <1>3, <2>1
<1>5. turn = [i \in 0 .. k |-> IF i = 0 THEN start ELSE StabilizeBox(boxes, turn[i - 1], follow)]
  <2> HIDE DEF k
  <2> QED BY <1>4
<1>6. StabilizeBoxes(boxes, start, follow) = turn[k]
  BY DEF StabilizeBoxes
<1>7. ASSUME NEW i \in 1 .. k, turn[i - 1] \in Work PROVE turn[i] \in Work
  <2>1. i \in 0 .. k /\ i # 0
    BY <1>2
  <2> HIDE DEF k, turn
  <2>2. turn[i] = StabilizeBox(boxes, turn[i - 1], follow)
    BY <1>5, <2>1
  <2> QED BY <1>7, <2>2, BoxWorks
<1> DEFINE P == {i \in 0 .. k : turn[i] \in Work}
<1>8. 0 \in P
  <2> HIDE DEF turn, k
  <2>1. 0 \in 0 .. k /\ turn[0] = start
    BY <1>2, <1>5
  <2> QED BY <2>1
<1>9. \A i \in 1 .. k : i - 1 \in P => i \in P
  <2> HIDE DEF turn, k
  <2> QED BY <1>7, <1>2
<1>10. k \in P
  <2> HIDE DEF P, k
  <2>1. \A i \in 0 .. k : i \in P
    BY <1>2, <1>8, <1>9, AlongLoop
  <2> QED BY <1>2, <2>1
<1> QED BY <1>6, <1>10

-----------------------------------------------------------------------------
(* The walk over the tracks without a box.  When it stands behind track i,  *)
(* the boxes put out are those of the tracks of the other kind (S), of the  *)
(* tracks with a box, and of the tracks up to i.                            *)

Walks(n) == {a \in [tracks : Seq(TrackSet), out : Seq(BoxSet), full : BOOLEAN] : Len(a.tracks) = n}
UpTo(tracks, i) == {tracks[j].id : j \in 1 .. i}

WalkAt(a, tracks, S, i) ==
  /\ \A j \in 1 .. Len(tracks) : /\ a.tracks[j].id = tracks[j].id
                                 /\ a.tracks[j].matched = tracks[j].matched
  /\ OnceEach(a.out) /\ Len(a.out) =< kMaxStabilizedDetections
  /\ OutOf(a.out, S \cup WithBox(tracks) \cup UpTo(tracks, i))

LEMMA MoreTracks == ASSUME NEW out, NEW S, NEW T, S \subseteq T, OutOf(out, S) PROVE OutOf(out, T)
BY DEF OutOf

LEMMA TrackIsHeld ==
    ASSUME NEW n \in Nat, NEW a \in Walks(n), NEW i \in 1 .. n, NEW width \in {1, 2}
    PROVE  /\ HoldTrack(a, i, width) \in Walks(n)
           /\ \A tracks \in Seq(TrackSet), S \in SUBSET Nat :
                 /\ Len(tracks) = n /\ OnceEach(tracks) /\ S \cap Ids(tracks) = {}
                 /\ WalkAt(a, tracks, S, i - 1)
                 => WalkAt(HoldTrack(a, i, width), tracks, S, i)
<1>1. PICK list : list = a.tracks
  OBVIOUS
<1>2. PICK before : before = a.out
  OBVIOUS
<1>3. /\ list \in Seq(TrackSet) /\ Len(list) = n /\ before \in Seq(BoxSet) /\ a.full \in BOOLEAN
      /\ a \in [tracks : Seq(TrackSet), out : Seq(BoxSet), full : BOOLEAN]
  BY <1>1, <1>2 DEF Walks
<1>4. list[i] \in TrackSet
  BY <1>3
<1>5. PICK older : older = [list[i] EXCEPT !.missed = @ + 1]
  OBVIOUS
<1>6. older \in TrackSet /\ older.id = list[i].id /\ older.matched = list[i].matched
  BY <1>4, <1>5 DEF TrackSet
<1>7. PICK new : new = Put(list, i, older)
  OBVIOUS
<1>8. new = [j \in 1 .. n |-> IF j = i THEN older ELSE list[j]]
  <2>1. i # 0
    OBVIOUS
  <2> QED BY <1>3, <1>7, <2>1 DEF Put
<1>9. /\ new \in Seq(TrackSet) /\ Len(new) = n
      /\ \A j \in 1 .. n : new[j].id = list[j].id /\ new[j].matched = list[j].matched
  BY <1>3, <1>6, <1>8
<1>10. PICK more : more = HeldOut(older, width)
  OBVIOUS
<1>11. more \in {SingleOut(older), PairOut(older)} /\ more \in Seq(BoxSet) /\ Len(more) = width
  <2>1. more = IF width = 2 THEN PairOut(older) ELSE SingleOut(older)
    BY <1>10 DEF HeldOut
  <2> QED BY <1>6, <2>1, OutsOfATrack
<1>12. before \o more \in Seq(BoxSet) /\ Len(before \o more) = Len(before) + width
  BY <1>3, <1>11, ConcatProperties
<1>13. PICK out : out = IF older.missed > kTrackHoldFrames THEN before ELSE before \o more
  OBVIOUS
<1>14. out \in Seq(BoxSet)
  BY <1>3, <1>12, <1>13
<1>15. PICK r : r = [a EXCEPT !.tracks = new, !.out = out]
  OBVIOUS
<1>16. PICK s : s = [a EXCEPT !.full = TRUE]
  OBVIOUS
<1>17. r \in Walks(n) /\ r.tracks = new /\ r.out = out
  BY <1>3, <1>9, <1>14, <1>15 DEF Walks
<1>18. s \in Walks(n) /\ s.tracks = list /\ s.out = before
  BY <1>1, <1>2, <1>3, <1>16 DEF Walks
<1>19. HoldTrack(a, i, width) = IF list[i].matched THEN a
                                ELSE IF a.full \/ Len(before) + width > kMaxStabilizedDetections
                                THEN s ELSE r
  BY <1>1, <1>2, <1>5, <1>7, <1>10, <1>13, <1>15, <1>16 DEF HoldTrack
<1>20. HoldTrack(a, i, width) \in Walks(n)
  BY <1>17, <1>18, <1>19
<1>21. ASSUME NEW tracks \in Seq(TrackSet), Len(tracks) = n, OnceEach(tracks),
              NEW S \in SUBSET Nat, S \cap Ids(tracks) = {}, WalkAt(a, tracks, S, i - 1)
       PROVE  WalkAt(HoldTrack(a, i, width), tracks, S, i)
  <2> DEFINE T == S \cup WithBox(tracks) \cup UpTo(tracks, i - 1)
             T2 == S \cup WithBox(tracks) \cup UpTo(tracks, i)
  <2>1. /\ \A j \in 1 .. n : list[j].id = tracks[j].id /\ list[j].matched = tracks[j].matched
        /\ OnceEach(before) /\ Len(before) =< kMaxStabilizedDetections /\ OutOf(before, T)
    BY <1>1, <1>2, <1>21 DEF WalkAt
  <2>2. UpTo(tracks, i) = UpTo(tracks, i - 1) \cup {tracks[i].id}
    <3>1. 1 .. i = (1 .. (i - 1)) \cup {i}
      OBVIOUS
    <3> QED BY <3>1 DEF UpTo
  <2>3. T2 = T \cup {tracks[i].id}
    BY <2>2
  <2>4. OutOf(before, T2)
    BY <2>1, <2>3, MoreTracks
  <2>5. CASE list[i].matched
    <3>1. HoldTrack(a, i, width) = a
      BY <1>19, <2>5
    <3> HIDE DEF T, T2
    <3> QED BY <1>1, <1>2, <1>21, <2>1, <2>4, <3>1 DEF WalkAt, T2
  <2>6. CASE ~list[i].matched /\ (a.full \/ Len(before) + width > kMaxStabilizedDetections)
    <3>1. HoldTrack(a, i, width) = s
      BY <1>19, <2>6
    <3> QED BY <1>18, <1>21, <2>1, <2>4, <3>1 DEF WalkAt
  <2>7. CASE ~list[i].matched /\ ~(a.full \/ Len(before) + width > kMaxStabilizedDetections)
    <3>1. HoldTrack(a, i, width) = r
      BY <1>19, <2>7
    <3>2. T \in SUBSET Nat
      <4>1. \A j \in 1 .. n : tracks[j].id \in Nat
        <5>1. \A j \in 1 .. n : tracks[j] \in TrackSet
          BY <1>21
        <5> QED BY <5>1 DEF TrackSet
      <4>2. WithBox(tracks) \in SUBSET Nat
        BY <4>1, <1>21 DEF WithBox
      <4>3. UpTo(tracks, i - 1) \in SUBSET Nat
        BY <4>1 DEF UpTo
      <4> QED BY <1>21, <4>2, <4>3
    <3>3. older.id = tracks[i].id
      BY <1>6, <2>1
    <3>4. tracks[i].id \notin T
      <4>1. tracks[i].id \notin S
        BY <1>21 DEF Ids
      <4>2. tracks[i].id \notin WithBox(tracks)
        BY <1>21, <2>1, <2>7 DEF WithBox, OnceEach
      <4>3. tracks[i].id \notin UpTo(tracks, i - 1)
        BY <1>21 DEF UpTo, OnceEach
      <4> QED BY <4>1, <4>2, <4>3
    <3> HIDE DEF T, T2
    <3>5. OnceEach(before \o more) /\ OutOf(before \o more, T2)
      <4>1. older.id \notin T
        BY <3>3, <3>4
      <4>2. OnceEach(before \o more) /\ OutOf(before \o more, T \cup {older.id})
        BY <1>3, <1>6, <1>11, <2>1, <3>2, <4>1, PutsOut
      <4> QED BY <2>3, <3>3, <4>2
    <3>6. OnceEach(out) /\ OutOf(out, T2)
      BY <1>13, <2>1, <2>4, <3>5
    <3>7. Len(out) =< kMaxStabilizedDetections
      <4>1. Len(before) \in Nat /\ kMaxStabilizedDetections \in Nat
        BY <1>3, VisionConstants
      <4>2. Len(before) + width =< kMaxStabilizedDetections
        BY <2>7, <4>1
      <4> QED BY <1>12, <1>13, <2>1, <4>2
    <3>8. \A j \in 1 .. n : new[j].id = tracks[j].id /\ new[j].matched = tracks[j].matched
      BY <1>9, <2>1
    <3> QED BY <1>17, <1>21, <3>1, <3>6, <3>7, <3>8 DEF WalkAt, T2
  <2> QED BY <2>5, <2>6, <2>7
<1> QED BY <1>20, <1>21

\* After the walk the tracks have the identities they had, and the boxes put
\* out are still one to an identity.
LEMMA TracksAreHeld ==
    ASSUME NEW tracks \in Seq(TrackSet), OnceEach(tracks), NEW out \in Seq(BoxSet), OnceEach(out),
           Len(out) =< kMaxStabilizedDetections, NEW S \in SUBSET Nat, S \cap Ids(tracks) = {},
           OutOf(out, S \cup WithBox(tracks)), NEW width \in {1, 2},
           NEW a, a = AppendHeld(tracks, out, width)
    PROVE  /\ a.tracks \in Seq(TrackSet) /\ OnceEach(a.tracks) /\ Ids(a.tracks) = Ids(tracks)
           /\ a.out \in Seq(BoxSet) /\ OnceEach(a.out) /\ Len(a.out) =< kMaxStabilizedDetections
           /\ OutOf(a.out, S \cup Ids(tracks))
<1> DEFINE k == Len(tracks)
           start == [tracks |-> tracks, out |-> out, full |-> FALSE]
           F == [p \in (1 .. k) \X Walks(k) |-> HoldTrack(p[2], p[1], width)]
           held == CHOOSE run : run = [i \in 0 .. k |->
                      IF i = 0 THEN start ELSE HoldTrack(run[i - 1], i, width)]
<1>1. k \in Nat /\ start \in Walks(k)
  BY DEF Walks
<1>2. F \in [(1 .. k) \X Walks(k) -> Walks(k)]
  <2>1. \A p \in (1 .. k) \X Walks(k) : HoldTrack(p[2], p[1], width) \in Walks(k)
    BY <1>1, TrackIsHeld
  <2> QED BY <2>1
<1>3. PICK run \in [0 .. k -> Walks(k)] : Turns(run, k, start, F)
  <2> HIDE DEF F, k, start
  <2> QED BY <1>1, <1>2, LoopRuns
<1>4. run = [i \in 0 .. k |-> IF i = 0 THEN start ELSE HoldTrack(run[i - 1], i, width)]
  <2>1. ASSUME NEW i \in 0 .. k, i # 0
        PROVE  F[<<i, run[i - 1]>>] = HoldTrack(run[i - 1], i, width)
    <3>1. i \in 1 .. k
      BY <2>1, <1>1
    <3>2. PICK j \in 0 .. k : j = i - 1
      BY <1>1, <2>1
    <3>3. run[j] \in Walks(k)
      OBVIOUS
    <3>4. F[<<i, run[j]>>] = HoldTrack(run[j], i, width)
      BY <3>1, <3>3
    <3> QED BY <3>2, <3>4
  <2>2. run = [i \in 0 .. k |-> IF i = 0 THEN start ELSE F[<<i, run[i - 1]>>]]
    BY <1>3 DEF Turns
  <2> HIDE DEF F, k, start
  <2> QED BY <2>1, <2>2
<1>5. held = [i \in 0 .. k |-> IF i = 0 THEN start ELSE HoldTrack(held[i - 1], i, width)]
  <2> HIDE DEF k, start
  <2> QED BY <1>4
<1>6. a = held[k]
  BY DEF AppendHeld
<1> DEFINE P == {i \in 0 .. k : held[i] \in Walks(k) /\ WalkAt(held[i], tracks, S, i)}
<1>7. 0 \in P
  <2>1. WalkAt(start, tracks, S, 0)
    <3>1. UpTo(tracks, 0) = {}
      BY DEF UpTo
    <3> QED BY <3>1 DEF WalkAt
  <2> HIDE DEF held, k, start
  <2>2. 0 \in 0 .. k /\ held[0] = start
    BY <1>1, <1>5
  <2> QED BY <1>1, <2>1, <2>2
<1>8. ASSUME NEW i \in 1 .. k, i - 1 \in P PROVE i \in P
  <2>1. i \in 0 .. k /\ i # 0
    BY <1>1
  <2>2. Len(tracks) = k
    OBVIOUS
  <2> HIDE DEF held, k, start
  <2>3. held[i] = HoldTrack(held[i - 1], i, width)
    BY <1>5, <2>1
  <2>4. held[i - 1] \in Walks(k) /\ WalkAt(held[i - 1], tracks, S, i - 1)
    BY <1>8
  <2>5. HoldTrack(held[i - 1], i, width) \in Walks(k)
        /\ WalkAt(HoldTrack(held[i - 1], i, width), tracks, S, i)
    BY <1>1, <2>2, <2>4, TrackIsHeld
  <2> QED BY <2>1, <2>3, <2>5
<1>9. held[k] \in Walks(k) /\ WalkAt(held[k], tracks, S, k)
  <2>1. \A i \in 1 .. k : i - 1 \in P => i \in P
    BY <1>8
  <2> HIDE DEF P, k
  <2>2. \A i \in 0 .. k : i \in P
    BY <1>1, <1>7, <2>1, AlongLoop
  <2>3. k \in P
    BY <1>1, <2>2
  <2> QED BY <2>3 DEF P
<1>10. a \in Walks(k) /\ WalkAt(a, tracks, S, k)
  <2> HIDE DEF held, k
  <2> QED BY <1>6, <1>9
<1> HIDE DEF held, start, F
<1>11. a.tracks \in Seq(TrackSet) /\ Len(a.tracks) = k /\ a.out \in Seq(BoxSet)
  BY <1>10 DEF Walks
<1>12. /\ \A j \in 1 .. k : a.tracks[j].id = tracks[j].id
       /\ OnceEach(a.out) /\ Len(a.out) =< kMaxStabilizedDetections
       /\ OutOf(a.out, S \cup WithBox(tracks) \cup UpTo(tracks, k))
  BY <1>10 DEF WalkAt
<1>13. OnceEach(a.tracks) /\ Ids(a.tracks) = Ids(tracks)
  <2>1. PICK list : list = a.tracks
    OBVIOUS
  <2>2. Len(list) = k /\ \A j \in 1 .. k : list[j].id = tracks[j].id
    BY <1>11, <1>12, <2>1
  <2>3. OnceEach(list)
    BY <2>2 DEF OnceEach
  <2>4. Ids(list) = Ids(tracks)
    <3>1. Ids(list) \subseteq Ids(tracks)
      BY <2>2 DEF Ids
    <3>2. Ids(tracks) \subseteq Ids(list)
      BY <2>2 DEF Ids
    <3> QED BY <3>1, <3>2
  <2> QED BY <2>1, <2>3, <2>4
<1>14. OutOf(a.out, S \cup Ids(tracks))
  <2>1. WithBox(tracks) \cup UpTo(tracks, k) \subseteq Ids(tracks)
    BY DEF WithBox, UpTo, Ids
  <2> QED BY <1>12, <2>1, MoreTracks
<1> QED BY <1>11, <1>12, <1>13, <1>14

-----------------------------------------------------------------------------
(* The other passes: what they keep of the lists.                           *)

LEMMA PruningKeepsOrder ==
    ASSUME NEW tracks \in Seq(TrackSet), OnceEach(tracks), NEW left, left = PruneStaleTracks(tracks)
    PROVE  left \in Seq(TrackSet) /\ OnceEach(left) /\ Ids(left) \subseteq Ids(tracks)
<1> DEFINE k == Len(tracks)
           Turn(s, i) == IF tracks[i].missed =< kTrackMaxMissedFrames THEN Append(s, tracks[i]) ELSE s
           F == [p \in (1 .. k) \X Seq(TrackSet) |-> Turn(p[2], p[1])]
           kept == CHOOSE run : run = [i \in 0 .. k |->
                      IF i = 0 THEN <<>>
                      ELSE IF tracks[i].missed =< kTrackMaxMissedFrames
                      THEN Append(run[i - 1], tracks[i]) ELSE run[i - 1]]
<1>1. k \in Nat /\ <<>> \in Seq(TrackSet)
  OBVIOUS
<1>2. \A s \in Seq(TrackSet), i \in 1 .. k : Turn(s, i) \in Seq(TrackSet)
  OBVIOUS
<1>3. F \in [(1 .. k) \X Seq(TrackSet) -> Seq(TrackSet)]
  <2> HIDE DEF Turn
  <2> QED BY <1>2
<1>4. PICK run \in [0 .. k -> Seq(TrackSet)] : Turns(run, k, <<>>, F)
  <2> HIDE DEF F, k
  <2> QED BY <1>1, <1>3, LoopRuns
<1>5. run = [i \in 0 .. k |-> IF i = 0 THEN <<>> ELSE Turn(run[i - 1], i)]
  <2>1. ASSUME NEW i \in 0 .. k, i # 0 PROVE F[<<i, run[i - 1]>>] = Turn(run[i - 1], i)
    <3>1. i \in 1 .. k /\ run[i - 1] \in Seq(TrackSet)
      BY <2>1, <1>1
    <3> HIDE DEF Turn
    <3> QED BY <3>1
  <2>2. run = [i \in 0 .. k |-> IF i = 0 THEN <<>> ELSE F[<<i, run[i - 1]>>]]
    BY <1>4 DEF Turns
  <2> HIDE DEF F, k, Turn
  <2> QED BY <2>1, <2>2
<1>6. kept = [i \in 0 .. k |-> IF i = 0 THEN <<>> ELSE Turn(kept[i - 1], i)]
  <2> HIDE DEF k
  <2> QED BY <1>5
<1>7. left = kept[k]
  BY DEF PruneStaleTracks
<1> DEFINE P == {i \in 0 .. k : /\ kept[i] \in Seq(TrackSet) /\ OnceEach(kept[i])
                                /\ Ids(kept[i]) \subseteq UpTo(tracks, i)}
<1>8. 0 \in P
  <2> HIDE DEF kept, k
  <2>1. 0 \in 0 .. k /\ kept[0] = <<>>
    BY <1>1, <1>6
  <2>2. OnceEach(<<>>) /\ Ids(<<>>) = {}
    BY DEF OnceEach, Ids
  <2> QED BY <1>1, <2>1, <2>2
<1>9. ASSUME NEW i \in 1 .. k, i - 1 \in P PROVE i \in P
  <2>1. i \in 0 .. k /\ i # 0
    BY <1>1
  <2>2. tracks[i] \in TrackSet
    OBVIOUS
  <2>3. tracks[i].id \notin UpTo(tracks, i - 1)
    BY DEF OnceEach, UpTo
  <2>4. UpTo(tracks, i) = UpTo(tracks, i - 1) \cup {tracks[i].id}
    <3>1. 1 .. i = (1 .. (i - 1)) \cup {i}
      OBVIOUS
    <3> QED BY <3>1 DEF UpTo
  <2> HIDE DEF kept, k
  <2>5. kept[i] = Turn(kept[i - 1], i)
    <3> HIDE DEF Turn
    <3> QED BY <1>6, <2>1
  <2>6. PICK s : s = kept[i - 1]
    OBVIOUS
  <2>7. s \in Seq(TrackSet) /\ OnceEach(s) /\ Ids(s) \subseteq UpTo(tracks, i - 1)
    BY <1>9, <2>6
  <2>8. PICK t : t = tracks[i]
    OBVIOUS
  <2>9. Append(s, t) \in Seq(TrackSet) /\ OnceEach(Append(s, t))
        /\ Ids(Append(s, t)) = Ids(s) \cup {t.id}
    <3>1. PICK b : b = Append(s, t)
      OBVIOUS
    <3>2. b \in Seq(TrackSet) /\ Len(b) = Len(s) + 1 /\ b[Len(s) + 1] = t
          /\ \A j \in 1 .. Len(s) : b[j] = s[j]
      BY <2>2, <2>7, <2>8, <3>1
    <3>3. 1 .. Len(b) = (1 .. Len(s)) \cup {Len(s) + 1}
      BY <2>7, <3>2
    <3>4. \A j \in 1 .. Len(s) : s[j].id # t.id
      BY <2>3, <2>7, <2>8 DEF Ids
    <3>5. OnceEach(b)
      BY <2>7, <3>2, <3>3, <3>4 DEF OnceEach
    <3>6. Ids(b) = Ids(s) \cup {t.id}
      <4>1. Ids(b) \subseteq Ids(s) \cup {t.id}
        BY <2>7, <3>2, <3>3 DEF Ids
      <4>2. Ids(s) \subseteq Ids(b)
        BY <2>7, <3>2, <3>3 DEF Ids
      <4>3. t.id \in Ids(b)
        BY <2>7, <3>2 DEF Ids
      <4> QED BY <4>1, <4>2, <4>3
    <3> QED BY <3>1, <3>2, <3>5, <3>6
  <2>10. kept[i] = Append(s, t) \/ kept[i] = s
    BY <2>5, <2>6, <2>8
  <2> QED BY <2>1, <2>4, <2>7, <2>8, <2>9, <2>10
<1>10. kept[k] \in Seq(TrackSet) /\ OnceEach(kept[k]) /\ Ids(kept[k]) \subseteq UpTo(tracks, k)
  <2>1. \A i \in 1 .. k : i - 1 \in P => i \in P
    BY <1>9
  <2> HIDE DEF P, k
  <2>2. \A i \in 0 .. k : i \in P
    BY <1>1, <1>8, <2>1, AlongLoop
  <2>3. k \in P
    BY <1>1, <2>2
  <2> QED BY <2>3 DEF P
<1>11. UpTo(tracks, k) = Ids(tracks)
  BY DEF UpTo, Ids
<1> HIDE DEF kept, k
<1> QED BY <1>7, <1>10, <1>11

LEMMA FusionKeepsBoxes ==
    ASSUME NEW boxes \in Seq(BoxSet), NEW matched \in SUBSET (1 .. Len(boxes)),
           NEW result, result = Fuse(boxes, matched)
    PROVE  result \in Seq(BoxSet)
<1> DEFINE k == Len(boxes)
           Suppressed(i) == \E j \in 1 .. (i - 1) :
                              j \in matched /\ boxes[j].x = Opposite(boxes[i].x)
           kept == {i \in matched : ~Suppressed(i)}
           Turn(s, i) == IF i \in kept THEN s \o StereoPair(boxes[i]) ELSE s
           F == [p \in (1 .. k) \X Seq(BoxSet) |-> Turn(p[2], p[1])]
           fused == CHOOSE run : run = [i \in 0 .. k |->
                       IF i = 0 THEN <<>>
                       ELSE IF i \in kept THEN run[i - 1] \o StereoPair(boxes[i]) ELSE run[i - 1]]
<1>1. k \in Nat /\ <<>> \in Seq(BoxSet)
  OBVIOUS
<1>2. ASSUME NEW i \in 1 .. k PROVE StereoPair(boxes[i]) \in Seq(BoxSet)
  <2>1. boxes[i] \in BoxSet
    OBVIOUS
  <2>2. PICK box : box = boxes[i]
    OBVIOUS
  <2>3. \A y \in Int : Opposite(y) \in Int
    BY VisionConstants DEF Opposite, IsLeft
  <2>4. PICK l : l = IF IsLeft(box.x) THEN box.x ELSE Opposite(box.x)
    OBVIOUS
  <2>5. box.x \in Int /\ box.id \in Nat
    BY <2>1, <2>2 DEF BoxSet
  <2>6. l \in Int /\ Opposite(l) \in Int
    BY <2>3, <2>4, <2>5
  <2>7. [x |-> l, id |-> 2 * box.id] \in BoxSet
    BY <2>5, <2>6 DEF BoxSet
  <2>8. [x |-> Opposite(l), id |-> 2 * box.id + 1] \in BoxSet
    BY <2>5, <2>6 DEF BoxSet
  <2>9. StereoPair(box) = << [x |-> l, id |-> 2 * box.id], [x |-> Opposite(l), id |-> 2 * box.id + 1] >>
    BY <2>4 DEF StereoPair
  <2>10. StereoPair(box) \in Seq(BoxSet)
    BY <2>7, <2>8, <2>9
  <2> QED BY <2>2, <2>10
<1>3. \A s \in Seq(BoxSet), i \in 1 .. k : Turn(s, i) \in Seq(BoxSet)
  <2> HIDE DEF kept, k
  <2>1. \A s \in Seq(BoxSet), i \in 1 .. k : s \o StereoPair(boxes[i]) \in Seq(BoxSet)
    BY <1>2, ConcatProperties
  <2> QED BY <2>1
<1> HIDE DEF kept
<1>4. F \in [(1 .. k) \X Seq(BoxSet) -> Seq(BoxSet)]
  <2> HIDE DEF Turn
  <2> QED BY <1>3
<1>5. PICK run \in [0 .. k -> Seq(BoxSet)] : Turns(run, k, <<>>, F)
  <2> HIDE DEF F, k
  <2> QED BY <1>1, <1>4, LoopRuns
<1>6. run = [i \in 0 .. k |-> IF i = 0 THEN <<>> ELSE Turn(run[i - 1], i)]
  <2>1. ASSUME NEW i \in 0 .. k, i # 0 PROVE F[<<i, run[i - 1]>>] = Turn(run[i - 1], i)
    <3>1. i \in 1 .. k /\ run[i - 1] \in Seq(BoxSet)
      BY <2>1, <1>1
    <3> HIDE DEF Turn
    <3> QED BY <3>1
  <2>2. run = [i \in 0 .. k |-> IF i = 0 THEN <<>> ELSE F[<<i, run[i - 1]>>]]
    BY <1>5 DEF Turns
  <2> HIDE DEF F, k, Turn
  <2> QED BY <2>1, <2>2
<1>7. fused = [i \in 0 .. k |-> IF i = 0 THEN <<>> ELSE Turn(fused[i - 1], i)]
  <2> HIDE DEF k
  <2> QED BY <1>6
<1>8. result = IF kept = {} THEN boxes ELSE fused[k]
  BY DEF Fuse, kept
<1> DEFINE P == {i \in 0 .. k : fused[i] \in Seq(BoxSet)}
<1>9. 0 \in P
  <2> HIDE DEF fused, k
  <2>1. 0 \in 0 .. k /\ fused[0] = <<>>
    BY <1>1, <1>7
  <2> QED BY <1>1, <2>1
<1>10. ASSUME NEW i \in 1 .. k, i - 1 \in P PROVE i \in P
  <2>1. i \in 0 .. k /\ i # 0
    BY <1>1
  <2> HIDE DEF fused, k, Turn
  <2>2. fused[i] = Turn(fused[i - 1], i)
    BY <1>7, <2>1
  <2> QED BY <1>3, <1>10, <2>1, <2>2
<1>11. fused[k] \in Seq(BoxSet)
  <2>1. \A i \in 1 .. k : i - 1 \in P => i \in P
    BY <1>10
  <2> HIDE DEF P, k
  <2>2. \A i \in 0 .. k : i \in P
    BY <1>1, <1>9, <2>1, AlongLoop
  <2>3. k \in P
    BY <1>1, <2>2
  <2> QED BY <2>3 DEF P
<1> HIDE DEF fused
<1> QED BY <1>8, <1>11

LEMMA BoxesOfImages ==
    ASSUME NEW left \in Images, NEW right \in Images PROVE MonoBoxes(left, right) \in Seq(BoxSet)
<1>1. left \in Seq(Nat) /\ right \in Seq(Nat) /\ Span \in Nat
  <2>1. \A image \in Images : image \in Seq(Nat)
    <3>1. TAKE image \in Images
    <3>2. PICK n \in 0 .. 2 : image \in [1 .. n -> 1 .. Span]
      BY DEF Images
    <3>3. image \in [1 .. n -> Nat]
      BY <3>2, VisionConstants
    <3> QED BY <3>2, <3>3
  <2> QED BY <2>1, VisionConstants
<1>2. [i \in 1 .. Len(left) |-> [x |-> left[i], id |-> 2 * (i - 1)]] \in Seq(BoxSet)
  BY <1>1 DEF BoxSet
<1>3. [i \in 1 .. Len(right) |-> [x |-> right[i] + Span, id |-> 2 * (i - 1) + 1]] \in Seq(BoxSet)
  BY <1>1 DEF BoxSet
<1> QED BY <1>2, <1>3, ConcatProperties DEF MonoBoxes

LEMMA UnmatchedTracks ==
    ASSUME NEW tracks \in Seq(TrackSet), NEW new, new = Unmatch(tracks)
    PROVE  /\ new \in Seq(TrackSet) /\ (OnceEach(tracks) => OnceEach(new))
           /\ Ids(new) = Ids(tracks) /\ WithBox(new) = {}
<1>1. \A i \in 1 .. Len(tracks) : tracks[i] \in TrackSet
  OBVIOUS
<1>2. ASSUME NEW t \in TrackSet
      PROVE  /\ [t EXCEPT !.matched = FALSE] \in TrackSet
             /\ [t EXCEPT !.matched = FALSE].id = t.id
             /\ [t EXCEPT !.matched = FALSE].matched = FALSE
  BY DEF TrackSet
<1>3. new = [i \in 1 .. Len(tracks) |-> [tracks[i] EXCEPT !.matched = FALSE]]
  BY DEF Unmatch
<1>4. \A i \in 1 .. Len(tracks) : new[i] = [tracks[i] EXCEPT !.matched = FALSE]
  BY <1>3
<1>5. \A i \in 1 .. Len(tracks) : new[i] \in TrackSet /\ new[i].id = tracks[i].id /\ ~new[i].matched
  BY <1>1, <1>2, <1>4
<1>6. new \in Seq(TrackSet) /\ Len(new) = Len(tracks)
  BY <1>3, <1>5
<1>7. OnceEach(tracks) => OnceEach(new)
  BY <1>5, <1>6 DEF OnceEach
<1>8. Ids(new) = Ids(tracks)
  <2>1. Ids(new) \subseteq Ids(tracks)
    BY <1>5, <1>6 DEF Ids
  <2>2. Ids(tracks) \subseteq Ids(new)
    BY <1>5, <1>6 DEF Ids
  <2> QED BY <2>1, <2>2
<1>9. WithBox(new) = {}
  BY <1>5, <1>6 DEF WithBox
<1> QED BY <1>6, <1>7, <1>8, <1>9

-----------------------------------------------------------------------------
VisionInv ==
  /\ singleTracks \in Seq(TrackSet) /\ pairTracks \in Seq(TrackSet) /\ nextTrackId \in Nat
  /\ IdsIssued(singleTracks, pairTracks, nextTrackId)
  /\ boxesSent \in Seq(BoxSet) /\ OnceEach(boxesSent)
  /\ Len(boxesSent) =< kMaxStabilizedDetections

\* A frame's pass keeps the tracks numbered and puts out each identity once.
LEMMA FramePass ==
    ASSUME VisionInv, NEW boxes \in Seq(BoxSet), NEW follow \in BOOLEAN, Stabilize(boxes, follow)
    PROVE  VisionInv'
<1>1. PICK sg : sg = Unmatch(singleTracks)
  OBVIOUS
<1>2. PICK pr : pr = Unmatch(pairTracks)
  OBVIOUS
<1>3. /\ sg \in Seq(TrackSet) /\ pr \in Seq(TrackSet) /\ WithBox(sg) = {} /\ WithBox(pr) = {}
      /\ IdsIssued(sg, pr, nextTrackId) /\ nextTrackId \in Nat
  <2>1. sg \in Seq(TrackSet) /\ OnceEach(sg) /\ Ids(sg) = Ids(singleTracks) /\ WithBox(sg) = {}
    BY <1>1, UnmatchedTracks DEF VisionInv, IdsIssued
  <2>2. pr \in Seq(TrackSet) /\ OnceEach(pr) /\ Ids(pr) = Ids(pairTracks) /\ WithBox(pr) = {}
    BY <1>2, UnmatchedTracks DEF VisionInv, IdsIssued
  <2> QED BY <2>1, <2>2 DEF VisionInv, IdsIssued
<1>4. PICK start : start = [singles |-> sg, pairs |-> pr, next |-> nextTrackId, out |-> <<>>, at |-> 1]
  OBVIOUS
<1>5. start \in Work
  <2>1. OnceEach(<<>>) /\ OutOf(<<>>, WithBox(sg) \cup WithBox(pr))
    BY DEF OnceEach, OutOf
  <2>2. 0 =< kMaxStabilizedDetections
    BY VisionConstants
  <2>3. <<>> \in Seq(BoxSet) /\ Len(<<>>) = 0
    OBVIOUS
  <2>4. /\ start \in WorkType /\ start.singles = sg /\ start.pairs = pr
        /\ start.next = nextTrackId /\ start.out = <<>>
    BY <1>3, <1>4, <2>3 DEF WorkType
  <2> QED BY <1>3, <2>1, <2>2, <2>3, <2>4 DEF Work, WorkType
<1>6. PICK w : w = StabilizeBoxes(boxes, start, follow)
  OBVIOUS
<1>7. w \in Work
  BY <1>5, <1>6, BoxesWork
<1>8. PICK singles : singles = w.singles
  OBVIOUS
<1>9. PICK pairs : pairs = w.pairs
  OBVIOUS
<1>10. PICK out : out = w.out
  OBVIOUS
<1>11. PICK next : next = w.next
  OBVIOUS
<1>12. /\ singles \in Seq(TrackSet) /\ pairs \in Seq(TrackSet) /\ next \in Nat
       /\ out \in Seq(BoxSet) /\ IdsIssued(singles, pairs, next)
       /\ OnceEach(out) /\ OutOf(out, WithBox(singles) \cup WithBox(pairs))
       /\ Len(out) =< kMaxStabilizedDetections
  BY <1>7, <1>8, <1>9, <1>10, <1>11 DEF Work
<1>13. PICK a : a = AppendHeld(pairs, out, 2)
  OBVIOUS
<1>14. PICK b : b = AppendHeld(singles, a.out, 1)
  OBVIOUS
<1>15. /\ pairTracks' = PruneStaleTracks(a.tracks) /\ singleTracks' = PruneStaleTracks(b.tracks)
       /\ nextTrackId' = next /\ boxesSent' = b.out
  BY <1>1, <1>2, <1>4, <1>6, <1>8, <1>9, <1>10, <1>11, <1>13, <1>14 DEF Stabilize
<1>16. /\ OnceEach(singles) /\ OnceEach(pairs) /\ Ids(singles) \cap Ids(pairs) = {}
       /\ \A t \in Ids(singles) \cup Ids(pairs) : t < next
  BY <1>12 DEF IdsIssued
<1>17. \A list \in Seq(TrackSet) : Ids(list) \in SUBSET Nat /\ WithBox(list) \subseteq Ids(list)
  <2>1. TAKE list \in Seq(TrackSet)
  <2>2. \A i \in 1 .. Len(list) : list[i] \in TrackSet
    OBVIOUS
  <2>3. \A i \in 1 .. Len(list) : list[i].id \in Nat
    BY <2>2 DEF TrackSet
  <2>4. Ids(list) \in SUBSET Nat
    BY <2>3 DEF Ids
  <2>5. WithBox(list) \subseteq Ids(list)
    BY DEF Ids, WithBox
  <2> QED BY <2>4, <2>5
<1>18. /\ a.tracks \in Seq(TrackSet) /\ OnceEach(a.tracks) /\ Ids(a.tracks) = Ids(pairs)
       /\ a.out \in Seq(BoxSet) /\ OnceEach(a.out) /\ Len(a.out) =< kMaxStabilizedDetections
       /\ OutOf(a.out, WithBox(singles) \cup Ids(pairs))
  <2>1. WithBox(singles) \in SUBSET Nat /\ WithBox(singles) \cap Ids(pairs) = {}
    BY <1>12, <1>16, <1>17
  <2>2. 2 \in {1, 2}
    OBVIOUS
  <2> QED BY <1>12, <1>13, <1>16, <2>1, <2>2, TracksAreHeld
<1>19. /\ b.tracks \in Seq(TrackSet) /\ OnceEach(b.tracks) /\ Ids(b.tracks) = Ids(singles)
       /\ b.out \in Seq(BoxSet) /\ OnceEach(b.out) /\ Len(b.out) =< kMaxStabilizedDetections
  <2>1. PICK S : S = Ids(pairs)
    OBVIOUS
  <2>2. S \in SUBSET Nat /\ S \cap Ids(singles) = {}
    BY <1>12, <1>16, <1>17, <2>1
  <2>3. WithBox(singles) \cup Ids(pairs) = S \cup WithBox(singles)
    BY <2>1
  <2>4. OutOf(a.out, S \cup WithBox(singles))
    BY <1>18, <2>3
  <2>5. 1 \in {1, 2}
    OBVIOUS
  <2>6. PICK mid : mid = a.out
    OBVIOUS
  <2> QED BY <1>12, <1>14, <1>16, <1>18, <2>2, <2>4, <2>5, <2>6, TracksAreHeld
<1>20. /\ pairTracks' \in Seq(TrackSet) /\ OnceEach(pairTracks')
       /\ Ids(pairTracks') \subseteq Ids(pairs)
  BY <1>15, <1>18, PruningKeepsOrder
<1>21. /\ singleTracks' \in Seq(TrackSet) /\ OnceEach(singleTracks')
       /\ Ids(singleTracks') \subseteq Ids(singles)
  BY <1>15, <1>19, PruningKeepsOrder
<1>22. IdsIssued(singleTracks', pairTracks', nextTrackId')
  BY <1>15, <1>16, <1>20, <1>21 DEF IdsIssued
<1> QED BY <1>12, <1>15, <1>19, <1>20, <1>21, <1>22 DEF VisionInv, IdsIssued, OnceEach, Ids

LEMMA VisionInvStarts == VisionInit => VisionInv
<1> SUFFICES ASSUME VisionInit PROVE VisionInv
  OBVIOUS
<1>1. singleTracks = <<>> /\ pairTracks = <<>> /\ nextTrackId = 1 /\ boxesSent = <<>>
  BY DEF VisionInit
<1>2. OnceEach(<<>>) /\ Ids(<<>>) = {}
  BY DEF OnceEach, Ids
<1>3. IdsIssued(<<>>, <<>>, 1)
  BY <1>2 DEF IdsIssued
<1>4. <<>> \in Seq(TrackSet) /\ <<>> \in Seq(BoxSet) /\ Len(<<>>) = 0
  OBVIOUS
<1>5. 0 =< kMaxStabilizedDetections
  BY VisionConstants
<1> QED BY <1>1, <1>2, <1>3, <1>4, <1>5 DEF VisionInv

LEMMA VisionInvStays == VisionInv /\ [VisionNext]_visionVars => VisionInv'
<1> SUFFICES ASSUME VisionInv, [VisionNext]_visionVars PROVE VisionInv'
  OBVIOUS
<1>1. CASE UNCHANGED <<singleTracks, pairTracks, nextTrackId, boxesSent>>
  BY <1>1 DEF VisionInv
<1>2. CASE UNCHANGED visionVars
  <2>1. UNCHANGED <<singleTracks, pairTracks, nextTrackId, boxesSent>>
    BY <1>2 DEF visionVars
  <2> QED BY <1>1, <2>1
<1>3. CASE ProcessYoloFrame /\ detector' = "off"
  <2>1. UNCHANGED <<singleTracks, pairTracks, nextTrackId, boxesSent>>
    BY <1>3 DEF ProcessYoloFrame
  <2> QED BY <1>1, <2>1
<1>4. CASE ProcessYoloFrame /\ detector' # "off"
  <2>1. PICK boxes \in Detections, follow \in BOOLEAN : Stabilize(boxes, follow)
    BY <1>4 DEF ProcessYoloFrame
  <2>2. PICK left \in Images, right \in Images : boxes \in
           {Fuse(MonoBoxes(left, right), matched) :
              matched \in SUBSET (1 .. Len(MonoBoxes(left, right)))}
    BY <2>1 DEF Detections
  <2>3. PICK seen : seen = MonoBoxes(left, right)
    OBVIOUS
  <2>4. PICK matched \in SUBSET (1 .. Len(seen)) : boxes = Fuse(seen, matched)
    BY <2>2, <2>3
  <2>5. seen \in Seq(BoxSet)
    BY <2>3, BoxesOfImages
  <2>6. boxes \in Seq(BoxSet)
    BY <2>4, <2>5, FusionKeepsBoxes
  <2> QED BY <2>1, <2>6, FramePass
<1> QED BY <1>2, <1>3, <1>4 DEF VisionNext

\* The boxes of a frame carry each identity once, and a message holds them,
\* for any number of tracks and any limits: DetectionStabilizer::Stabilize.
THEOREM IdentitiesAreUnique == VisionSpec => []IdentitiesUnique
<1>1. VisionInv => IdentitiesUnique
  BY DEF VisionInv, IdentitiesUnique, OnceEach
<1> QED BY <1>1, VisionInvStarts, VisionInvStays, PTL DEF VisionSpec

-----------------------------------------------------------------------------
(* CameraPipeline.                                                          *)

USE CameraConstants DEF CameraConstants

-----------------------------------------------------------------------------
(* Sequences of one or two subscriptions.                                   *)

Lists == {<<>>, <<"rtc">>, <<"yolo">>, <<"rtc", "yolo">>}

LEMMA ListsOf ==
    /\ RangeOf(<<>>) = {} /\ RangeOf(<<"rtc">>) = {"rtc"} /\ RangeOf(<<"yolo">>) = {"yolo"}
    /\ RangeOf(<<"rtc", "yolo">>) = {"rtc", "yolo"}
<1>1. RangeOf(<<>>) = {}
  BY DEF RangeOf
<1>2. ASSUME NEW s PROVE RangeOf(<<s>>) = {s}
  BY DEF RangeOf
<1>3. RangeOf(<<"rtc", "yolo">>) = {"rtc", "yolo"}
  <2> DEFINE l == <<"rtc", "yolo">>
  <2>1. DOMAIN l = {1, 2} /\ l[1] = "rtc" /\ l[2] = "yolo"
    OBVIOUS
  <2> HIDE DEF l
  <2>2. RangeOf(l) = {l[1], l[2]}
    BY <2>1 DEF RangeOf
  <2> QED BY <2>1, <2>2 DEF l
<1> QED BY <1>1, <1>2, <1>3

LEMMA HeadOfList ==
    ASSUME NEW l \in Lists, l # <<>>
    PROVE  /\ Head(l) \in Subs /\ Head(l) \in RangeOf(l) /\ Tail(l) \in Lists
           /\ RangeOf(Tail(l)) = RangeOf(l) \ {Head(l)}
<1>1. CASE l = <<"rtc">>
  <2>1. Head(l) = "rtc" /\ Tail(l) = <<>>
    BY <1>1
  <2> QED BY <1>1, <2>1, ListsOf DEF Lists, Subs
<1>2. CASE l = <<"yolo">>
  <2>1. Head(l) = "yolo" /\ Tail(l) = <<>>
    BY <1>2
  <2> QED BY <1>2, <2>1, ListsOf DEF Lists, Subs
<1>3. CASE l = <<"rtc", "yolo">>
  <2>1. Head(l) = "rtc" /\ Tail(l) = <<"yolo">>
    BY <1>3
  <2> QED BY <1>3, <2>1, ListsOf DEF Lists, Subs
<1> QED BY <1>1, <1>2, <1>3 DEF Lists

-----------------------------------------------------------------------------
(* The state of a subscription.                                             *)

Queues == [q : Seq(Nat), closed : BOOLEAN]

\* A queue of depth d has the newest of p frames, in a row; one that is not full
\* has lost none after the t-th.
RowOf(q, d, p, t) ==
    /\ Len(q) =< d /\ t + Len(q) =< p
    /\ \A i \in 1 .. Len(q) : q[i] = p - Len(q) + i
    /\ Len(q) < d => t + Len(q) = p

Row(s) ==
    /\ sub[s].closed => sub[s].q = <<>>
    /\ ~sub[s].closed => RowOf(sub[s].q, Depth(s), pushed[s], taken[s])

Kinds == {"single", "stereo", "yolo", "file"}
SubTypes ==
    /\ kind \in Kinds
    /\ sub \in [Subs -> Queues] /\ pushed \in [Subs -> Nat] /\ taken \in [Subs -> Nat]

Rows == SubTypes /\ \A s \in Subs : Row(s)

LEMMA DepthOf == ASSUME NEW s \in Subs PROVE Depth(s) \in {1, 2}
BY DEF Depth

\* What a step does to the subscriptions.
Stands == UNCHANGED <<sub, pushed, taken>>
PushesTo(h) ==
    /\ ~sub[h].closed /\ seq = pushed[h] + 1
    /\ Push(h) /\ pushed' = [pushed EXCEPT ![h] = seq] /\ UNCHANGED taken
TakesFrom(h) ==
    /\ sub[h].q # <<>>
    /\ taken' = [taken EXCEPT ![h] = Head(sub[h].q)]
    /\ sub' = [sub EXCEPT ![h].q = Tail(@)]
    /\ UNCHANGED pushed
Closes(S) ==
    /\ sub' = [s \in Subs |-> IF s \in S THEN Closed(sub[s]) ELSE sub[s]]
    /\ UNCHANGED <<pushed, taken>>

\* What that is to LatestFrames.
GoneAfter(d, p, t) == IF p > t + d THEN p - d ELSE t
GoneOf(s) == GoneAfter(Depth(s), pushed[s], taken[s])
StandsAt(s) == pushed'[s] = pushed[s] /\ taken'[s] = taken[s] /\ sub'[s].closed = sub[s].closed
PutAt(s) ==
    /\ ~sub[s].closed
    /\ pushed'[s] = pushed[s] + 1 /\ taken'[s] = taken[s] /\ sub'[s].closed = sub[s].closed
TakeAt(s) ==
    /\ ~sub[s].closed
    /\ GoneOf(s) < pushed[s] /\ taken'[s] = GoneOf(s) + 1
    /\ pushed'[s] = pushed[s] /\ sub'[s].closed = sub[s].closed
ShutAt(s) == sub'[s].closed = TRUE /\ pushed'[s] = pushed[s] /\ taken'[s] = taken[s]
LatestAt(s) == StandsAt(s) \/ PutAt(s) \/ TakeAt(s) \/ ShutAt(s)

\* A frame joins the row; a full row loses its first.
LEMMA RowGrows ==
    ASSUME NEW q \in Seq(Nat), NEW d \in {1, 2}, NEW p \in Nat, NEW t \in Nat, RowOf(q, d, p, t),
           NEW r, r = IF Len(q) >= d THEN Append(Tail(q), p + 1) ELSE Append(q, p + 1)
    PROVE  r \in Seq(Nat) /\ RowOf(r, d, p + 1, t)
<1>0. /\ Len(q) =< d /\ t + Len(q) =< p
      /\ \A i \in 1 .. Len(q) : q[i] = p - Len(q) + i
      /\ Len(q) < d => t + Len(q) = p
  BY DEF RowOf
<1>1. PICK n \in Nat : n = Len(q)
  BY LenProperties
<1>2. CASE n >= d
  <2> DEFINE u == Tail(q)
  <2>1. u \in Seq(Nat) /\ Len(u) = n - 1 /\ \A i \in 1 .. n - 1 : u[i] = q[i + 1]
    BY <1>1, <1>2
  <2>2. r = Append(u, p + 1)
    BY <1>1, <1>2
  <2> HIDE DEF u
  <2>3. /\ r \in Seq(Nat) /\ Len(r) = n /\ r[n] = p + 1
        /\ \A i \in 1 .. n - 1 : r[i] = u[i]
    BY <1>1, <1>2, <2>1, <2>2
  <2>4. \A i \in 1 .. n : r[i] = (p + 1) - n + i
    <3> TAKE i \in 1 .. n
    <3>1. CASE i = n
      BY <2>3, <3>1
    <3>2. CASE i # n
      <4>1. i \in 1 .. n - 1 /\ i + 1 \in 1 .. n
        BY <1>1, <3>2
      <4>2. r[i] = q[i + 1] /\ q[i + 1] = p - n + (i + 1)
        BY <1>0, <1>1, <2>1, <2>3, <4>1
      <4> QED BY <1>1, <4>1, <4>2
    <3> QED BY <3>1, <3>2
  <2>5. n = d /\ t + n =< p + 1
    BY <1>0, <1>1, <1>2
  <2>6. n =< d /\ t + n =< p + 1 /\ (n < d => t + n = p + 1)
    BY <1>1, <2>5
  <2>7. Len(r) = n /\ r \in Seq(Nat)
    BY <2>3
  <2> QED BY <2>4, <2>6, <2>7, Zenon DEF RowOf
<1>3. CASE n < d
  <2>1. r = Append(q, p + 1)
    BY <1>1, <1>3
  <2>2. /\ r \in Seq(Nat) /\ Len(r) = n + 1 /\ r[n + 1] = p + 1
        /\ \A i \in 1 .. n : r[i] = q[i]
    BY <1>1, <2>1
  <2>3. t + n = p
    BY <1>0, <1>1, <1>3
  <2>4. \A i \in 1 .. n + 1 : r[i] = (p + 1) - (n + 1) + i
    <3> TAKE i \in 1 .. n + 1
    <3>1. CASE i = n + 1
      BY <2>2, <3>1
    <3>2. CASE i # n + 1
      <4>1. i \in 1 .. n
        BY <1>1, <3>2
      <4>2. r[i] = p - n + i
        BY <1>0, <1>1, <2>2, <4>1
      <4> QED BY <1>1, <4>1, <4>2
    <3> QED BY <3>1, <3>2
  <2>5. n + 1 =< d /\ t + (n + 1) =< p + 1 /\ (n + 1 < d => t + (n + 1) = p + 1)
    BY <1>1, <1>3, <2>3
  <2>6. Len(r) = n + 1 /\ r \in Seq(Nat)
    BY <2>2
  <2> QED BY <2>4, <2>5, <2>6, Zenon DEF RowOf
<1>4. n >= d \/ n < d
  BY <1>1
<1> QED BY <1>2, <1>3, <1>4, Zenon

\* The first of the row is what comes after the frames that are gone.
LEMMA RowShrinks ==
    ASSUME NEW q \in Seq(Nat), NEW d \in {1, 2}, NEW p \in Nat, NEW t \in Nat, q # <<>>, RowOf(q, d, p, t)
    PROVE  /\ GoneAfter(d, p, t) < p /\ Head(q) = GoneAfter(d, p, t) + 1 /\ Head(q) \in Nat /\ Tail(q) \in Seq(Nat)
           /\ RowOf(Tail(q), d, p, Head(q))
<1> DEFINE g == GoneAfter(d, p, t)
<1>0. /\ Len(q) =< d /\ t + Len(q) =< p
      /\ \A i \in 1 .. Len(q) : q[i] = p - Len(q) + i
      /\ Len(q) < d => t + Len(q) = p
  BY DEF RowOf
<1>1. PICK n \in Nat : n = Len(q) /\ n > 0
  <2>1. Len(q) \in Nat /\ Len(q) # 0
    BY EmptySeq, LenProperties
  <2> QED BY <2>1
<1>2. Head(q) = q[1] /\ q[1] = p - n + 1
  BY <1>0, <1>1
<1>3. p - n = g
  BY <1>0, <1>1 DEF GoneAfter
<1> DEFINE u == Tail(q)
<1>4. u \in Seq(Nat) /\ Len(u) = n - 1 /\ \A i \in 1 .. n - 1 : u[i] = q[i + 1]
  BY <1>1
<1> HIDE DEF u
<1>5. \A i \in 1 .. n - 1 : u[i] = p - (n - 1) + i
  <2> TAKE i \in 1 .. n - 1
  <2>1. i + 1 \in 1 .. n
    BY <1>1
  <2>2. q[i + 1] = p - n + (i + 1)
    BY <1>0, <1>1, <2>1
  <2> QED BY <1>1, <1>4, <2>2
<1> DEFINE f == Head(q)
<1>6. g < p /\ f = g + 1 /\ f \in Nat /\ n - 1 =< d /\ f + (n - 1) = p
  <2> HIDE DEF g
  <2> QED BY <1>0, <1>1, <1>2, <1>3
<1> HIDE DEF g, f
<1>7. f + (n - 1) =< p
  BY <1>6
<1>8. RowOf(u, d, p, f)
  BY <1>4, <1>5, <1>6, <1>7 DEF RowOf
<1> QED BY <1>4, <1>6, <1>8 DEF u, f, g

LEMMA SubOf ==
    ASSUME SubTypes, NEW s \in Subs
    PROVE  /\ sub[s] \in Queues /\ sub[s].q \in Seq(Nat) /\ pushed[s] \in Nat /\ taken[s] \in Nat
           /\ Depth(s) \in {1, 2}
BY DepthOf DEF SubTypes, Queues

LEMMA PushKeepsRows ==
    ASSUME Rows, NEW h \in Subs, PushesTo(h), UNCHANGED kind
    PROVE  Rows' /\ \A s \in Subs : StandsAt(s) \/ PutAt(s)
<1> DEFINE q == sub[h].q  d == Depth(h)  p == pushed[h]  t == taken[h]
           r == IF Len(q) >= d THEN Append(Tail(q), p + 1) ELSE Append(q, p + 1)
<1>1. /\ q \in Seq(Nat) /\ d \in {1, 2} /\ p \in Nat /\ t \in Nat /\ ~sub[h].closed
      /\ sub \in [Subs -> Queues] /\ pushed \in [Subs -> Nat]
  BY SubOf DEF Rows, PushesTo, SubTypes
<1>2. RowOf(q, d, p, t)
  BY <1>1 DEF Rows, Row
<1>3. sub' = [sub EXCEPT ![h].q = r] /\ pushed' = [pushed EXCEPT ![h] = p + 1] /\ taken' = taken
  BY <1>1 DEF PushesTo, Push
<1>4. UNCHANGED kind
  OBVIOUS
<1>e. \A s \in Subs : Depth(s)' = Depth(s)
  BY <1>4 DEF Depth, Stereo
<1>5. r \in Seq(Nat) /\ RowOf(r, d, p + 1, t)
  <2> HIDE DEF q, d, p, t
  <2> QED BY <1>1, <1>2, RowGrows
<1> HIDE DEF r
<1>6. [sub[h] EXCEPT !.q = r] \in Queues /\ [sub[h] EXCEPT !.q = r].q = r
      /\ [sub[h] EXCEPT !.q = r].closed = sub[h].closed
  BY <1>1, <1>5 DEF Queues
<1>7. sub' = [sub EXCEPT ![h] = [sub[h] EXCEPT !.q = r]]
  BY <1>3
<1>8. /\ sub' \in [Subs -> Queues] /\ pushed' \in [Subs -> Nat]
      /\ sub'[h].q = r /\ sub'[h].closed = sub[h].closed /\ pushed'[h] = p + 1
      /\ \A s \in Subs \ {h} : sub'[s] = sub[s] /\ pushed'[s] = pushed[s]
  BY <1>1, <1>3, <1>6, <1>7
<1>9. SubTypes'
  BY <1>3, <1>4, <1>8 DEF Rows, SubTypes
<1>10. \A s \in Subs : StandsAt(s) \/ PutAt(s)
  BY <1>1, <1>3, <1>8 DEF StandsAt, PutAt
<1>11. Row(h)'
  <2>1. ~sub'[h].closed /\ sub'[h].q = r /\ pushed'[h] = p + 1 /\ taken'[h] = t /\ Depth(h)' = d
    BY <1>1, <1>3, <1>8, <1>e
  <2> HIDE DEF p, t, d
  <2> QED BY <1>5, <2>1 DEF Row
<1>12. ASSUME NEW s \in Subs \ {h} PROVE Row(s)'
  <2>1. Row(s)
    BY <1>12 DEF Rows
  <2>2. sub'[s] = sub[s] /\ pushed'[s] = pushed[s] /\ taken'[s] = taken[s] /\ Depth(s)' = Depth(s)
    BY <1>3, <1>8, <1>e, <1>12
  <2> QED BY <2>1, <2>2 DEF Row
<1>13. \A s \in Subs : Row(s)'
  BY <1>11, <1>12
<1> QED BY <1>9, <1>10, <1>13 DEF Rows

LEMMA TakeKeepsRows ==
    ASSUME Rows, NEW h \in Subs, TakesFrom(h), UNCHANGED kind
    PROVE  Rows' /\ \A s \in Subs : StandsAt(s) \/ TakeAt(s)
<1> DEFINE q == sub[h].q  d == Depth(h)  p == pushed[h]  t == taken[h]  g == GoneOf(h)
           r == Tail(q)
<1>1. /\ q \in Seq(Nat) /\ d \in {1, 2} /\ p \in Nat /\ t \in Nat /\ q # <<>>
      /\ sub \in [Subs -> Queues] /\ taken \in [Subs -> Nat]
  BY SubOf DEF Rows, TakesFrom, SubTypes
<1>c. ~sub[h].closed
  BY <1>1 DEF Rows, Row
<1>2. RowOf(q, d, p, t)
  BY <1>1, <1>c DEF Rows, Row
<1>3. sub' = [sub EXCEPT ![h].q = r] /\ taken' = [taken EXCEPT ![h] = Head(q)] /\ pushed' = pushed
  BY <1>1 DEF TakesFrom
<1>4. UNCHANGED kind
  OBVIOUS
<1>e. \A s \in Subs : Depth(s)' = Depth(s)
  BY <1>4 DEF Depth, Stereo
<1>g. g = GoneAfter(d, p, t)
  BY DEF GoneOf
<1>5. /\ g < p /\ Head(q) = g + 1 /\ Head(q) \in Nat /\ r \in Seq(Nat)
      /\ RowOf(r, d, p, Head(q))
  <2> HIDE DEF q, d, p, t, g
  <2> QED BY <1>1, <1>2, <1>g, RowShrinks
<1> HIDE DEF r, g
<1>6. [sub[h] EXCEPT !.q = r] \in Queues /\ [sub[h] EXCEPT !.q = r].q = r
      /\ [sub[h] EXCEPT !.q = r].closed = sub[h].closed
  BY <1>1, <1>5 DEF Queues
<1>7. sub' = [sub EXCEPT ![h] = [sub[h] EXCEPT !.q = r]]
  BY <1>3
<1>8. /\ sub' \in [Subs -> Queues] /\ taken' \in [Subs -> Nat]
      /\ sub'[h].q = r /\ sub'[h].closed = sub[h].closed /\ taken'[h] = Head(q)
      /\ \A s \in Subs \ {h} : sub'[s] = sub[s] /\ taken'[s] = taken[s]
  BY <1>1, <1>3, <1>5, <1>6, <1>7
<1>9. SubTypes'
  BY <1>3, <1>4, <1>8 DEF Rows, SubTypes
<1>10. \A s \in Subs : StandsAt(s) \/ TakeAt(s)
  BY <1>c, <1>3, <1>5, <1>8 DEF StandsAt, TakeAt, g
<1>11. Row(h)'
  <2> DEFINE f == Head(q)
  <2>1. ~sub'[h].closed /\ sub'[h].q = r /\ pushed'[h] = p /\ taken'[h] = f /\ Depth(h)' = d
    BY <1>c, <1>3, <1>8, <1>e
  <2> HIDE DEF p, d
  <2> QED BY <1>5, <2>1 DEF Row
<1>12. ASSUME NEW s \in Subs \ {h} PROVE Row(s)'
  <2>1. Row(s)
    BY <1>12 DEF Rows
  <2>2. sub'[s] = sub[s] /\ pushed'[s] = pushed[s] /\ taken'[s] = taken[s] /\ Depth(s)' = Depth(s)
    BY <1>3, <1>8, <1>e, <1>12
  <2> QED BY <2>1, <2>2 DEF Row
<1>13. \A s \in Subs : Row(s)'
  BY <1>11, <1>12
<1> QED BY <1>9, <1>10, <1>13 DEF Rows

LEMMA CloseKeepsRows ==
    ASSUME Rows, NEW S, Closes(S), UNCHANGED kind
    PROVE  Rows' /\ \A s \in Subs : StandsAt(s) \/ ShutAt(s)
<1>1. /\ sub \in [Subs -> Queues] /\ UNCHANGED <<kind, pushed, taken>>
      /\ sub' = [s \in Subs |-> IF s \in S THEN Closed(sub[s]) ELSE sub[s]]
  BY DEF Rows, SubTypes, Closes
<1>2. \A s \in Subs : /\ Closed(sub[s]) \in Queues /\ Closed(sub[s]).q = <<>>
                      /\ Closed(sub[s]).closed = TRUE
  BY DEF Closed, Queues
<1>3. sub' \in [Subs -> Queues]
  BY <1>1, <1>2
<1>4. SubTypes'
  BY <1>1, <1>3 DEF Rows, SubTypes
<1>e. \A s \in Subs : Depth(s)' = Depth(s)
  BY <1>1 DEF Depth, Stereo
<1>5. ASSUME NEW s \in Subs PROVE Row(s)' /\ (StandsAt(s) \/ ShutAt(s))
  <2>1. CASE sub'[s] = Closed(sub[s])
    BY <1>1, <1>2, <2>1 DEF Row, ShutAt
  <2>2. CASE sub'[s] = sub[s]
    <3>1. Row(s)
      BY DEF Rows
    <3> QED BY <1>1, <1>e, <2>2, <3>1 DEF Row, StandsAt
  <2> QED BY <1>1, <2>1, <2>2
<1> QED BY <1>4, <1>5 DEF Rows

LEMMA StandKeepsRows ==
    ASSUME Rows, Stands, UNCHANGED kind
    PROVE  Rows' /\ \A s \in Subs : StandsAt(s)
BY DEF Rows, SubTypes, Stands, Row, Depth, Stereo, StandsAt

-----------------------------------------------------------------------------
(* The capture thread numbers the frames and pushes each to a snapshot of   *)
(* the list of subscriptions.                                               *)

Numbered(s) ==
    ~sub[s].closed => IF s \in RangeOf(pub) THEN seq = pushed[s] + 1 ELSE seq = pushed[s]

Pushing ==
    /\ subs \in Lists /\ pub \in Lists /\ seq \in Nat
    /\ RangeOf(pub) \subseteq RangeOf(subs)
    /\ cap # "push" => pub = <<>>
    /\ \A s \in RangeOf(subs) : Numbered(s)
    /\ stage = "off" => cap = "none" /\ seq = 0 /\ \A s \in Subs : pushed[s] = 0

RangeInSubs == \A l \in Lists : RangeOf(l) \subseteq Subs
LEMMA ListsInSubs == RangeInSubs
BY ListsOf DEF RangeInSubs, Lists, Subs

\* What a step does to the list, the snapshot and the numbers.
Lists0 == UNCHANGED <<seq, pub, subs>>
Goes ==
    /\ stage' = "off" => stage = "off"
    /\ cap' = cap \/ (cap' # "push" /\ cap # "none" /\ pub = <<>>)

Rests == Stands /\ Lists0 /\ Goes
Captures ==
    /\ Stands /\ cap = "poll" /\ cap' = "push" /\ stage' = stage
    /\ seq' = seq + 1 /\ pub' = subs /\ subs' = subs
Publishes ==
    /\ cap = "push" /\ cap' = cap /\ stage' = stage /\ pub # <<>>
    /\ pub' = Tail(pub) /\ UNCHANGED <<seq, subs>>
    /\ IF sub[Head(pub)].closed THEN Stands
       ELSE Push(Head(pub)) /\ pushed' = [pushed EXCEPT ![Head(pub)] = seq] /\ UNCHANGED taken
Takes == (\E h \in Subs : TakesFrom(h)) /\ Lists0 /\ UNCHANGED <<cap, stage>>
Shuts ==
    /\ stage' # "off" /\ cap' \in {cap, "done"} /\ cap # "push"
    /\ \E S : Closes(S) /\ UNCHANGED <<seq, pub>> /\ subs' \in {subs, <<>>}
ShutsOne ==
    /\ stage' # "off" /\ cap' = cap
    /\ \E S : Closes(S) /\ Lists0
Begins ==
    /\ Stands /\ stage = "off" /\ stage' # "off" /\ cap' = "open"
    /\ UNCHANGED <<seq, pub>> /\ subs' \in {<<"rtc">>, <<"rtc", "yolo">>}

LEMMA Effects ==
    ASSUME SubTypes, Pushing, CamNext
    PROVE  /\ UNCHANGED kind
           /\ Rests \/ Captures \/ Publishes \/ Takes \/ Shuts \/ ShutsOne \/ Begins
<1> USE DEF source, camHistory, Stands, Lists0, Goes
<1>p. Pushing
  OBVIOUS
<1>1. CASE CapOpens \/ CapFormats \/ CapMaps \/ CapPairs \/ CapWarmsUp
  <2>1. UNCHANGED <<kind, sub, pushed, taken, seq, pub, subs, stage>>
    BY <1>1 DEF CapOpens, CapFormats, CapMaps, CapPairs, CapWarmsUp, Opening
  <2>2. cap' # "push" /\ cap # "push" /\ cap # "none"
    BY <1>1 DEF CapOpens, CapFormats, CapMaps, CapPairs, CapWarmsUp, Opening
  <2> QED BY <1>p, <2>1, <2>2 DEF Rests, Pushing
<1>2. CASE CapLoops \/ CapFails \/ CapEnds
  <2>1. UNCHANGED <<kind, sub, pushed, taken, seq, pub, subs, stage>>
    BY <1>2 DEF CapLoops, CapFails, CapEnds
  <2>2. cap' # "push" /\ cap # "push" /\ cap # "none"
    BY <1>2 DEF CapLoops, CapFails, CapEnds
  <2> QED BY <1>p, <2>1, <2>2 DEF Rests, Pushing
<1>3. CASE CapPollsSingle \/ \E ready \in SUBSET Cameras : CapPollsStereo(ready)
  <2>1. /\ UNCHANGED <<kind, sub, pushed, taken, subs, stage>> /\ cap = "poll"
        /\ Captured \/ (cap' = "loop" /\ UNCHANGED <<seq, pub>>)
    BY <1>3 DEF CapPollsSingle, CapPollsStereo
  <2>2. CASE Captured
    BY <2>1, <2>2 DEF Captured, Captures
  <2>3. CASE cap' = "loop" /\ UNCHANGED <<seq, pub>>
    BY <1>p, <2>1, <2>3 DEF Rests, Pushing
  <2> QED BY <2>1, <2>2, <2>3
<1>4. CASE CapPublishes
  <2>1. UNCHANGED <<kind, seq, subs, taken, stage>> /\ cap = "push"
    BY <1>4 DEF CapPublishes
  <2>2. CASE pub = <<>>
    <3>1. cap' = "loop" /\ UNCHANGED <<pub, sub, pushed>>
      BY <1>4, <2>2 DEF CapPublishes
    <3> QED BY <2>1, <2>2, <3>1 DEF Rests
  <2>3. CASE pub # <<>>
    <3>1. /\ Push(Head(pub)) /\ pub' = Tail(pub) /\ cap' = cap
          /\ pushed' = IF sub[Head(pub)].closed THEN pushed ELSE [pushed EXCEPT ![Head(pub)] = seq]
      BY <1>4, <2>3 DEF CapPublishes
    <3> QED BY <2>1, <2>3, <3>1 DEF Publishes, Push
  <2> QED BY <2>2, <2>3
<1>5. CASE TickTakes \/ YoloTakes
  <2>1. UNCHANGED <<kind, seq, pub, subs, cap, stage>> /\ \E h \in Subs : TakesFrom(h)
    BY <1>5 DEF TickTakes, YoloTakes, TakesFrom, Subs
  <2> QED BY <2>1 DEF Takes
<1>6. CASE CapCloses
  <2>1. Closes(RangeOf(subs)) /\ UNCHANGED <<kind, seq, pub, stage>> /\ subs' = <<>> /\ cap = "closing" /\ cap' = "done"
    BY <1>6 DEF CapCloses, CloseSubscriptions, Closes
  <2>2. stage # "off"
    BY <1>p, <2>1 DEF Pushing
  <2> QED BY <2>1, <2>2 DEF Shuts
<1>c. ASSUME NEW h \in Subs, sub' = [sub EXCEPT ![h] = Closed(@)]
      PROVE  sub' = [s \in Subs |-> IF s \in {h} THEN Closed(sub[s]) ELSE sub[s]]
  BY <1>c DEF SubTypes
<1>7. CASE RequestStop
  <2>1. UNCHANGED <<kind, cap, seq, pub, subs, pushed, taken>> /\ stage' = "joinWorker"
    BY <1>7 DEF RequestStop
  <2>2. sub' = [sub EXCEPT !["rtc"] = Closed(@)] /\ "rtc" \in Subs
    BY <1>7 DEF RequestStop, Subs
  <2>3. Closes({"rtc"})
    BY <1>c, <2>1, <2>2 DEF Closes
  <2> QED BY <2>1, <2>3 DEF ShutsOne
<1>8. CASE StopYolo
  <2>1. UNCHANGED <<kind, cap, seq, pub, subs, pushed, taken>> /\ stage' = "joinYolo" /\ stage = "joinWorker"
    BY <1>8 DEF StopYolo
  <2>2. "yolo" \in Subs /\ (sub' = sub \/ sub' = [sub EXCEPT !["yolo"] = Closed(@)])
    BY <1>8 DEF StopYolo, Subs
  <2>3. CASE sub' = sub
    BY <2>1, <2>3 DEF Rests
  <2>4. CASE sub' = [sub EXCEPT !["yolo"] = Closed(@)]
    <3>1. Closes({"yolo"})
      BY <1>c, <2>1, <2>2, <2>4 DEF Closes
    <3> QED BY <2>1, <3>1 DEF ShutsOne
  <2> QED BY <2>2, <2>3, <2>4
<1>9. CASE StoppedSingle \/ StoppedStereo
  <2>1. Released
    BY <1>9 DEF StoppedSingle, StoppedStereo
  <2>2. /\ UNCHANGED <<kind, cap, seq, pub, pushed, taken>> /\ stage' = "stopped" /\ subs' = <<>> /\ cap # "push"
        /\ sub' = [s \in Subs |-> Closed(sub[s])]
    BY <2>1 DEF Released
  <2>3. Closes(Subs)
    BY <2>2 DEF Closes
  <2> QED BY <2>2, <2>3 DEF Shuts
<1>10. CASE StartSingle \/ StartStereo
  <2>1. /\ UNCHANGED <<kind, seq, pub, sub, pushed, taken>> /\ stage = "off" /\ stage' = "on" /\ cap' = "open"
        /\ subs' \in {<<"rtc">>, <<"rtc", "yolo">>}
    BY <1>10 DEF StartSingle, StartStereo, NewPairSource, NewSource
  <2> QED BY <2>1 DEF Begins
<1>11. CASE \/ SwitchView \/ TickBegins \/ WorkerStops \/ TickGetsNothing \/ TickNotReady
            \/ TickSingle \/ TickStereo \/ ConverterFails \/ \E frames \in 0 .. 2 : TickFile(frames)
            \/ YoloStops \/ YoloProcesses
  <2>1. UNCHANGED <<kind, seq, pub, subs, sub, pushed, taken, cap, stage>>
    BY <1>11 DEF SwitchView, TickBegins, WorkerStops, TickGetsNothing, TickNotReady, TickSingle,
       TickStereo, Sends, ConverterFails, TickFile, YoloStops, YoloProcesses
  <2> QED BY <2>1 DEF Rests
<1>12. CASE StartFile \/ StopSource
  <2>1. UNCHANGED <<kind, seq, pub, subs, sub, pushed, taken, cap>> /\ stage' # "off"
    BY <1>12 DEF StartFile, StopSource
  <2> QED BY <2>1 DEF Rests
<1> QED BY <1>1, <1>2, <1>3, <1>4, <1>5, <1>6, <1>7, <1>8, <1>9, <1>10, <1>11, <1>12
    DEF CamNext, CaptureThread, Worker, YoloThread, Starting, Stopping

\* Each subscription takes a step of its own, and the invariant is kept.
LEMMA PushingStep ==
    ASSUME Rows, Pushing, CamNext
    PROVE  Rows' /\ Pushing' /\ Depth("rtc")' = Depth("rtc") /\ Depth("yolo")' = Depth("yolo")
           /\ \A s \in Subs : LatestAt(s)
<1>e. /\ UNCHANGED kind
      /\ Rests \/ Captures \/ Publishes \/ Takes \/ Shuts \/ ShutsOne \/ Begins
  BY Effects DEF Rows
<1>d. Depth("rtc")' = Depth("rtc") /\ Depth("yolo")' = Depth("yolo")
  BY <1>e DEF Depth, Stereo
<1>r. Rows /\ Pushing
  OBVIOUS
<1>l. RangeOf(<<>>) = {} /\ \A l \in Lists : RangeOf(l) \subseteq Subs
  BY ListsOf, ListsInSubs DEF RangeInSubs
<1>w. ASSUME \/ \A s \in Subs : StandsAt(s)
             \/ \A s \in Subs : StandsAt(s) \/ PutAt(s)
             \/ \A s \in Subs : StandsAt(s) \/ TakeAt(s)
             \/ \A s \in Subs : StandsAt(s) \/ ShutAt(s)
      PROVE  \A s \in Subs : LatestAt(s)
  BY <1>w DEF LatestAt
\* The numbers, when the queues change but at their heads.
<1>n. ASSUME Lists0, UNCHANGED stage, UNCHANGED cap \/ (cap' # "push" /\ cap # "none" /\ pub = <<>>),
             \A s \in Subs : pushed'[s] = pushed[s] /\ (~sub'[s].closed => ~sub[s].closed)
      PROVE  Pushing'
  BY <1>r, <1>l, <1>n DEF Pushing, Numbered, Lists0
<1>1. CASE Rests
  <2>1. Rows' /\ \A s \in Subs : StandsAt(s)
    BY <1>e, <1>r, <1>1, StandKeepsRows DEF Rests
  <2>2. Pushing'
    BY <1>r, <1>1 DEF Rests, Stands, Lists0, Goes, Pushing, Numbered
  <2> QED BY <1>d, <1>w, <2>1, <2>2
<1>2. CASE Captures
  <2>1. Rows' /\ \A s \in Subs : StandsAt(s)
    BY <1>e, <1>r, <1>2, StandKeepsRows DEF Captures
  <2>2. /\ pub = <<>> /\ seq \in Nat /\ pub' = subs /\ subs' = subs /\ seq' = seq + 1 /\ cap' = "push"
        /\ UNCHANGED <<sub, pushed>> /\ stage # "off" /\ stage' = stage /\ subs \in Lists
    BY <1>r, <1>2 DEF Captures, Pushing, Stands
  <2>3. \A s \in RangeOf(subs) : ~sub[s].closed => seq = pushed[s]
    BY <1>r, <1>l, <2>2 DEF Pushing, Numbered
  <2>4. \A s \in RangeOf(subs') : Numbered(s)'
    BY <2>2, <2>3 DEF Numbered
  <2>5. Pushing'
    BY <2>2, <2>4 DEF Pushing
  <2> QED BY <1>d, <1>w, <2>1, <2>5
<1>3. CASE Publishes
  <2> DEFINE h == Head(pub)
  <2>1. /\ h \in Subs /\ h \in RangeOf(pub) /\ h \in RangeOf(subs) /\ pub' \in Lists
        /\ RangeOf(pub') = RangeOf(pub) \ {h}
    BY <1>r, <1>3, HeadOfList DEF Publishes, Pushing
  <2>2. /\ UNCHANGED <<seq, subs, cap, stage>> /\ cap = "push" /\ stage # "off"
        /\ IF sub[h].closed THEN Stands
           ELSE Push(h) /\ pushed' = [pushed EXCEPT ![h] = seq] /\ UNCHANGED taken
    BY <1>r, <1>3 DEF Publishes, Pushing
  <2>h. Numbered(h)
    BY <1>r, <2>1 DEF Pushing
  <2> HIDE DEF h
  <2>3. CASE sub[h].closed
    <3>1. Stands
      BY <2>2, <2>3
    <3>2. Rows' /\ \A s \in Subs : StandsAt(s)
      BY <1>e, <1>r, <3>1, StandKeepsRows
    <3>3. \A s \in RangeOf(subs') : Numbered(s)'
      BY <1>r, <2>1, <2>2, <2>3, <3>1 DEF Stands, Numbered, Pushing
    <3>4. Pushing'
      BY <1>r, <2>1, <2>2, <3>3 DEF Pushing
    <3> QED BY <1>d, <1>w, <3>2, <3>4
  <2>4. CASE ~sub[h].closed
    <3>1. seq = pushed[h] + 1
      BY <2>1, <2>4, <2>h DEF Numbered
    <3>2. PushesTo(h)
      BY <2>2, <2>4, <3>1 DEF PushesTo
    <3>3. Rows' /\ \A s \in Subs : StandsAt(s) \/ PutAt(s)
      BY <1>e, <1>r, <2>1, <3>2, PushKeepsRows
    <3>4. /\ pushed'[h] = seq /\ \A s \in Subs \ {h} : pushed'[s] = pushed[s]
          /\ \A s \in Subs : sub'[s].closed = sub[s].closed
      BY <1>r, <2>1, <2>2, <2>4, <3>3 DEF Rows, SubTypes, StandsAt, PutAt
    <3>5. \A s \in RangeOf(subs') : Numbered(s)'
      <4> SUFFICES ASSUME NEW s \in RangeOf(subs) PROVE Numbered(s)'
        BY <2>2
      <4>0. s \in Subs /\ Numbered(s)
        BY <1>r, <1>l DEF Pushing
      <4>1. CASE s = h
        BY <2>1, <2>2, <3>4, <4>1 DEF Numbered
      <4>2. CASE s # h
        BY <2>1, <2>2, <3>4, <4>0, <4>2 DEF Numbered
      <4> QED BY <4>1, <4>2
    <3>6. Pushing'
      BY <1>r, <2>1, <2>2, <3>5 DEF Pushing
    <3> QED BY <1>d, <1>w, <3>3, <3>6
  <2> QED BY <2>3, <2>4
<1>4. CASE Takes
  <2>1. PICK h \in Subs : TakesFrom(h)
    BY <1>4 DEF Takes
  <2>2. Rows' /\ \A s \in Subs : StandsAt(s) \/ TakeAt(s)
    BY <1>e, <1>r, <2>1, TakeKeepsRows
  <2>3. \A s \in Subs : pushed'[s] = pushed[s] /\ sub'[s].closed = sub[s].closed
    BY <2>2 DEF StandsAt, TakeAt
  <2>4. Pushing'
    BY <1>n, <1>4, <2>3 DEF Takes
  <2> QED BY <1>d, <1>w, <2>2, <2>4
<1>5. CASE Shuts \/ ShutsOne
  <2>1. PICK S : Closes(S)
    BY <1>5 DEF Shuts, ShutsOne
  <2>2. Rows' /\ \A s \in Subs : StandsAt(s) \/ ShutAt(s)
    BY <1>e, <1>r, <2>1, CloseKeepsRows
  <2>3. \A s \in Subs : pushed'[s] = pushed[s] /\ (~sub'[s].closed => ~sub[s].closed)
    BY <2>2 DEF StandsAt, ShutAt
  <2>4. /\ UNCHANGED <<seq, pub>> /\ stage' # "off"
        /\ \/ subs' = subs /\ cap' = cap
           \/ subs' \in {subs, <<>>} /\ cap' \in {cap, "done"} /\ cap # "push"
    BY <1>5 DEF Shuts, ShutsOne, Lists0
  <2>5. \A s \in RangeOf(subs') : s \in RangeOf(subs)
    BY <1>l, <2>4
  <2>6. \A s \in RangeOf(subs') : Numbered(s)'
    BY <1>r, <1>l, <2>3, <2>4, <2>5 DEF Pushing, Numbered
  <2>7. <<>> \in Lists
    BY DEF Lists
  <2>8. Pushing'
    BY <1>r, <1>l, <2>4, <2>6, <2>7 DEF Pushing
  <2> QED BY <1>d, <1>w, <2>2, <2>8
<1>6. CASE Begins
  <2>1. Rows' /\ \A s \in Subs : StandsAt(s)
    BY <1>e, <1>r, <1>6, StandKeepsRows DEF Begins
  <2>2. /\ UNCHANGED <<seq, pub, sub, pushed>> /\ stage' # "off" /\ subs' \in Lists /\ pub = <<>>
        /\ seq = 0 /\ \A s \in Subs : pushed[s] = 0
    BY <1>r, <1>6 DEF Begins, Pushing, Stands, Lists
  <2>3. \A s \in RangeOf(subs') : Numbered(s)'
    BY <1>l, <2>2 DEF Numbered
  <2>4. Pushing'
    BY <1>l, <2>2, <2>3 DEF Pushing
  <2> QED BY <1>d, <1>w, <2>1, <2>4
<1> QED BY <1>e, <1>1, <1>2, <1>3, <1>4, <1>5, <1>6

LEMMA PushingBegins == CamInit => Rows /\ Pushing
<1> SUFFICES ASSUME CamInit PROVE Rows /\ Pushing
  OBVIOUS
<1>1. /\ sub = [s \in Subs |-> [q |-> <<>>, closed |-> FALSE]] /\ pushed = [s \in Subs |-> 0]
      /\ taken = [s \in Subs |-> 0] /\ kind \in Kinds
  BY DEF CamInit, Kinds
<1>2. [q |-> <<>>, closed |-> FALSE] \in Queues
  BY DEF Queues
<1>3. SubTypes
  BY <1>1, <1>2 DEF SubTypes
<1>4. \A s \in Subs : Row(s)
  <2> SUFFICES ASSUME NEW s \in Subs PROVE RowOf(<<>>, Depth(s), 0, 0)
    BY <1>1 DEF Row
  <2>1. Depth(s) \in {1, 2} /\ Len(<<>>) = 0
    BY DepthOf
  <2> QED BY <2>1 DEF RowOf
<1>5. Pushing
  <2>1. <<>> \in Lists /\ RangeOf(<<>>) = {}
    BY ListsOf DEF Lists
  <2> QED BY <1>1, <2>1 DEF CamInit, Pushing
<1> QED BY <1>3, <1>4, <1>5 DEF Rows

LEMMA RowsStep == Rows /\ Pushing /\ [CamNext]_camVars =>
                      /\ Rows' /\ Pushing' /\ Depth("rtc")' = Depth("rtc") /\ Depth("yolo")' = Depth("yolo")
                      /\ \A s \in Subs : LatestAt(s)
<1> SUFFICES ASSUME Rows, Pushing, [CamNext]_camVars
             PROVE  /\ Rows' /\ Pushing' /\ Depth("rtc")' = Depth("rtc") /\ Depth("yolo")' = Depth("yolo")
                    /\ \A s \in Subs : LatestAt(s)
  OBVIOUS
<1>1. CASE CamNext
  BY <1>1, PushingStep
<1>2. CASE UNCHANGED camVars
  <2>1. UNCHANGED <<kind, sub, pushed, taken, seq, pub, subs, cap, stage>>
    BY <1>2 DEF camVars
  <2>2. Rows' /\ \A s \in Subs : StandsAt(s)
    BY <2>1, StandKeepsRows DEF Stands
  <2>3. Pushing'
    BY <2>1 DEF Pushing, Numbered
  <2>4. Depth("rtc")' = Depth("rtc") /\ Depth("yolo")' = Depth("yolo")
    BY <2>1 DEF Depth, Stereo
  <2> QED BY <2>2, <2>3, <2>4 DEF LatestAt
<1> QED BY <1>1, <1>2

\* FrameSubscription of the camera module (Push, WaitNext, Close) with the capture
\* thread's Publish: the RTC worker's and the YOLO thread's subscription each
\* deliver what LatestFrames promises: in order, never a frame twice, none after
\* it was closed, and of the last Depth frames pushed the oldest not yet taken.
THEOREM SubscriptionsImplementLatest == CamSpec => SubscriptionsDeliverLatest
<1>0. "rtc" \in Subs /\ "yolo" \in Subs
  BY DEF Subs
<1>1. CamInit => RtcFrames!LFInit /\ YoloFrames!LFInit
  <2> SUFFICES ASSUME CamInit PROVE RtcFrames!LFInit /\ YoloFrames!LFInit
    OBVIOUS
  <2>1. Depth("rtc") \in Nat \ {0} /\ Depth("yolo") \in Nat \ {0}
    BY <1>0, DepthOf
  <2>2. \A s \in Subs : sub[s].closed = FALSE /\ pushed[s] = 0 /\ taken[s] = 0
    BY DEF CamInit
  <2>3. sub["rtc"].closed \in BOOLEAN /\ sub["yolo"].closed \in BOOLEAN
    BY <1>0, <2>2
  <2> QED BY <1>0, <2>1, <2>2, <2>3 DEF RtcFrames!LFInit, YoloFrames!LFInit
<1>2. Rows /\ Pushing /\ [CamNext]_camVars => [RtcFrames!LFNext]_RtcFrames!lfVars
  <2> SUFFICES ASSUME Rows, Pushing, [CamNext]_camVars PROVE [RtcFrames!LFNext]_RtcFrames!lfVars
    OBVIOUS
  <2>1. LatestAt("rtc") /\ Depth("rtc")' = Depth("rtc")
    BY <1>0, RowsStep
  <2> QED BY <2>1 DEF LatestAt, StandsAt, PutAt, TakeAt, ShutAt, GoneOf, GoneAfter, RtcFrames!LFNext,
          RtcFrames!lfVars, RtcFrames!Put, RtcFrames!Take, RtcFrames!Shut, RtcFrames!Gone
<1>3. Rows /\ Pushing /\ [CamNext]_camVars => [YoloFrames!LFNext]_YoloFrames!lfVars
  <2> SUFFICES ASSUME Rows, Pushing, [CamNext]_camVars PROVE [YoloFrames!LFNext]_YoloFrames!lfVars
    OBVIOUS
  <2>1. LatestAt("yolo") /\ Depth("yolo")' = Depth("yolo")
    BY <1>0, RowsStep
  <2> QED BY <2>1 DEF LatestAt, StandsAt, PutAt, TakeAt, ShutAt, GoneOf, GoneAfter, YoloFrames!LFNext,
          YoloFrames!lfVars, YoloFrames!Put, YoloFrames!Take, YoloFrames!Shut, YoloFrames!Gone
<1>4. Rows /\ Pushing /\ [CamNext]_camVars => (Rows /\ Pushing)'
  BY RowsStep
<1> QED BY <1>1, <1>2, <1>3, <1>4, PushingBegins, PTL
       DEF CamSpec, SubscriptionsDeliverLatest, RtcFrames!LFSpec, YoloFrames!LFSpec

-----------------------------------------------------------------------------
(* The converter keeps the frames its slots read.                           *)

Converters == [made : BOOLEAN, order : Seq(Int \X Nat), next : Int, held : Seq(Nat)]
Matched(c) ==
    /\ c \in Converters
    /\ Len(c.order) = Len(c.held)
    /\ \A i \in 1 .. Len(c.held) : c.order[i][2] = c.held[i]

LEMMA NewConverter ==
    /\ Matched(NoConverter) /\ NoConverter.held = <<>> /\ NoConverter.order = <<>>
    /\ Matched([NoConverter EXCEPT !.made = TRUE]) /\ [NoConverter EXCEPT !.made = TRUE].held = <<>>
<1>1. <<>> \in Seq(Int \X Nat) /\ <<>> \in Seq(Nat) /\ Len(<<>>) = 0
  OBVIOUS
<1>2. NoConverter \in Converters /\ NoConverter.held = <<>> /\ NoConverter.order = <<>>
  BY <1>1 DEF NoConverter, Converters
<1> DEFINE c == [NoConverter EXCEPT !.made = TRUE]
<1>3. c \in Converters /\ c.held = <<>> /\ c.order = <<>>
  BY <1>2 DEF Converters
<1>4. ASSUME NEW d \in Converters, d.held = <<>>, d.order = <<>> PROVE Matched(d)
  BY <1>1, <1>4 DEF Matched
<1> HIDE DEF c
<1>5. Matched(NoConverter) /\ Matched(c)
  BY <1>2, <1>3, <1>4
<1> QED BY <1>2, <1>3, <1>5 DEF c

\* A pair and its frame have been appended to a list of pairs and one of frames.
GrownTogether(o, h, k, f) ==
    /\ Append(o, <<k, f>>) \in Seq(Int \X Nat) /\ Append(h, f) \in Seq(Nat)
    /\ Len(Append(o, <<k, f>>)) = Len(Append(h, f)) /\ Len(Append(h, f)) = Len(h) + 1
    /\ \A i \in 1 .. Len(Append(h, f)) : Append(o, <<k, f>>)[i][2] = Append(h, f)[i]

\* Two lists that grow or lose their first together still match.
LEMMA MatchedGrows ==
    ASSUME NEW o \in Seq(Int \X Nat), NEW h \in Seq(Nat), Len(o) = Len(h),
           \A i \in 1 .. Len(h) : o[i][2] = h[i], NEW k \in Int, NEW f \in Nat
    PROVE  GrownTogether(o, h, k, f)
<1>1. PICK n \in Nat : n = Len(h) /\ n = Len(o)
  BY LenProperties
<1> DEFINE x == <<k, f>>  a == Append(o, x)  b == Append(h, f)
<1>2. x \in Int \X Nat /\ x[2] = f
  OBVIOUS
<1> HIDE DEF x
<1>3. /\ a \in Seq(Int \X Nat) /\ Len(a) = n + 1 /\ a[n + 1] = x
      /\ \A i \in 1 .. n : a[i] = o[i]
  BY <1>1, <1>2
<1>4. /\ b \in Seq(Nat) /\ Len(b) = n + 1 /\ b[n + 1] = f
      /\ \A i \in 1 .. n : b[i] = h[i]
  BY <1>1
<1> HIDE DEF a, b
<1>5. \A i \in 1 .. n + 1 : a[i][2] = b[i]
  <2> TAKE i \in 1 .. n + 1
  <2>1. CASE i = n + 1
    BY <1>2, <1>3, <1>4, <2>1
  <2>2. CASE i # n + 1
    <3>1. i \in 1 .. n
      BY <1>1, <2>2
    <3> QED BY <1>1, <1>3, <1>4, <3>1
  <2> QED BY <2>1, <2>2
<1>6. Len(h) = n /\ Len(b) = n + 1 /\ Len(a) = n + 1
  BY <1>1, <1>3, <1>4
<1> QED BY <1>3, <1>4, <1>5, <1>6, Zenon DEF GrownTogether, a, b, x

LEMMA MatchedShrinks ==
    ASSUME NEW o \in Seq(Int \X Nat), NEW h \in Seq(Nat), Len(o) = Len(h),
           \A i \in 1 .. Len(h) : o[i][2] = h[i], Len(h) > 0
    PROVE  /\ Tail(o) \in Seq(Int \X Nat) /\ Tail(h) \in Seq(Nat)
           /\ Len(Tail(o)) = Len(Tail(h)) /\ Len(Tail(h)) = Len(h) - 1
           /\ \A i \in 1 .. Len(Tail(h)) : Tail(o)[i][2] = Tail(h)[i]
<1>1. PICK n \in Nat : n = Len(h) /\ n = Len(o) /\ n > 0
  BY LenProperties
<1> DEFINE a == Tail(o)  b == Tail(h)
<1>2. a \in Seq(Int \X Nat) /\ Len(a) = n - 1 /\ \A i \in 1 .. n - 1 : a[i] = o[i + 1]
  BY <1>1
<1>3. b \in Seq(Nat) /\ Len(b) = n - 1 /\ \A i \in 1 .. n - 1 : b[i] = h[i + 1]
  BY <1>1
<1> HIDE DEF a, b
<1>4. \A i \in 1 .. n - 1 : a[i][2] = b[i]
  <2> TAKE i \in 1 .. n - 1
  <2>1. i + 1 \in 1 .. n
    BY <1>1
  <2>2. o[i + 1][2] = h[i + 1]
    BY <1>1, <2>1
  <2> QED BY <1>2, <1>3, <2>2
<1>5. Len(h) = n /\ Len(b) = n - 1 /\ Len(a) = n - 1
  BY <1>1, <1>2, <1>3
<1> QED BY <1>2, <1>3, <1>4, <1>5, Zenon DEF a, b

LEMMA EnqueueOf ==
    ASSUME NEW c, Matched(c), NEW f \in Nat
    PROVE  Matched(Enqueue(c, f)) /\ Len(Enqueue(c, f).held) = Len(c.held) + 1
<1> DEFINE busy == {c.order[i][1] : i \in DOMAIN c.order}
           k == IF c.next \in busy THEN 1 - c.next ELSE c.next
           o == Append(c.order, <<k, f>>)
           h == Append(c.held, f)
           n == 1 - k
           e == [c EXCEPT !.order = o, !.next = n, !.held = h]
<1>1. c \in Converters /\ c.next \in Int
  BY DEF Matched, Converters
<1>2. Enqueue(c, f) = e
  BY DEF Enqueue
<1>3. k \in Int /\ n \in Int
  <2> HIDE DEF busy
  <2> QED BY <1>1
<1> HIDE DEF busy, k, n
<1>4. /\ o \in Seq(Int \X Nat) /\ h \in Seq(Nat) /\ Len(o) = Len(h) /\ Len(h) = Len(c.held) + 1
      /\ \A i \in 1 .. Len(h) : o[i][2] = h[i]
  <2>1. /\ c.order \in Seq(Int \X Nat) /\ c.held \in Seq(Nat) /\ Len(c.order) = Len(c.held)
        /\ \A i \in 1 .. Len(c.held) : c.order[i][2] = c.held[i]
    BY DEF Matched, Converters
  <2>2. GrownTogether(c.order, c.held, k, f)
    BY <1>3, <2>1, MatchedGrows
  <2> QED BY <2>2 DEF GrownTogether
<1> HIDE DEF o, h
<1>5. e \in Converters /\ e.order = o /\ e.held = h
  BY <1>1, <1>3, <1>4 DEF Converters
<1> HIDE DEF e
<1> QED BY <1>2, <1>4, <1>5 DEF Matched

LEMMA DequeueOf ==
    ASSUME NEW c, Matched(c), Len(c.held) > 0
    PROVE  Matched(Dequeue(c)) /\ Len(Dequeue(c).held) = Len(c.held) - 1
<1> DEFINE o == Tail(c.order)
           h == Tail(c.held)
           e == [c EXCEPT !.order = o, !.held = h]
<1>1. c \in Converters
  BY DEF Matched
<1>2. Dequeue(c) = e
  BY DEF Dequeue
<1>4. /\ o \in Seq(Int \X Nat) /\ h \in Seq(Nat) /\ Len(o) = Len(h) /\ Len(h) = Len(c.held) - 1
      /\ \A i \in 1 .. Len(h) : o[i][2] = h[i]
  <2>1. /\ c.order \in Seq(Int \X Nat) /\ c.held \in Seq(Nat) /\ Len(c.order) = Len(c.held)
        /\ \A i \in 1 .. Len(c.held) : c.order[i][2] = c.held[i]
    BY DEF Matched, Converters
  <2> QED BY <2>1, MatchedShrinks
<1> HIDE DEF o, h
<1>5. e \in Converters /\ e.order = o /\ e.held = h
  BY <1>1, <1>4 DEF Converters
<1> HIDE DEF e
<1> QED BY <1>2, <1>4, <1>5 DEF Matched

LEMMA DiscardedOf ==
    ASSUME NEW c, Matched(c)
    PROVE  Matched(Discarded(c)) /\ Discarded(c).held = <<>>
<1>1. <<>> \in Seq(Int \X Nat) /\ <<>> \in Seq(Nat) /\ Len(<<>>) = 0
  OBVIOUS
<1>2. Discarded(c) \in Converters /\ Discarded(c).order = <<>> /\ Discarded(c).held = <<>>
  BY <1>1 DEF Discarded, Matched, Converters
<1> QED BY <1>1, <1>2 DEF Matched

-----------------------------------------------------------------------------
(* Who holds frames, from Start to Stop.                                    *)

\* The worker's and the YOLO thread's hands: one frame while they work on it.
Hands ==
    /\ work \in [at : {"none", "wait", "tick", "have", "done"}, frame : Nat]
    /\ yolo \in [at : {"none", "wait", "work", "done"}, frame : Nat, stop : BOOLEAN]
    /\ work.at # "have" => work.frame = 0
    /\ yolo.at # "work" => yolo.frame = 0

\* At most one frame stays in the converter between two Ticks; a failure on the
\* way out may leave two, and ends the worker.
Converting ==
    /\ Matched(conv)
    /\ work.at # "done" => Len(conv.held) =< 1

Empty == sub["rtc"].q = <<>> /\ sub["yolo"].q = <<>> /\ conv.held = <<>> /\ conv.order = <<>>

\* Half a frame is dequeued only while the capture thread goes round its loop;
\* the threads are joined one after the other, and then nothing is held.
Stages ==
    /\ cap \notin {"poll", "loop"} => part = {}
    /\ stage = "off" => work.at = "none" /\ yolo.at = "none" /\ Empty
    /\ stage \in {"joinYolo", "joinCapture", "stopped"} => work.at \in {"none", "done"}
    /\ stage \in {"joinCapture", "stopped"} => yolo.at \in {"none", "done"}
    /\ stage = "stopped" => cap \in {"none", "done"} /\ Empty

Kept == Rows /\ Pushing /\ Hands /\ Converting /\ Stages /\ kind \in CamKinds

LEMMA HandsOf ==
    ASSUME Kept
    PROVE  /\ work.frame \in Nat /\ \A s \in Subs : sub[s].q # <<>> => Head(sub[s].q) \in Nat
           /\ Idle \in [at : {"none", "wait", "tick", "have", "done"}, frame : Nat]
           /\ Idle.at = "wait" /\ Idle.frame = 0
<1>1. work.frame \in Nat
  BY DEF Kept, Hands
<1>2. ASSUME NEW s \in Subs, sub[s].q # <<>> PROVE Head(sub[s].q) \in Nat
  BY <1>2, SubOf DEF Kept, Rows
<1> QED BY <1>1, <1>2 DEF Idle

\* The frame in hand goes into the converter.
LEMMA EnqueuedOf ==
    ASSUME Kept
    PROVE  /\ Matched(EnqueueToI420(work.frame)) /\ Matched(EnqueuePairToI420(work.frame))
           /\ work.at # "done" => /\ Len(EnqueueToI420(work.frame).held) \in {1, 2}
                                  /\ Len(EnqueuePairToI420(work.frame).held) \in {1, 2}
<1>1. Matched(conv) /\ work.frame \in Nat /\ (work.at # "done" => Len(conv.held) =< 1)
  BY HandsOf DEF Kept, Converting
<1> DEFINE c == EnsureCudaConverter(conv)  d == EnsureConverter(conv)
<1>2. Matched(c) /\ (c = conv \/ c.held = <<>>)
  BY <1>1, NewConverter DEF EnsureCudaConverter, ConverterInit
<1>3. Matched(d) /\ (d = conv \/ d.held = <<>>)
  BY <1>1, NewConverter DEF EnsureConverter, StitchInit
<1>4. EnqueueToI420(work.frame) = Enqueue(c, work.frame) /\ EnqueuePairToI420(work.frame) = Enqueue(d, work.frame)
  BY DEF EnqueueToI420, EnqueuePairToI420, EnqueuePair
<1>5. /\ Len(c.held) \in Nat /\ Len(d.held) \in Nat /\ Len(<<>>) = 0
      /\ work.at # "done" => Len(c.held) =< 1 /\ Len(d.held) =< 1
  <2>1. c.held \in Seq(Nat) /\ d.held \in Seq(Nat)
    BY <1>2, <1>3 DEF Matched, Converters
  <2>2. Len(<<>>) = 0
    OBVIOUS
  <2> HIDE DEF c, d
  <2> QED BY <1>1, <1>2, <1>3, <2>1, <2>2, LenProperties
<1> HIDE DEF c, d
<1>6. /\ Matched(Enqueue(c, work.frame)) /\ Len(Enqueue(c, work.frame).held) = Len(c.held) + 1
      /\ Matched(Enqueue(d, work.frame)) /\ Len(Enqueue(d, work.frame).held) = Len(d.held) + 1
  BY <1>1, <1>2, <1>3, EnqueueOf
<1>7. ASSUME NEW n \in Nat, n =< 1 PROVE n + 1 \in {1, 2}
  BY <1>7
<1> QED BY <1>4, <1>5, <1>6, <1>7

\* What a Tick does with the frame it has.
LEMMA SendsOf ==
    ASSUME Kept, work.at = "have", NEW c, Matched(c), Len(c.held) \in {1, 2}, Sends(c, Dequeue(c))
    PROVE  Matched(conv') /\ Len(conv'.held) =< 1 /\ (work' = Idle \/ WorkerEnds)
<1>1. CASE Len(c.held) = 1
  <2>1. conv' = c /\ work' = Idle
    BY <1>1 DEF Sends
  <2>2. Len(c.held) =< 1
    BY <1>1
  <2> QED BY <2>1, <2>2, Zenon
<1>2. CASE Len(c.held) = 2
  <2>1. conv' = Dequeue(c) /\ (work' = Idle \/ WorkerEnds)
    BY <1>2 DEF Sends, SendI420Frame
  <2>2. Len(c.held) > 0 /\ 2 - 1 =< 1
    BY <1>2
  <2>3. Matched(Dequeue(c)) /\ Len(Dequeue(c).held) = Len(c.held) - 1
    BY <2>2, DequeueOf, Zenon
  <2>4. Len(Dequeue(c).held) =< 1
    BY <1>2, <2>2, <2>3, Zenon
  <2> QED BY <2>1, <2>3, <2>4, Zenon
<1> QED BY <1>1, <1>2

\* The steps of the three threads, of the view and of Start and Stop.
LEMMA HandsStep ==
    ASSUME Kept, CamNext
    PROVE  Hands' /\ Converting'
<1> DEFINE WorkTypes == [at : {"none", "wait", "tick", "have", "done"}, frame : Nat]
           YoloTypes == [at : {"none", "wait", "work", "done"}, frame : Nat, stop : BOOLEAN]
           Leaves == UNCHANGED <<conv, yolo>>
<1>k. Kept
  OBVIOUS
<1>t. /\ work \in WorkTypes /\ yolo \in YoloTypes /\ work.frame \in Nat
      /\ Idle \in WorkTypes /\ Idle.at = "wait" /\ Idle.frame = 0
      /\ "rtc" \in Subs /\ "yolo" \in Subs
  BY HandsOf DEF Kept, Hands, Subs
<1>f. \A s \in Subs : sub[s].q # <<>> => Head(sub[s].q) \in Nat
  BY HandsOf
<1>0. ASSUME UNCHANGED <<conv, work, yolo>> PROVE Hands' /\ Converting'
  BY <1>k, <1>0 DEF Kept, Hands, Converting
\* The worker's hands change, the converter does not.
<1>w. ASSUME Leaves, work' \in WorkTypes, work'.at # "have" => work'.frame = 0,
             work.at = "done" => work'.at = "done"
      PROVE  Hands' /\ Converting'
  BY <1>k, <1>w DEF Kept, Hands, Converting
\* The converter changes, and the worker is done with its frame.
<1>c. ASSUME UNCHANGED yolo, Matched(conv'), work' = Idle \/ WorkerEnds,
             WorkerEnds \/ Len(conv'.held) =< 1
      PROVE  Hands' /\ Converting'
  <2>1. work' \in WorkTypes /\ work'.frame = 0 /\ (work'.at # "done" => Len(conv'.held) =< 1)
    BY <1>t, <1>c DEF WorkerEnds
  <2> QED BY <1>k, <1>c, <2>1 DEF Kept, Hands, Converting
<1>y. ASSUME UNCHANGED <<conv, work>>, yolo' \in YoloTypes, yolo'.at # "work" => yolo'.frame = 0
      PROVE  Hands' /\ Converting'
  BY <1>k, <1>y DEF Kept, Hands, Converting
<1>e. WorkerEnds => work' \in WorkTypes /\ work'.frame = 0 /\ work'.at = "done"
  BY DEF WorkerEnds
<1>1. CASE CaptureThread
  <2>1. UNCHANGED <<conv, work, yolo>>
    BY <1>1 DEF CaptureThread, CapOpens, CapFormats, CapMaps, CapPairs, CapWarmsUp, Opening, CapLoops,
       CapPollsSingle, CapPollsStereo, CapPublishes, CapEnds, CapCloses, CapFails
  <2> QED BY <1>0, <2>1
<1>2. CASE SwitchView \/ RequestStop \/ StopSource
  <2>1. UNCHANGED <<conv, work, yolo>>
    BY <1>2 DEF SwitchView, RequestStop, StopSource
  <2> QED BY <1>0, <2>1
<1>3. CASE TickBegins
  <2>1. Leaves /\ work' = [work EXCEPT !.at = "tick"] /\ work.at = "wait"
    BY <1>3 DEF TickBegins
  <2>2. work' \in WorkTypes /\ work'.frame = work.frame /\ work'.at = "tick"
    BY <1>t, <2>1
  <2> QED BY <1>k, <1>w, <2>1, <2>2 DEF Kept, Hands
<1>4. CASE WorkerStops \/ TickGetsNothing \/ \E frames \in 0 .. 2 : TickFile(frames)
  <2>1. Leaves /\ (WorkerEnds \/ work' = Idle) /\ work.at # "done"
    BY <1>4 DEF WorkerStops, TickGetsNothing, TickFile
  <2> QED BY <1>t, <1>e, <1>w, <2>1
<1>5. CASE TickTakes
  <2>1. Leaves /\ work' = [at |-> "have", frame |-> Head(sub["rtc"].q)] /\ sub["rtc"].q # <<>> /\ work.at = "tick"
    BY <1>5 DEF TickTakes
  <2>2. Head(sub["rtc"].q) \in Nat
    BY <1>t, <1>f, <2>1
  <2> QED BY <1>w, <2>1, <2>2
<1>6. CASE TickNotReady
  <2>1. UNCHANGED yolo /\ conv' = Discarded(conv) /\ work' = Idle
    BY <1>6 DEF TickNotReady
  <2>2. Matched(conv') /\ conv'.held = <<>>
    BY <1>k, <2>1, DiscardedOf DEF Kept, Converting
  <2>3. Len(<<>>) =< 1
    OBVIOUS
  <2> QED BY <1>c, <2>1, <2>2, <2>3
<1>7. CASE TickSingle \/ TickStereo
  <2>1. UNCHANGED yolo /\ work.at = "have"
    BY <1>7 DEF TickSingle, TickStereo, Sends
  <2>2. PICK c \in {EnqueueToI420(work.frame), EnqueuePairToI420(work.frame)} : Sends(c, Dequeue(c))
    BY <1>7 DEF TickSingle, TickStereo, DequeueI420, DequeuePairI420, DequeuePair
  <2>3. Matched(c) /\ Len(c.held) \in {1, 2}
    BY <1>k, <2>1, EnqueuedOf
  <2>4. Matched(conv') /\ Len(conv'.held) =< 1 /\ (work' = Idle \/ WorkerEnds)
    BY <1>k, <2>1, <2>2, <2>3, SendsOf
  <2> QED BY <1>c, <2>1, <2>4
<1>8. CASE ConverterFails
  <2>1. UNCHANGED yolo /\ WorkerEnds /\ conv' \in {conv, EnqueueToI420(work.frame), EnqueuePairToI420(work.frame)}
    BY <1>8 DEF ConverterFails, Enqueued
  <2>2. Matched(conv')
    BY <1>k, <2>1, EnqueuedOf DEF Kept, Converting
  <2> QED BY <1>c, <2>1, <2>2
<1>9. CASE YoloStops \/ StopYolo
  <2>1. /\ UNCHANGED <<conv, work>>
        /\ \/ yolo' = [yolo EXCEPT !.at = "done"] /\ yolo.at = "wait"
           \/ yolo' = [yolo EXCEPT !.stop = TRUE]
    BY <1>9 DEF YoloStops, StopYolo
  <2>2. yolo' \in YoloTypes /\ yolo'.frame = yolo.frame /\ (yolo'.at = yolo.at \/ yolo.at = "wait")
    BY <1>t, <2>1
  <2> QED BY <1>k, <1>y, <2>1, <2>2 DEF Kept, Hands
<1>10. CASE YoloTakes
  <2>1. /\ UNCHANGED <<conv, work>> /\ sub["yolo"].q # <<>>
        /\ yolo' = [yolo EXCEPT !.at = "work", !.frame = Head(sub["yolo"].q)]
    BY <1>10 DEF YoloTakes
  <2>2. Head(sub["yolo"].q) \in Nat
    BY <1>t, <1>f, <2>1
  <2>3. yolo' \in YoloTypes /\ yolo'.at = "work"
    BY <1>t, <2>1, <2>2
  <2> QED BY <1>y, <2>1, <2>3
<1>11. CASE YoloProcesses
  <2>1. UNCHANGED <<conv, work>> /\ yolo' = [yolo EXCEPT !.at = "wait", !.frame = 0]
    BY <1>11 DEF YoloProcesses
  <2>2. yolo' \in YoloTypes /\ yolo'.frame = 0
    BY <1>t, <2>1
  <2> QED BY <1>y, <2>1, <2>2
<1>12. CASE StartSingle \/ StartStereo \/ StartFile
  <2>1. /\ conv' = conv /\ (work' = Idle \/ work' = work) /\ stage = "off"
        /\ yolo' = yolo \/ yolo' = [yolo EXCEPT !.at = "wait"]
    BY <1>12 DEF StartSingle, StartStereo, StartFile
  <2>2. /\ work.at = "none" /\ yolo.frame = 0 /\ work.frame = 0 /\ Len(conv.held) =< 1 /\ Matched(conv)
    BY <1>k, <2>1 DEF Kept, Stages, Hands, Converting
  <2>3. work' \in WorkTypes /\ work'.frame = 0
    BY <1>t, <2>1, <2>2
  <2>4. yolo' \in YoloTypes /\ yolo'.frame = 0
    BY <1>t, <2>1, <2>2
  <2> QED BY <2>1, <2>2, <2>3, <2>4 DEF Hands, Converting
<1>13. CASE StoppedSingle \/ StoppedStereo
  <2>1. UNCHANGED <<work, yolo>> /\ conv' = NoConverter
    BY <1>13 DEF StoppedSingle, StoppedStereo, Released
  <2>2. Matched(conv') /\ conv'.held = <<>> /\ Len(<<>>) =< 1
    BY <2>1, NewConverter
  <2> QED BY <1>k, <2>1, <2>2 DEF Kept, Hands, Converting
<1> QED BY <1>1, <1>2, <1>3, <1>4, <1>5, <1>6, <1>7, <1>8, <1>9, <1>10, <1>11, <1>12, <1>13
    DEF CamNext, Worker, YoloThread, Starting, Stopping

\* The capture thread, and the stages it sees.
LEMMA StagesStep ==
    ASSUME Kept, CamNext
    PROVE  Stages'
<1>k. Stages /\ (stage = "off" => cap = "none")
  BY DEF Kept, Pushing
<1>0. ASSUME UNCHANGED <<cap, part, stage, work, yolo, sub, conv>> PROVE Stages'
  BY <1>k, <1>0 DEF Stages, Empty
\* While the stage is "on" or "joinWorker" the threads may do as they like.
<1>b. ASSUME UNCHANGED stage, stage \in {"on", "joinWorker"},
             cap' \notin {"poll", "loop"} => part' = {}
      PROVE  Stages'
  BY <1>k, <1>b DEF Stages
\* The capture thread alone moves, and only while there is one.
<1>c. ASSUME UNCHANGED <<stage, work, yolo, sub, conv>>, cap \notin {"none", "done"},
             cap' \notin {"poll", "loop"} => part' = {}
      PROVE  Stages'
  BY <1>k, <1>c DEF Stages
<1>1. CASE CapOpens \/ CapFormats \/ CapMaps \/ CapPairs \/ CapWarmsUp
  <2>1. UNCHANGED <<part, stage, work, yolo, sub, conv>> /\ cap \notin {"none", "done", "poll", "loop"}
    BY <1>1 DEF CapOpens, CapFormats, CapMaps, CapPairs, CapWarmsUp, Opening
  <2> QED BY <1>k, <1>c, <2>1 DEF Stages
<1>2. CASE CapLoops \/ CapFails \/ CapEnds
  <2>1. UNCHANGED <<stage, work, yolo, sub, conv>> /\ cap \notin {"none", "done"}
    BY <1>2 DEF CapLoops, CapFails, CapEnds
  <2>2. cap' \notin {"poll", "loop"} => part' = {}
    BY <1>k, <1>2 DEF CapLoops, CapFails, CapEnds, Stages
  <2> QED BY <1>c, <2>1, <2>2
<1>3. CASE CapPollsSingle \/ \E ready \in SUBSET Cameras : CapPollsStereo(ready)
  <2>1. UNCHANGED <<stage, work, yolo, sub, conv>> /\ cap = "poll"
    BY <1>3 DEF CapPollsSingle, CapPollsStereo
  <2>2. cap' = "loop" \/ part' = {}
    BY <1>3 DEF CapPollsSingle, CapPollsStereo, Captured
  <2> QED BY <1>c, <2>1, <2>2
<1>4. CASE CapPublishes
  <2>1. UNCHANGED <<stage, work, yolo, conv, part>> /\ cap = "push" /\ cap' \in {"push", "loop"}
    BY <1>4 DEF CapPublishes
  <2> QED BY <1>k, <2>1 DEF Stages
<1>5. CASE CapCloses
  <2>1. UNCHANGED <<stage, work, yolo, conv, part>> /\ cap = "closing" /\ cap' = "done"
    BY <1>5 DEF CapCloses
  <2> QED BY <1>k, <2>1 DEF Stages
<1>6. CASE SwitchView \/ TickBegins \/ RequestStop
  <2>1. UNCHANGED <<cap, part>> /\ stage \in {"on"} /\ stage' \in {"on", "joinWorker"}
    BY <1>6 DEF SwitchView, TickBegins, RequestStop, source
  <2> QED BY <1>k, <2>1 DEF Stages
<1>7. CASE WorkerStops \/ TickGetsNothing \/ TickNotReady \/ TickSingle \/ TickStereo \/ ConverterFails
           \/ \E frames \in 0 .. 2 : TickFile(frames)
  <2>1. /\ UNCHANGED <<cap, part, stage>>
        /\ work.at \in {"wait", "tick", "have"}
    BY <1>7 DEF WorkerStops, TickGetsNothing, TickNotReady, TickSingle, TickStereo, Sends, ConverterFails,
       TickFile, source
  <2> QED BY <1>k, <2>1 DEF Stages
<1>8. CASE TickTakes
  <2>1. UNCHANGED <<cap, part, stage>> /\ work.at = "tick"
    BY <1>8 DEF TickTakes, source
  <2> QED BY <1>k, <2>1 DEF Stages
<1>9. CASE YoloStops \/ YoloTakes \/ YoloProcesses
  <2>1. UNCHANGED <<cap, part, stage, work>> /\ yolo.at \in {"wait", "work"}
    BY <1>9 DEF YoloStops, YoloTakes, YoloProcesses, source
  <2> QED BY <1>k, <2>1 DEF Stages
<1>10. CASE StartSingle \/ StartStereo
  <2>1. UNCHANGED part /\ stage = "off" /\ stage' = "on"
    BY <1>10 DEF StartSingle, StartStereo
  <2> QED BY <1>k, <2>1 DEF Stages
<1>11. CASE StartFile
  <2>1. UNCHANGED <<cap, part, yolo, sub, conv>> /\ stage = "off" /\ (stage' = "on" \/ (stage' = "stopped" /\ work' = work))
    BY <1>11 DEF StartFile, source
  <2> QED BY <1>k, <2>1 DEF Stages, Empty
<1>12. CASE StopYolo
  <2>1. UNCHANGED <<cap, part, work>> /\ work.at = "done" /\ stage' = "joinYolo"
    BY <1>12 DEF StopYolo, source
  <2> QED BY <1>k, <2>1 DEF Stages
<1>13. CASE StopSource
  <2>1. UNCHANGED <<cap, part, work, yolo>> /\ yolo.at \in {"none", "done"} /\ stage = "joinYolo" /\ stage' = "joinCapture"
    BY <1>13 DEF StopSource
  <2> QED BY <1>k, <2>1 DEF Stages
<1>14. CASE StoppedSingle \/ StoppedStereo
  <2>1. /\ UNCHANGED <<cap, part, work, yolo>> /\ stage = "joinCapture" /\ stage' = "stopped" /\ cap \in {"none", "done"}
        /\ sub' = [s \in Subs |-> Closed(sub[s])] /\ conv' = NoConverter
    BY <1>14 DEF StoppedSingle, StoppedStereo, Released
  <2>2. Empty'
    BY <2>1, NewConverter DEF Closed, Empty, Subs
  <2> QED BY <1>k, <2>1, <2>2 DEF Stages
<1> QED BY <1>1, <1>2, <1>3, <1>4, <1>5, <1>6, <1>7, <1>8, <1>9, <1>10, <1>11, <1>12, <1>13, <1>14
    DEF CamNext, CaptureThread, Worker, YoloThread, Starting, Stopping

LEMMA KeptBegins == CamInit => Kept
<1> SUFFICES ASSUME CamInit PROVE Kept
  OBVIOUS
<1>1. Rows /\ Pushing
  BY PushingBegins
<1>2. Hands
  BY DEF CamInit, Hands
<1>3. Converting
  <2>1. conv = NoConverter
    BY DEF CamInit
  <2>2. Len(<<>>) =< 1
    OBVIOUS
  <2> QED BY <2>1, <2>2, NewConverter DEF Converting
<1>4. Stages
  <2>1. Empty
    BY NewConverter DEF CamInit, Empty, Subs
  <2> QED BY <2>1 DEF CamInit, Stages
<1>5. kind \in CamKinds
  BY DEF CamInit
<1> QED BY <1>1, <1>2, <1>3, <1>4, <1>5 DEF Kept

LEMMA KeptStep == Kept /\ [CamNext]_camVars => Kept'
<1> SUFFICES ASSUME Kept, [CamNext]_camVars PROVE Kept'
  OBVIOUS
<1>1. Rows' /\ Pushing'
  BY RowsStep DEF Kept
<1>2. CASE CamNext
  <2>1. Hands' /\ Converting' /\ Stages'
    BY <1>2, HandsStep, StagesStep
  <2>2. UNCHANGED kind
    BY <1>2, Effects DEF Kept, Rows
  <2> QED BY <1>1, <2>1, <2>2 DEF Kept
<1>3. CASE UNCHANGED camVars
  <2>1. Hands' /\ Converting' /\ Stages' /\ kind' = kind
    BY <1>3 DEF camVars, Kept, Hands, Converting, Stages, Empty
  <2> QED BY <1>1, <2>1 DEF Kept
<1> QED BY <1>2, <1>3

-----------------------------------------------------------------------------
(* What that says of the buffers.                                           *)

LEMMA FramesInUse == Kept => GpuReadsHeldFrames /\ StoppedReleases
<1> SUFFICES ASSUME Kept PROVE GpuReadsHeldFrames /\ StoppedReleases
  OBVIOUS
<1>1. GpuReadsHeldFrames
  <2>1. /\ Len(conv.order) = Len(conv.held)
        /\ \A i \in 1 .. Len(conv.held) : conv.order[i][2] = conv.held[i]
        /\ conv.order \in Seq(Int \X Nat) /\ conv.held \in Seq(Nat)
    BY DEF Kept, Converting, Matched, Converters
  <2>2. \A i \in DOMAIN conv.order : i \in DOMAIN conv.held /\ conv.order[i][2] = conv.held[i]
    <3>1. DOMAIN conv.order = 1 .. Len(conv.order) /\ DOMAIN conv.held = 1 .. Len(conv.held)
      BY <2>1, LenProperties
    <3> QED BY <2>1, <3>1
  <2>3. {conv.order[i][2] : i \in DOMAIN conv.order} \subseteq RangeOf(conv.held)
    BY <2>2 DEF RangeOf
  <2> QED BY <2>3 DEF GpuReadsHeldFrames, Held, Sending
<1>2. StoppedReleases
  <2> SUFFICES ASSUME stage = "stopped" PROVE Held = {} /\ part = {} /\ cap \in {"none", "done"}
    BY DEF StoppedReleases
  <2>1. part = {} /\ cap \in {"none", "done"} /\ Empty /\ work.frame = 0 /\ yolo.frame = 0
    BY DEF Kept, Stages, Hands
  <2>2. InQueue("rtc") = {} /\ InQueue("yolo") = {} /\ RangeOf(conv.held) = {}
    BY <2>1, ListsOf DEF Empty, InQueue
  <2> QED BY <2>1, <2>2 DEF Held, Publishing, Sending, Watching
<1> QED BY <1>1, <1>2

\* With as many as two elements, a set of more names counts no more.
LEMMA CountOfTwo == ASSUME NEW a, NEW b PROVE IsFiniteSet({a, b}) /\ Cardinality({a, b}) =< 2
<1>1. IsFiniteSet({a}) /\ Cardinality({a}) = 1
  BY FS_Singleton
<1>2. {a, b} = {a} \cup {b}
  OBVIOUS
<1>3. /\ IsFiniteSet({a} \cup {b})
      /\ Cardinality({a} \cup {b}) = IF b \in {a} THEN Cardinality({a}) ELSE Cardinality({a}) + 1
  BY <1>1, FS_AddElement
<1> QED BY <1>1, <1>2, <1>3

LEMMA CountOfThree == ASSUME NEW a, NEW b, NEW c PROVE IsFiniteSet({a, b, c}) /\ Cardinality({a, b, c}) =< 3
<1> DEFINE s == {a, b}
<1>1. IsFiniteSet(s) /\ Cardinality(s) =< 2 /\ Cardinality(s) \in Nat
  BY CountOfTwo, FS_CardinalityType
<1>2. {a, b, c} = s \cup {c}
  OBVIOUS
<1> HIDE DEF s
<1>3. /\ IsFiniteSet(s \cup {c})
      /\ Cardinality(s \cup {c}) = IF c \in s THEN Cardinality(s) ELSE Cardinality(s) + 1
  BY <1>1, FS_AddElement
<1> QED BY <1>1, <1>2, <1>3

LEMMA RangeOfFew ==
    ASSUME NEW q \in Seq(Nat)
    PROVE  /\ Len(q) =< 1 => \E a : RangeOf(q) \subseteq {a}
           /\ Len(q) =< 2 => \E a, b : RangeOf(q) \subseteq {a, b}
<1>1. PICK n \in Nat : n = Len(q) /\ DOMAIN q = 1 .. n
  BY LenProperties
<1>2. ASSUME n =< 1 PROVE RangeOf(q) \subseteq {q[1]}
  <2>1. \A i \in 1 .. n : i = 1
    BY <1>2
  <2> QED BY <1>1, <2>1 DEF RangeOf
<1>3. ASSUME n =< 2 PROVE RangeOf(q) \subseteq {q[1], q[2]}
  <2>1. \A i \in 1 .. n : i = 1 \/ i = 2
    BY <1>3
  <2> QED BY <1>1, <2>1 DEF RangeOf
<1> QED BY <1>1, <1>2, <1>3

\* A driver with more buffers than the RTC side keeps when the view is off: a
\* queue, and a frame in the converter.
EnoughBuffers == \A k \in CamKinds : Buffers > IF k \in {"stereo", "yolo"} THEN 3 ELSE 2

LEMMA NotStarved == ASSUME EnoughBuffers, Kept PROVE CaptureNotStarved
<1> SUFFICES ASSUME work.at = "wait" PROVE Cardinality(Sending) < Buffers
  BY DEF CaptureNotStarved
<1> DEFINE q == sub["rtc"].q  d == Depth("rtc")  h == conv.held
<1>1. /\ q \in Seq(Nat) /\ d \in {1, 2} /\ (q = <<>> \/ Len(q) =< d) /\ Len(<<>>) = 0
  <2>1. "rtc" \in Subs
    BY DEF Subs
  <2> QED BY <2>1, SubOf DEF Kept, Rows, Row, RowOf
<1>2. h \in Seq(Nat) /\ Len(h) =< 1
  BY DEF Kept, Converting, Matched, Converters
<1>3. Sending = RangeOf(q) \cup RangeOf(h)
  BY DEF Kept, Hands, Sending, InQueue
<1>4. d < Buffers - 1 /\ d = IF Stereo THEN 2 ELSE 1
  BY DEF Kept, EnoughBuffers, Depth, Stereo
<1>5. Len(q) =< d
  BY <1>1
<1> HIDE DEF q, d, h
<1>6. PICK c : RangeOf(h) \subseteq {c}
  BY <1>2, RangeOfFew
<1>7. CASE d = 1
  <2>1. PICK a : RangeOf(q) \subseteq {a}
    BY <1>1, <1>5, <1>7, RangeOfFew
  <2>2. Sending \subseteq {a, c}
    BY <1>3, <1>6, <2>1
  <2>3. Cardinality(Sending) =< Cardinality({a, c}) /\ Cardinality(Sending) \in Nat /\ Cardinality({a, c}) \in Nat
    BY <2>2, CountOfTwo, FS_Subset, FS_CardinalityType
  <2>4. Cardinality({a, c}) =< 2
    BY CountOfTwo
  <2> QED BY <1>4, <1>7, <2>3, <2>4
<1>8. CASE d = 2
  <2>1. PICK a, b : RangeOf(q) \subseteq {a, b}
    BY <1>1, <1>5, <1>8, RangeOfFew
  <2>2. Sending \subseteq {a, b, c}
    BY <1>3, <1>6, <2>1
  <2>3. Cardinality(Sending) =< Cardinality({a, b, c}) /\ Cardinality(Sending) \in Nat /\ Cardinality({a, b, c}) \in Nat
    BY <2>2, CountOfThree, FS_Subset, FS_CardinalityType
  <2>4. Cardinality({a, b, c}) =< 3
    BY CountOfThree
  <2> QED BY <1>4, <1>8, <2>3, <2>4
<1> QED BY <1>1, <1>7, <1>8

\* Frames and buffers of a camera, whatever the number of buffers: what CUDA reads
\* (EnqueueToI420) is held by the converter until it was dequeued or discarded,
\* and when Stop of the streaming module has returned no thread, queue or
\* converter holds one.
THEOREM FramesAccountedFor == CamSpec => [](GpuReadsHeldFrames /\ StoppedReleases)
<1>1. CamInit => Kept
  BY KeptBegins
<1>2. Kept /\ [CamNext]_camVars => Kept'
  BY KeptStep
<1>3. Kept => GpuReadsHeldFrames /\ StoppedReleases
  BY FramesInUse
<1> QED BY <1>1, <1>2, <1>3, PTL DEF CamSpec

\* With the default buffer_count of four, or any number above what the RTC side
\* can keep, a view that is off does not stop the capture for the YOLO thread.
THEOREM CameraFramesKept == ASSUME EnoughBuffers PROVE CamSpec => []CameraFrames
<1>1. CamInit => Kept
  BY KeptBegins
<1>2. Kept /\ [CamNext]_camVars => Kept'
  BY KeptStep
<1>3. Kept => CameraFrames
  BY FramesInUse, NotStarved DEF CameraFrames
<1> QED BY <1>1, <1>2, <1>3, PTL DEF CamSpec
-----------------------------------------------------------------------------
(* The cameras of the edge.  Only Start makes workers, when the session     *)
(* runs, and only Stop's joins let the session go; a worker comes to an end *)
(* only after something stopped it, which while the main loop runs is the   *)
(* error of another.                                                        *)

BeforeStart == {"new", "session", "audio", "cameras"}
Joined == {"joined", "stopped"}
EdgePoints == BeforeStart \cup Joined \cup {"running", "closing", "muting", "stopping", "joining"}

EdgeTypes ==
    /\ app \in EdgePoints /\ parts \in SUBSET {"control", "session", "audio"}
    /\ vsel \in Views /\ vseq \in [Consoles -> Nat] /\ selects \in Nat
    /\ dirty \in BOOLEAN /\ due \in BOOLEAN
    /\ refresh \in [Refreshers -> {"idle", "forced", "timed", "apply"}]
    /\ plan \in [Refreshers -> SUBSET Workers] /\ cont \in SUBSET Workers
    /\ worker \in [Workers -> {"none", "wait", "tick", "done"}]
    /\ grid \in SUBSET Surround
    /\ halt \in [stop : BOOLEAN, error : BOOLEAN]

WorkersRun == \E w \in Workers : worker[w] \in {"wait", "tick"}

SessionFirst ==
    /\ app \in {"audio", "cameras", "running"} => "session" \in parts
    /\ app \in BeforeStart => \A w \in Workers : worker[w] = "none"
    /\ WorkersRun => "session" \in parts /\ app \notin Joined

StopsHaveReasons ==
    /\ app = "running" => \A w \in Workers : worker[w] # "none"
    /\ (\E w \in Workers : worker[w] = "done") => halt.stop
    /\ halt.error => halt.stop
    /\ app = "running" /\ halt.stop => halt.error

\* While the main loop runs every camera has its worker, unless one reported
\* an error, which ends the loop; and nobody is joined who was not stopped.
CamerasAlive ==
    /\ app = "running" => halt.error \/ \A w \in Workers : worker[w] \in {"wait", "tick"}
    /\ app \in {"joining"} \cup Joined => halt.stop

\* The grid holds frames of the view that is selected, and is not kept when it
\* is complete.
GridOfView ==
    /\ vsel \notin GridViews => grid = {}
    /\ Surround # {} => grid # Surround

PlansOfViews ==
    /\ \A t \in Refreshers : refresh[t] = "apply" => \E v \in Views : plan[t] = PlanFor(v)
    /\ cont = {} \/ \E v \in Views : cont = PlanFor(v)

\* The cameras that send are those of one view, whatever refreshes overtake
\* each other.
OneViewSends == cont = {} \/ \E v \in Views : cont = PlanFor(v)

EdgeInv == EdgeTypes /\ SessionFirst /\ StopsHaveReasons /\ CamerasAlive /\ GridOfView /\ PlansOfViews

\* A grid is given up only when it goes out complete or the view has changed.
GridsWhole ==
    grid # {} /\ ~(grid \subseteq grid') => vsel' # vsel \/ \E w \in Surround : grid \cup {w} = Surround

LEMMA EdgeBegins == EdgeInit => EdgeInv
<1> SUFFICES ASSUME EdgeInit PROVE EdgeInv
  OBVIOUS
<1>1. EdgeTypes
  BY DEF EdgeInit, EdgeTypes, EdgePoints, BeforeStart, Views, SurroundCameras
<1>2. SessionFirst /\ StopsHaveReasons
  BY DEF EdgeInit, SessionFirst, StopsHaveReasons, WorkersRun, BeforeStart, Joined
<1>3. CamerasAlive /\ GridOfView /\ PlansOfViews
  BY DEF EdgeInit, CamerasAlive, GridOfView, PlansOfViews, GridViews, Joined
<1> QED BY <1>1, <1>2, <1>3 DEF EdgeInv

\* What a step of the application leaves alone, and where it leads.
AppMoves ==
    \/ ControlStarts \/ SessionInits \/ AudioStarts
    \/ MainLoopEnds \/ EdgeStop \/ EdgeStopped \/ ShutdownApplication

\* The other steps that leave the application's place alone.
ViewMoves ==
    \/ \E s \in Consoles :
          CloseViewChannel(s) \/ \E v \in Views, n \in 1 .. MaxSelects : SelectView(s, v, n)
    \/ SecondPasses
    \/ \E t \in Refreshers : ComputePlan(t) \/ ApplyPlan(t)

WorkerMoves == \E w \in Workers : WorkerGoes(w) \/ WorkerTicks(w) \/ WorkerFails(w)

LEMMA EdgeSteps == EdgeNext => AppMoves \/ EdgeStart \/ EdgeTick \/ ViewMoves \/ WorkerMoves
BY DEF EdgeNext, AppMoves, ViewMoves, WorkerMoves

LEMMA AppMovesAlone == ASSUME AppMoves PROVE
    /\ UNCHANGED <<vsel, vseq, dirty, due, refresh, plan, cont, worker, grid, selects>>
    /\ halt' = halt \/ EdgeStop
BY DEF AppMoves, ControlStarts, SessionInits, AudioStarts, MainLoopEnds, EdgeStop, EdgeStopped,
       ShutdownApplication, SessionShutsDown, PartStarts, PartStops, camerasAlone

LEMMA ViewMovesAlone == ASSUME ViewMoves PROVE UNCHANGED <<app, parts, worker, halt>>
BY DEF ViewMoves, CloseViewChannel, SelectView, SecondPasses, ComputePlan, ApplyPlan

LEMMA WorkerMovesAlone == ASSUME WorkerMoves PROVE
    UNCHANGED <<vsel, vseq, dirty, due, refresh, plan, cont, app, selects, parts>>
BY DEF WorkerMoves, WorkerGoes, WorkerTicks, WorkerFails

-----------------------------------------------------------------------------

LEMMA HaltsTyped == ASSUME NEW e \in BOOLEAN PROVE [stop |-> e, error |-> e] \in [stop : BOOLEAN, error : BOOLEAN]
OBVIOUS

LEMMA EdgeTypesKept == ASSUME EdgeTypes, EdgeNext PROVE EdgeTypes'
<1>0. refresh \in [Refreshers -> {"idle", "forced", "timed", "apply"}] /\ "main" \in Refreshers /\ "logic" \in Refreshers
  BY DEF EdgeTypes, Refreshers
<1>1. CASE AppMoves
  <2>1. UNCHANGED <<vsel, vseq, dirty, due, refresh, plan, cont, worker, grid, selects>> /\ (halt' = halt \/ EdgeStop)
    BY <1>1, AppMovesAlone
  <2>2. app' \in EdgePoints /\ parts' \in SUBSET {"control", "session", "audio"}
    BY <1>1 DEF EdgeTypes, EdgePoints, BeforeStart, Joined, AppMoves, ControlStarts, SessionInits, AudioStarts,
         MainLoopEnds, EdgeStop, EdgeStopped, ShutdownApplication, SessionShutsDown, PartStarts, PartStops
  <2>3. halt' \in [stop : BOOLEAN, error : BOOLEAN]
    BY <2>1 DEF EdgeTypes, EdgeStop
  <2> QED BY <2>1, <2>2, <2>3 DEF EdgeTypes
<1>2. CASE EdgeStart
  <2>0. halt \in [stop : BOOLEAN, error : BOOLEAN]
    BY DEF EdgeTypes
  <2>1. app' \in EdgePoints /\ (halt' = halt \/ halt' = [stop |-> FALSE, error |-> FALSE])
    BY <1>2 DEF EdgeStart, EdgePoints
  <2>4. halt' \in [stop : BOOLEAN, error : BOOLEAN]
    BY <2>0, <2>1, HaltsTyped, Zenon
  <2>2. worker' \in [Workers -> {"none", "wait", "tick", "done"}] /\ dirty' \in BOOLEAN /\ due' \in BOOLEAN
    BY <1>2 DEF EdgeStart, EdgeTypes
  <2>3. refresh' \in [Refreshers -> {"idle", "forced", "timed", "apply"}]
    BY <1>2, <1>0 DEF EdgeStart
  <2> QED BY <1>2, <2>1, <2>2, <2>3, <2>4 DEF EdgeTypes, EdgeStart
<1>3. CASE EdgeTick
  <2>1. refresh' \in [Refreshers -> {"idle", "forced", "timed", "apply"}] /\ app' \in EdgePoints
    BY <1>3, <1>0 DEF EdgeTick, EdgeTypes, EdgePoints
  <2> QED BY <1>3, <2>1 DEF EdgeTypes, EdgeTick
<1>4. CASE ViewMoves
  <2>0. UNCHANGED <<app, parts, worker, halt>>
    BY <1>4, ViewMovesAlone
  <2>1. ASSUME NEW v \in Views, Enabled(v)
        PROVE /\ vsel' \in Views /\ grid' \in SUBSET Surround /\ dirty' \in BOOLEAN
              /\ refresh' \in [Refreshers -> {"idle", "forced", "timed", "apply"}]
    BY <2>1, <1>0 DEF Enabled, EdgeTypes
  <2>2. ASSUME NEW s \in Consoles, CloseViewChannel(s) PROVE EdgeTypes'
    <3>1. Enabled("Binocular") /\ "Binocular" \in Views
      BY <2>2 DEF CloseViewChannel, Views
    <3>2. vseq' \in [Consoles -> Nat] /\ selects' \in Nat
      BY <2>2 DEF CloseViewChannel, EdgeTypes
    <3> QED BY <2>0, <2>1, <2>2, <3>1, <3>2 DEF CloseViewChannel, EdgeTypes
  <2>3. ASSUME NEW s \in Consoles, NEW v \in Views, NEW n \in 1 .. MaxSelects, SelectView(s, v, n) PROVE EdgeTypes'
    <3>0. n \in Nat
      BY EdgeConstants
    <3>1. Enabled(v) \/ UNCHANGED <<vsel, vseq, grid, dirty, refresh>>
      BY <2>3 DEF SelectView
    <3>2. vseq' \in [Consoles -> Nat] /\ selects' \in Nat
      BY <2>3, <3>0 DEF SelectView, EdgeTypes
    <3>3. /\ vsel' \in Views /\ grid' \in SUBSET Surround /\ dirty' \in BOOLEAN
          /\ refresh' \in [Refreshers -> {"idle", "forced", "timed", "apply"}]
      BY <2>1, <3>1 DEF EdgeTypes
    <3> QED BY <2>0, <2>3, <3>2, <3>3 DEF SelectView, EdgeTypes
  <2>4. CASE SecondPasses
    BY <2>0, <2>4 DEF SecondPasses, EdgeTypes
  <2>5. ASSUME NEW t \in Refreshers, ComputePlan(t) PROVE EdgeTypes'
    <3>1. PlanFor(vsel) \in SUBSET Workers
      BY DEF PlanFor
    <3>2. plan' = plan \/ plan' = [plan EXCEPT ![t] = PlanFor(vsel)]
      BY <2>5 DEF ComputePlan, Compute
    <3>3. plan' \in [Refreshers -> SUBSET Workers]
      BY <3>1, <3>2 DEF EdgeTypes
    <3>4. refresh' = [refresh EXCEPT ![t] = "apply"] \/ refresh' = [refresh EXCEPT ![t] = "idle"]
      BY <2>5 DEF ComputePlan, Compute
    <3>5. refresh' \in [Refreshers -> {"idle", "forced", "timed", "apply"}]
      BY <1>0, <3>4
    <3>6. dirty' \in BOOLEAN /\ due' \in BOOLEAN
      BY <2>5 DEF ComputePlan, Compute, EdgeTypes
    <3> QED BY <2>0, <2>5, <3>3, <3>5, <3>6 DEF ComputePlan, EdgeTypes
  <2>6. ASSUME NEW t \in Refreshers, ApplyPlan(t) PROVE EdgeTypes'
    <3>1. cont' \in SUBSET Workers /\ refresh' \in [Refreshers -> {"idle", "forced", "timed", "apply"}]
      BY <2>6, <1>0 DEF ApplyPlan, EdgeTypes
    <3> QED BY <2>0, <2>6, <3>1 DEF ApplyPlan, EdgeTypes
  <2> QED BY <1>4, <2>2, <2>3, <2>4, <2>5, <2>6 DEF ViewMoves
<1>5. CASE WorkerMoves
  <2>0. UNCHANGED <<vsel, vseq, dirty, due, refresh, plan, cont, app, selects, parts>>
    BY <1>5, WorkerMovesAlone
  <2>1. PICK w \in Workers : WorkerGoes(w) \/ WorkerTicks(w) \/ WorkerFails(w)
    BY <1>5 DEF WorkerMoves
  <2>2. worker' \in [Workers -> {"none", "wait", "tick", "done"}]
    <3>1. worker \in [Workers -> {"none", "wait", "tick", "done"}]
      BY DEF EdgeTypes
    <3>2. \E to \in {"wait", "tick", "done"} : worker' = [worker EXCEPT ![w] = to]
      BY <2>1 DEF WorkerGoes, WorkerTicks, WorkerFails
    <3> QED BY <3>1, <3>2
  <2>3. halt' \in [stop : BOOLEAN, error : BOOLEAN]
    <3>1. halt \in [stop : BOOLEAN, error : BOOLEAN]
      BY DEF EdgeTypes
    <3>2. halt' = halt \/ halt' = [stop |-> TRUE, error |-> TRUE]
      BY <2>1 DEF WorkerGoes, WorkerTicks, WorkerFails
    <3> QED BY <3>1, <3>2, HaltsTyped, Zenon
  <2>4. grid' \in SUBSET Surround
    BY <2>1 DEF WorkerGoes, WorkerTicks, WorkerFails, EdgeTypes, Submit, Workers
  <2> QED BY <2>0, <2>2, <2>3, <2>4 DEF EdgeTypes
<1> QED BY <1>1, <1>2, <1>3, <1>4, <1>5, EdgeSteps

-----------------------------------------------------------------------------

LEMMA WorkersLive == ASSUME EdgeInv, EdgeNext PROVE SessionFirst' /\ StopsHaveReasons'
<1>0. EdgeTypes /\ SessionFirst /\ StopsHaveReasons /\ CamerasAlive
  BY DEF EdgeInv
<1>1. CASE AppMoves
  <2>1. worker' = worker /\ (halt' = halt \/ EdgeStop)
    BY <1>1, AppMovesAlone
  <2>2. SessionFirst'
    <3>1. app' \in {"audio", "cameras", "running"} => "session" \in parts'
      BY <1>0, <1>1 DEF SessionFirst, AppMoves, ControlStarts, SessionInits, AudioStarts, MainLoopEnds,
           EdgeStop, EdgeStopped, ShutdownApplication, SessionShutsDown, PartStarts, PartStops
    <3>2. app' \in BeforeStart => app \in BeforeStart
      BY <1>1 DEF BeforeStart, AppMoves, ControlStarts, SessionInits, AudioStarts, MainLoopEnds,
           EdgeStop, EdgeStopped, ShutdownApplication, SessionShutsDown, PartStarts, PartStops
    <3>3. ASSUME WorkersRun PROVE "session" \in parts' /\ app' \notin Joined
      <4>1. "session" \in parts /\ app \notin Joined /\ ~EdgeStopped
        BY <1>0, <3>3 DEF SessionFirst, WorkersRun, EdgeStopped
      <4>2. app \notin BeforeStart
        BY <1>0, <3>3 DEF SessionFirst, WorkersRun
      <4> QED BY <1>1, <4>1, <4>2 DEF BeforeStart, Joined, AppMoves, ControlStarts, SessionInits, AudioStarts,
                MainLoopEnds, EdgeStop, ShutdownApplication, SessionShutsDown, PartStarts, PartStops
    <3>4. WorkersRun' = WorkersRun
      BY <2>1 DEF WorkersRun
    <3> QED BY <1>0, <2>1, <3>1, <3>2, <3>3, <3>4 DEF SessionFirst
  <2>3. StopsHaveReasons'
    <3>1. app' # "running"
      BY <1>1 DEF AppMoves, ControlStarts, SessionInits, AudioStarts, MainLoopEnds,
           EdgeStop, EdgeStopped, ShutdownApplication, SessionShutsDown, PartStarts, PartStops
    <3>2. halt' = halt \/ halt'.stop
      BY <1>0, <2>1 DEF EdgeStop, EdgeTypes
    <3> QED BY <1>0, <2>1, <3>1, <3>2 DEF StopsHaveReasons
  <2> QED BY <2>2, <2>3
<1>2. CASE EdgeStart
  <2>1. CASE app' = "closing"
    BY <1>0, <1>2, <2>1 DEF EdgeStart, SessionFirst, StopsHaveReasons, WorkersRun, BeforeStart, Joined
  <2>2. CASE app' = "running"
    <3>1. /\ halt' = [stop |-> FALSE, error |-> FALSE]
          /\ worker' = [w \in Workers |-> "wait"]
          /\ parts' = parts /\ app = "cameras"
      BY <1>2, <2>2 DEF EdgeStart
    <3> QED BY <1>0, <2>2, <3>1 DEF SessionFirst, StopsHaveReasons, WorkersRun, BeforeStart, Joined
  <2> QED BY <1>2, <2>1, <2>2 DEF EdgeStart
<1>3. CASE EdgeTick
  <2>1. UNCHANGED <<worker, halt, parts>> /\ app = "running" /\ app' \in {"running", "closing"}
    BY <1>3 DEF EdgeTick
  <2>2. "session" \in parts
    BY <1>0, <2>1 DEF SessionFirst
  <2> QED BY <1>0, <2>1, <2>2 DEF SessionFirst, StopsHaveReasons, WorkersRun, BeforeStart, Joined
<1>4. CASE ViewMoves
  <2>1. UNCHANGED <<app, parts, worker, halt>>
    BY <1>4, ViewMovesAlone
  <2> QED BY <1>0, <2>1 DEF SessionFirst, StopsHaveReasons, WorkersRun
<1>5. CASE WorkerMoves
  <2>0. UNCHANGED <<app, parts>>
    BY <1>5, WorkerMovesAlone
  <2>1. PICK w \in Workers : WorkerGoes(w) \/ WorkerTicks(w) \/ WorkerFails(w)
    BY <1>5 DEF WorkerMoves
  <2>2. worker[w] \in {"wait", "tick"} /\ WorkersRun
    BY <2>1 DEF WorkerGoes, WorkerTicks, WorkerFails, WorkersRun
  <2>3. "session" \in parts /\ app \notin Joined /\ app \notin BeforeStart
    BY <1>0, <2>2 DEF SessionFirst
  <2>4. worker' = [worker EXCEPT ![w] = worker'[w]] /\ worker'[w] \in {"wait", "tick", "done"}
    BY <1>0, <2>1 DEF WorkerGoes, WorkerTicks, WorkerFails, EdgeTypes
  <2>5. SessionFirst'
    BY <1>0, <2>0, <2>3 DEF SessionFirst
  <2>6. /\ worker'[w] = "done" => halt'.stop
        /\ halt' = halt \/ halt' = [stop |-> TRUE, error |-> TRUE]
    BY <1>0, <2>1 DEF WorkerGoes, WorkerTicks, WorkerFails, EdgeTypes
  <2>7. StopsHaveReasons'
    <3>1. app' = "running" => \A x \in Workers : worker'[x] # "none"
      BY <1>0, <2>0, <2>4 DEF StopsHaveReasons, EdgeTypes
    <3>2. ASSUME NEW x \in Workers, worker'[x] = "done" PROVE halt'.stop
      <4>1. x = w \/ worker[x] = "done"
        BY <1>0, <2>4, <3>2 DEF EdgeTypes
      <4> QED BY <1>0, <2>6, <3>2, <4>1 DEF StopsHaveReasons
    <3>3. halt'.error => halt'.stop
      BY <1>0, <2>6 DEF StopsHaveReasons
    <3>4. app' = "running" /\ halt'.stop => halt'.error
      BY <1>0, <2>0, <2>6 DEF StopsHaveReasons
    <3> QED BY <3>1, <3>2, <3>3, <3>4 DEF StopsHaveReasons
  <2> QED BY <2>5, <2>7
<1> QED BY <1>1, <1>2, <1>3, <1>4, <1>5, EdgeSteps

LEMMA CamerasLive == ASSUME EdgeInv, EdgeNext, EdgeTypes', SessionFirst', StopsHaveReasons' PROVE CamerasAlive'
<1>0. EdgeTypes /\ StopsHaveReasons /\ CamerasAlive
  BY DEF EdgeInv
<1>1. app' = "running" => halt'.error \/ \A w \in Workers : worker'[w] \in {"wait", "tick"}
  BY DEF StopsHaveReasons, EdgeTypes
<1>2. app' \in {"joining"} \cup Joined => halt'.stop
  <2>1. CASE AppMoves
    <3>1. halt' = halt \/ EdgeStop
      BY <2>1, AppMovesAlone
    <3>2. CASE EdgeStop
      BY <1>0, <3>2 DEF EdgeStop, EdgeTypes
    <3>3. CASE halt' = halt /\ ~EdgeStop
      <4>1. app' \in {"joining"} \cup Joined => app \in {"joining"} \cup Joined
        BY <2>1, <3>3 DEF Joined, AppMoves, ControlStarts, SessionInits, AudioStarts,
             MainLoopEnds, EdgeStopped, ShutdownApplication, SessionShutsDown, PartStarts, PartStops
      <4> QED BY <1>0, <3>3, <4>1 DEF CamerasAlive
    <3> QED BY <3>1, <3>2, <3>3
  <2>2. CASE EdgeStart \/ EdgeTick
    BY <2>2 DEF EdgeStart, EdgeTick, Joined
  <2>3. CASE ViewMoves
    <3>1. UNCHANGED <<app, halt>>
      BY <2>3, ViewMovesAlone
    <3> QED BY <1>0, <3>1 DEF CamerasAlive
  <2>4. CASE WorkerMoves
    <3>1. app' = app
      BY <2>4, WorkerMovesAlone
    <3>2. halt' = halt \/ halt'.stop
      BY <2>4 DEF WorkerMoves, WorkerGoes, WorkerTicks, WorkerFails
    <3> QED BY <1>0, <3>1, <3>2 DEF CamerasAlive
  <2> QED BY <2>1, <2>2, <2>3, <2>4, EdgeSteps
<1> QED BY <1>1, <1>2 DEF CamerasAlive

-----------------------------------------------------------------------------

\* A selection of another view empties the grid.
LEMMA SelectionsClear == ASSUME NEW v, Enabled(v), GridOfView
                         PROVE (vsel' = vsel /\ grid' = grid) \/ (vsel' # vsel /\ grid' = {})
BY DEF Enabled

LEMMA GridsKept == ASSUME EdgeTypes, GridOfView, EdgeNext PROVE GridOfView' /\ GridsWhole
<1>1. CASE AppMoves
  <2>1. UNCHANGED <<vsel, grid>>
    BY <1>1, AppMovesAlone
  <2> QED BY <2>1 DEF GridOfView, GridsWhole
<1>2. CASE EdgeStart \/ EdgeTick
  BY <1>2 DEF EdgeStart, EdgeTick, GridOfView, GridsWhole
<1>3. CASE ViewMoves
  <2>1. (vsel' = vsel /\ grid' = grid) \/ (vsel' # vsel /\ grid' = {})
    BY <1>3, SelectionsClear DEF ViewMoves, CloseViewChannel, SelectView, SecondPasses, ComputePlan, ApplyPlan
  <2> QED BY <2>1 DEF GridOfView, GridsWhole
<1>4. CASE WorkerMoves
  <2>1. vsel' = vsel
    BY <1>4, WorkerMovesAlone
  <2>2. PICK w \in Workers : WorkerGoes(w) \/ WorkerTicks(w) \/ WorkerFails(w)
    BY <1>4 DEF WorkerMoves
  <2>3. grid' = grid \/ (w \in Surround /\ Submit(w))
    BY <2>2 DEF WorkerGoes, WorkerTicks, WorkerFails, Workers
  <2>4. CASE grid' = grid
    BY <2>1, <2>4 DEF GridOfView, GridsWhole
  <2>5. CASE w \in Surround /\ Submit(w)
    BY <2>1, <2>5 DEF GridOfView, GridsWhole, Submit
  <2> QED BY <2>3, <2>4, <2>5
<1> QED BY <1>1, <1>2, <1>3, <1>4, EdgeSteps

LEMMA PlansKept == ASSUME EdgeTypes, PlansOfViews, EdgeNext PROVE PlansOfViews'
<1>1. CASE AppMoves
  <2>1. UNCHANGED <<refresh, plan, cont>>
    BY <1>1, AppMovesAlone
  <2> QED BY <2>1 DEF PlansOfViews
<1>2. ASSUME UNCHANGED <<plan, cont>>, \A t \in Refreshers : refresh'[t] = "apply" => refresh[t] = "apply"
      PROVE PlansOfViews'
  BY <1>2 DEF PlansOfViews
<1>3. CASE EdgeStart \/ EdgeTick
  <2>1. UNCHANGED <<plan, cont>> /\ \A t \in Refreshers : refresh'[t] = "apply" => refresh[t] = "apply"
    BY <1>3 DEF EdgeStart, EdgeTick, EdgeTypes
  <2> QED BY <1>2, <2>1
<1>4. ASSUME NEW s \in Consoles, CloseViewChannel(s) \/ \E v \in Views, n \in 1 .. MaxSelects : SelectView(s, v, n)
      PROVE PlansOfViews'
  <2>1. UNCHANGED <<plan, cont>> /\ \A t \in Refreshers : refresh'[t] = "apply" => refresh[t] = "apply"
    BY <1>4 DEF CloseViewChannel, SelectView, Enabled, EdgeTypes
  <2> QED BY <1>2, <2>1
<1>5. CASE SecondPasses
  BY <1>5 DEF SecondPasses, PlansOfViews
<1>6. ASSUME NEW t \in Refreshers, ComputePlan(t) PROVE PlansOfViews'
  <2>1. cont' = cont /\ \A u \in Refreshers \ {t} : refresh'[u] = refresh[u] /\ plan'[u] = plan[u]
    BY <1>6 DEF ComputePlan, Compute, EdgeTypes
  <2>2. refresh'[t] = "apply" => plan'[t] = PlanFor(vsel)
    BY <1>6 DEF ComputePlan, Compute, EdgeTypes
  <2>3. vsel \in Views
    BY DEF EdgeTypes
  <2> QED BY <2>1, <2>2, <2>3 DEF PlansOfViews
<1>7. ASSUME NEW t \in Refreshers, ApplyPlan(t) PROVE PlansOfViews'
  <2>1. plan' = plan /\ \A u \in Refreshers : refresh'[u] = "apply" => refresh[u] = "apply"
    BY <1>7 DEF ApplyPlan, EdgeTypes
  <2>2. cont' = cont \/ cont' = plan[t]
    BY <1>7 DEF ApplyPlan
  <2>3. refresh[t] = "apply"
    BY <1>7 DEF ApplyPlan
  <2> QED BY <2>1, <2>2, <2>3 DEF PlansOfViews
<1>8. CASE WorkerMoves
  <2>1. UNCHANGED <<refresh, plan, cont>>
    BY <1>8, WorkerMovesAlone
  <2> QED BY <2>1 DEF PlansOfViews
<1> QED BY <1>1, <1>3, <1>4, <1>5, <1>6, <1>7, <1>8, EdgeSteps DEF ViewMoves

-----------------------------------------------------------------------------

LEMMA EdgeStep == EdgeInv /\ [EdgeNext]_edgeVars => EdgeInv' /\ [GridsWhole]_edgeVars
<1> SUFFICES ASSUME EdgeInv, [EdgeNext]_edgeVars PROVE EdgeInv' /\ [GridsWhole]_edgeVars
  OBVIOUS
<1>1. CASE EdgeNext
  <2>1. EdgeTypes' /\ GridOfView' /\ GridsWhole /\ PlansOfViews'
    BY <1>1, EdgeTypesKept, GridsKept, PlansKept DEF EdgeInv
  <2>2. SessionFirst' /\ StopsHaveReasons'
    BY <1>1, WorkersLive
  <2>3. CamerasAlive'
    BY <1>1, <2>1, <2>2, CamerasLive
  <2> QED BY <2>1, <2>2, <2>3 DEF EdgeInv
<1>2. CASE UNCHANGED edgeVars
  BY <1>2 DEF edgeVars, EdgeInv, EdgeTypes, SessionFirst, StopsHaveReasons, CamerasAlive, GridOfView,
       PlansOfViews, WorkersRun
<1> QED BY <1>1, <1>2

\* Shutdown of the edge: the session is shut down only when no worker can still
\* send through it, for every set of cameras, also when a worker failed before,
\* or a camera did not start.
THEOREM SessionOutlivesCameras == EdgeSpec => []SessionOutlivesWorkers
<1>1. EdgeInit => EdgeInv
  BY EdgeBegins
<1>2. EdgeInv /\ [EdgeNext]_edgeVars => EdgeInv'
  BY EdgeStep
<1>3. EdgeInv => SessionOutlivesWorkers
  BY DEF EdgeInv, EdgeTypes, SessionFirst, WorkersRun, SessionOutlivesWorkers
<1> QED BY <1>1, <1>2, <1>3, PTL DEF EdgeSpec

\* No camera goes silent unseen: while the main loop runs, a worker that has ended
\* is an error the loop will find; and Stop joins only workers that were told.
THEOREM NoCameraDiesUnseen == EdgeSpec => []CamerasAlive
<1>1. EdgeInit => EdgeInv
  BY EdgeBegins
<1>2. EdgeInv /\ [EdgeNext]_edgeVars => EdgeInv'
  BY EdgeStep
<1>3. EdgeInv => CamerasAlive
  BY DEF EdgeInv
<1> QED BY <1>1, <1>2, <1>3, PTL DEF EdgeSpec

\* Selections, closing channels and two refreshes that overtake each other never
\* mix views: the cameras that send are those of one view, the surround grid
\* holds frames of the view that is selected only, and it is given up only when
\* it goes out with one of every camera or the view changes.
THEOREM ViewsNeverMix == EdgeSpec => [](OneViewSends /\ GridOfView) /\ [][GridsWhole]_edgeVars
<1>1. EdgeInit => EdgeInv
  BY EdgeBegins
<1>2. EdgeInv /\ [EdgeNext]_edgeVars => EdgeInv' /\ [GridsWhole]_edgeVars
  BY EdgeStep
<1>3. EdgeInv => OneViewSends /\ GridOfView
  BY DEF EdgeInv, PlansOfViews, OneViewSends
<1> QED BY <1>1, <1>2, <1>3, PTL DEF EdgeSpec
=============================================================================
