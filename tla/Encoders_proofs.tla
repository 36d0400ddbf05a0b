-------------------------- MODULE Encoders_proofs --------------------------
(***************************************************************************)
(* Proofs about the hardware encoders, for every value of their constants: *)
(* RaspEncoder's pairing of packets with frames, JetsonSession's account   *)
(* of its input buffers and the order of what it hands out, who            *)
(* JetsonLifecycle lets into WebRTC's callback, what it may free and whose *)
(* its sessions are, and which of the EncoderRates reach the hardware.     *)
(***************************************************************************)
EXTENDS JetsonSession, RaspEncoder, JetsonLifecycle, EncoderRates, SequenceTheorems, FiniteSetTheorems, TLAPS

-----------------------------------------------------------------------------
(* The GStreamer encoder.  What keeps packets and descriptions paired is    *)
(* that, until its pipeline loses one of them, pending_frames_ lists        *)
(* exactly the frames that are in the pipeline or pulled from it, in their  *)
(* order, but for the one that has been pushed and not yet noted.  What     *)
(* keeps a loss inside its pipeline is that nothing in these lists is older *)
(* than the pipeline's first frame.                                         *)

RaspPoints == {"idle", "drain", "first", "write", "note", "drainAfter", "last"}

\* The frames that can be in the present pipeline, and the places in Encode at
\* which its frame may still be put there.
Fresh == {n \in Nat : n >= began}
Entering == {"drain", "first", "write", "note"}

RaspTypes ==
    /\ rasp \in [at : RaspPoints, frame : Nat]
    /\ began \in Nat /\ began =< rasp.frame + 1
    /\ rasp.at \in Entering => began =< rasp.frame
    /\ pending \in Seq(Fresh) /\ packets \in Seq(Fresh)
    /\ insrc \in Seq(Fresh) /\ incodec \in Seq(Fresh) /\ insink \in Seq(Fresh)

\* The frames of the pipeline, the oldest first, and those pulled before them.
InPipeline == insink \o (incodec \o insrc)
InFlight == packets \o InPipeline

Noted == IF rasp.at = "note" THEN Append(pending, rasp.frame) ELSE pending
Paired == ~skewed => Noted = InFlight

RaspInv == RaspTypes /\ Paired /\ PacketMatchesFrame

\* Moving the head of a sequence to the end of the one before it leaves their
\* concatenation as it was.
LEMMA HandOver ==
    ASSUME NEW S, NEW s \in Seq(S), NEW t \in Seq(S), s # <<>>
    PROVE  /\ Append(t, Head(s)) \o Tail(s) = t \o s
           /\ Append(t, Head(s)) \in Seq(S) /\ Tail(s) \in Seq(S) /\ Head(s) \in S
           /\ Len(Append(t, Head(s))) = Len(t) + 1 /\ Len(Tail(s)) = Len(s) - 1
<1>1. Head(s) \in S /\ Tail(s) \in Seq(S) /\ Len(Tail(s)) = Len(s) - 1
      /\ \A i \in 1 .. Len(Tail(s)) : Tail(s)[i] = s[i + 1]
  BY HeadTailProperties
<1>2. Append(t, Head(s)) \in Seq(S) /\ Len(Append(t, Head(s))) = Len(t) + 1
  BY <1>1, AppendProperties
<1>3. Append(t, Head(s)) = t \o <<Head(s)>>
  BY <1>1, AppendIsConcat
<1>4. <<Head(s)>> \in Seq(S)
  BY <1>1
<1>5. <<Head(s)>> \o Tail(s) = s
  BY <1>1
<1>6. (t \o <<Head(s)>>) \o Tail(s) = t \o (<<Head(s)>> \o Tail(s))
  BY <1>1, <1>4, ConcatAssociative
<1> QED BY <1>1, <1>2, <1>3, <1>5, <1>6

\* What is put at the end of the second of two sequences is at the end of both.
LEMMA ConcatAppend ==
    ASSUME NEW S, NEW s \in Seq(S), NEW t \in Seq(S), NEW e \in S
    PROVE  s \o Append(t, e) = Append(s \o t, e)
<1>1. <<e>> \in Seq(S) /\ s \o t \in Seq(S)
  OBVIOUS
<1>2. Append(t, e) = t \o <<e>> /\ Append(s \o t, e) = (s \o t) \o <<e>>
  BY <1>1, AppendIsConcat
<1> QED BY <1>1, <1>2, ConcatAssociative

\* The same two facts about sequences of frames, named for the steps that use them.
Regroups(s, t, u) == (s \o t) \o u = s \o (t \o u)
AppendsLast(s, t, e) == s \o Append(t, e) = Append(s \o t, e)

LEMMA FrameConcat ==
    ASSUME NEW S, NEW s \in Seq(S), NEW t \in Seq(S), NEW u \in Seq(S)
    PROVE  Regroups(s, t, u)
BY ConcatAssociative, SMTT(30) DEF Regroups

LEMMA FrameAppend ==
    ASSUME NEW S, NEW s \in Seq(S), NEW t \in Seq(S), NEW e \in S
    PROVE  AppendsLast(s, t, e)
<1>1. s \o Append(t, e) = Append(s \o t, e)
  BY ConcatAppend
<1> QED BY <1>1 DEF AppendsLast

\* The first element of the first sequence is the first of both.
HeadOfBoth(s, t) == s \o t # <<>> /\ Head(s \o t) = Head(s) /\ Tail(s \o t) = Tail(s) \o t

LEMMA ConcatHead ==
    ASSUME NEW S, NEW s \in Seq(S), NEW t \in Seq(S), s # <<>>
    PROVE  HeadOfBoth(s, t)
<1>1. s \o t # <<>> /\ Head(s \o t) = Head(s)
  OBVIOUS
<1>2. <<Head(s)>> \in Seq(S) /\ Tail(s) \in Seq(S) /\ Tail(s) \o t \in Seq(S)
  OBVIOUS
<1>3. <<Head(s)>> \o Tail(s) = s
  OBVIOUS
<1>4. s \o t = <<Head(s)>> \o (Tail(s) \o t)
  BY <1>2, <1>3, ConcatAssociative
<1>5. Tail(<<Head(s)>> \o (Tail(s) \o t)) = Tail(s) \o t
  BY <1>2
<1> QED BY <1>1, <1>4, <1>5 DEF HeadOfBoth

\* Frames in the pipeline are frames.
LEMMA PipelineTypes ==
    ASSUME RaspTypes
    PROVE  /\ incodec \o insrc \in Seq(Fresh) /\ InPipeline \in Seq(Fresh)
           /\ InFlight \in Seq(Fresh) /\ InFlight = (packets \o insink) \o (incodec \o insrc)
<1>1. incodec \o insrc \in Seq(Fresh)
  BY ConcatProperties DEF RaspTypes
<1>2. InPipeline \in Seq(Fresh)
  BY <1>1, ConcatProperties DEF RaspTypes, InPipeline
<1>3. InFlight \in Seq(Fresh)
  BY <1>2, ConcatProperties DEF RaspTypes, InFlight
<1>4. packets \in Seq(Fresh) /\ insink \in Seq(Fresh)
  BY DEF RaspTypes
<1>5. Regroups(packets, insink, incodec \o insrc)
  BY <1>1, <1>4, FrameConcat
<1> QED BY <1>1, <1>2, <1>3, <1>5 DEF InFlight, InPipeline, Regroups

LEMMA RaspStarts == ASSUME RaspInit PROVE RaspInv
<1>1. <<>> \in Seq(Fresh)
  OBVIOUS
<1>2. RaspTypes
  BY <1>1 DEF RaspInit, RaspTypes, RaspPoints, Entering
<1>3. InFlight = <<>>
  BY <1>1, ConcatEmptySeq DEF RaspInit, InFlight, InPipeline
<1>4. Paired /\ PacketMatchesFrame
  BY <1>3 DEF RaspInit, Paired, Noted, PacketMatchesFrame
<1> QED BY <1>2, <1>4 DEF RaspInv

\* A pipeline that is destroyed takes its descriptions with it, and what comes
\* after it is younger than all it held.
LEMMA EmptiedPaired ==
    ASSUME RaspInv, DestroyPipeline, pending' = <<>>, packets' = <<>>,
           rasp' \in [at : RaspPoints, frame : Nat], rasp'.frame >= rasp.frame,
           rasp'.at # "note", rasp'.at \in Entering => rasp'.frame = rasp.frame + 1,
           UNCHANGED given
    PROVE  RaspInv'
<1>1. <<>> \in Seq(Fresh')
  OBVIOUS
<1>2. rasp.frame \in Nat /\ rasp'.frame \in Nat /\ began' = rasp.frame + 1
  BY DEF RaspInv, RaspTypes, DestroyPipeline
<1>3. RaspTypes'
  BY <1>1, <1>2 DEF DestroyPipeline, RaspTypes
<1>4. InFlight' = <<>>
  BY <1>1, ConcatEmptySeq DEF DestroyPipeline, InFlight, InPipeline
<1>5. Paired' /\ PacketMatchesFrame'
  BY <1>4 DEF RaspInv, Paired, Noted, PacketMatchesFrame
<1> QED BY <1>3, <1>5 DEF RaspInv

LEMMA GstMovesPaired == ASSUME RaspInv, GstMoves PROVE RaspInv'
<1>1. RaspTypes /\ UNCHANGED <<rasp, pending, packets, skewed, began, given>> /\ Fresh' = Fresh
  BY DEF RaspInv, GstMoves, Fresh
<1>2. CASE /\ insrc # <<>> /\ incodec' = Append(incodec, Head(insrc))
           /\ insrc' = Tail(insrc) /\ UNCHANGED insink
  <2>1. incodec' \o insrc' = incodec \o insrc /\ incodec' \in Seq(Fresh) /\ insrc' \in Seq(Fresh)
    BY <1>1, <1>2, HandOver DEF RaspTypes
  <2>2. InPipeline' = InPipeline
    BY <1>2, <2>1 DEF InPipeline
  <2>3. RaspTypes'
    BY <1>1, <1>2, <2>1 DEF RaspTypes
  <2> QED BY <1>1, <2>2, <2>3 DEF RaspInv, Paired, Noted, InFlight, PacketMatchesFrame
<1>3. CASE /\ incodec # <<>> /\ insink' = Append(insink, Head(incodec))
           /\ incodec' = Tail(incodec) /\ UNCHANGED insrc
  <2>1. insink' \o incodec' = insink \o incodec /\ incodec' \in Seq(Fresh) /\ insink' \in Seq(Fresh)
    BY <1>1, <1>3, HandOver DEF RaspTypes
  <2>2. InPipeline' = (insink' \o incodec') \o insrc /\ InPipeline = (insink \o incodec) \o insrc
    <3>1. insink \in Seq(Fresh) /\ incodec \in Seq(Fresh) /\ insrc \in Seq(Fresh)
      BY <1>1 DEF RaspTypes
    <3>2. Regroups(insink, incodec, insrc) /\ Regroups(insink', incodec', insrc)
      BY <2>1, <3>1, FrameConcat
    <3> QED BY <1>3, <3>2 DEF InPipeline, Regroups
  <2>3. RaspTypes'
    BY <1>1, <1>3, <2>1 DEF RaspTypes
  <2>4. InPipeline' = InPipeline
    BY <2>1, <2>2
  <2> QED BY <1>1, <2>3, <2>4 DEF RaspInv, Paired, Noted, InFlight, PacketMatchesFrame
<1> QED BY <1>2, <1>3 DEF GstMoves

\* What is pulled from the sink is at the end of what was pulled before; a
\* sample that cannot be used ends the pairing.
LEMMA DrainsPaired ==
    ASSUME RaspInv, NEW from, NEW to, Drains(from, to),
           <<from, to>> \in {<<"drain", "write">>, <<"drainAfter", "return">>}
    PROVE  RaspInv'
<1>1. /\ RaspTypes /\ Paired /\ rasp.at = from /\ Fresh' = Fresh
      /\ UNCHANGED <<pending, incodec, insrc, began, given>>
  BY DEF RaspInv, Drains, Fresh
<1>2. PICK n \in 0 .. Len(insink) :
         /\ packets' = packets \o SubSeq(insink, 1, n)
         /\ insink' = SubSeq(insink, n + 2, Len(insink))
         /\ skewed' = (skewed \/ n < Len(insink))
  BY DEF Drains, PullPackets
<1>3. insink \in Seq(Fresh) /\ packets \in Seq(Fresh) /\ Len(insink) \in Nat /\ n \in Nat
  BY <1>1, <1>2 DEF RaspTypes
<1>4. SubSeq(insink, 1, n) \in Seq(Fresh) /\ insink' \in Seq(Fresh)
  <2>1. \A i \in 1 .. n : insink[i] \in Fresh
    BY <1>2, <1>3, ElementOfSeq
  <2>2. \A i \in n + 2 .. Len(insink) : insink[i] \in Fresh
    BY <1>2, <1>3, ElementOfSeq
  <2> QED BY <1>2, <1>3, <2>1, <2>2, SubSeqProperties
<1>5. packets' \in Seq(Fresh)
  BY <1>2, <1>3, <1>4, ConcatProperties
<1>6. /\ rasp' \in [at : RaspPoints, frame : Nat] /\ rasp'.frame = rasp.frame
      /\ rasp'.at \in {"idle", "last", "write", "first"} /\ rasp.at # "note"
      /\ rasp'.at \in Entering => rasp.at \in Entering
  BY <1>1 DEF Drains, RaspAt, RaspTypes, RaspPoints, Entering, HelperExit
<1>7. RaspTypes'
  BY <1>1, <1>4, <1>5, <1>6 DEF RaspTypes
<1>8. ASSUME ~skewed' PROVE InFlight' = InFlight /\ ~skewed
  <2>1. n = Len(insink) /\ ~skewed
    <3>1. ~(n < Len(insink)) /\ ~skewed
      BY <1>2, <1>8, Zenon
    <3> QED BY <1>2, <1>3, <3>1
  <2>2. packets' = packets \o insink /\ insink' = <<>>
    <3>1. SubSeq(insink, 1, n) = insink
      BY <1>3, <2>1, SubSeqFull
    <3>2. insink' = <<>>
      BY <1>2, <1>3, <2>1, SubSeqEmpty
    <3> QED BY <1>2, <3>1, <3>2
  <2>3. InFlight' = packets' \o (<<>> \o (incodec \o insrc))
    BY <1>1, <2>2 DEF InFlight, InPipeline
  <2>4. <<>> \o (incodec \o insrc) = incodec \o insrc
    BY <1>1, PipelineTypes, ConcatEmptySeq
  <2>5. InFlight = (packets \o insink) \o (incodec \o insrc)
    BY <1>1, PipelineTypes
  <2> QED BY <2>1, <2>2, <2>3, <2>4, <2>5
<1>9. Paired'
  BY <1>1, <1>6, <1>8 DEF Paired, Noted
<1> QED BY <1>1, <1>7, <1>9 DEF RaspInv, PacketMatchesFrame

\* The oldest packet goes out with the oldest description.
LEMMA DeliversPaired == ASSUME RaspInv, RaspDelivers PROVE RaspInv'
<1>1. /\ RaspTypes /\ Paired /\ rasp.at \in {"first", "last"} /\ Fresh' = Fresh
      /\ UNCHANGED <<insink, incodec, insrc, skewed, began>> /\ InPipeline \in Seq(Fresh)
  BY PipelineTypes DEF RaspInv, RaspDelivers, pipeline, Fresh
<1>2. InPipeline' = InPipeline /\ (~skewed => pending = InFlight)
  BY <1>1 DEF InPipeline, Paired, Noted
<1>3. CASE packets = <<>> \/ pending = <<>>
  <2>1. UNCHANGED <<pending, packets, given>>
        /\ rasp' = [rasp EXCEPT !.at = IF rasp.at = "first" THEN "write" ELSE "idle"]
    BY <1>3 DEF RaspDelivers, RaspAt
  <2>2. /\ rasp' \in [at : RaspPoints, frame : Nat] /\ rasp'.frame = rasp.frame
        /\ rasp'.at # "note" /\ (rasp'.at \in Entering => rasp.at \in Entering)
    BY <1>1, <2>1 DEF RaspTypes, RaspPoints, Entering
  <2>3. RaspTypes'
    BY <1>1, <2>1, <2>2 DEF RaspTypes
  <2>4. Paired'
    BY <1>1, <1>2, <2>1, <2>2 DEF Paired, Noted, InFlight
  <2> QED BY <1>1, <2>1, <2>3, <2>4 DEF RaspInv, PacketMatchesFrame
<1>4. CASE packets # <<>> /\ pending # <<>>
  <2>1. /\ packets' = Tail(packets) /\ pending' = Tail(pending)
        /\ \/ /\ given' = [packet |-> Head(packets), frame |-> Head(pending),
                           skewed |-> skewed, began |-> began]
              /\ UNCHANGED rasp
           \/ rasp' = [rasp EXCEPT !.at = "idle"] /\ UNCHANGED given
    BY <1>4 DEF RaspDelivers, RaspAt
  <2>2. ASSUME ~skewed
        PROVE  Head(pending) = Head(packets) /\ Tail(pending) = Tail(packets) \o InPipeline
    <3>1. packets \in Seq(Fresh) /\ InPipeline \in Seq(Fresh)
      BY <1>1 DEF RaspTypes
    <3>2. HeadOfBoth(packets, InPipeline)
      BY <1>4, <3>1, ConcatHead
    <3> QED BY <1>2, <2>2, <3>2 DEF InFlight, HeadOfBoth
  <2>3. /\ packets' \in Seq(Fresh) /\ pending' \in Seq(Fresh)
        /\ Head(packets) \in Fresh /\ Head(pending) \in Fresh
    BY <1>1, <1>4, <2>1, HeadTailProperties DEF RaspTypes
  <2>4. /\ rasp' \in [at : RaspPoints, frame : Nat] /\ rasp'.frame = rasp.frame
        /\ rasp'.at # "note" /\ (rasp'.at \in Entering => rasp.at \in Entering)
    BY <1>1, <2>1 DEF RaspTypes, RaspPoints, Entering
  <2>5. PacketMatchesFrame'
    <3>1. CASE UNCHANGED given
      BY <3>1 DEF RaspInv, PacketMatchesFrame
    <3>2. CASE given' = [packet |-> Head(packets), frame |-> Head(pending),
                         skewed |-> skewed, began |-> began]
      BY <2>2, <2>3, <3>2 DEF PacketMatchesFrame, Fresh
    <3> QED BY <2>1, <3>1, <3>2
  <2>6. RaspTypes'
    BY <1>1, <2>3, <2>4 DEF RaspTypes
  <2>7. Paired'
    BY <1>1, <1>2, <2>1, <2>2, <2>4 DEF Paired, Noted, InFlight
  <2> QED BY <2>5, <2>6, <2>7 DEF RaspInv
<1> QED BY <1>3, <1>4

\* A frame is put in at the end, and noted by the step after that.
LEMMA WritePaired == ASSUME RaspInv, WriteFrame PROVE RaspInv'
<1>1. /\ RaspTypes /\ Paired /\ rasp.at = "write" /\ Fresh' = Fresh
      /\ UNCHANGED <<pending, packets, incodec, insink, skewed, began, given>>
  BY DEF RaspInv, WriteFrame, Fresh
<1>2. CASE insrc' = Append(insrc, rasp.frame) /\ rasp' = [rasp EXCEPT !.at = "note"]
  <2>1. rasp.frame \in Fresh
    BY <1>1 DEF RaspTypes, Entering, Fresh
  <2>2. /\ insrc' \in Seq(Fresh) /\ rasp'.at = "note" /\ rasp'.frame = rasp.frame
        /\ rasp' \in [at : RaspPoints, frame : Nat] /\ rasp.at \in Entering
    BY <1>1, <1>2, <2>1, AppendProperties DEF RaspTypes, RaspPoints, Entering
  <2>3. RaspTypes'
    BY <1>1, <2>2 DEF RaspTypes
  <2>4. InPipeline' = Append(InPipeline, rasp.frame)
    <3>1. /\ insink \in Seq(Fresh) /\ incodec \in Seq(Fresh) /\ insrc \in Seq(Fresh)
          /\ incodec \o insrc \in Seq(Fresh)
      BY <1>1, PipelineTypes DEF RaspTypes
    <3>2. AppendsLast(incodec, insrc, rasp.frame) /\ AppendsLast(insink, incodec \o insrc, rasp.frame)
      BY <2>1, <3>1, FrameAppend
    <3> QED BY <1>1, <1>2, <3>2 DEF InPipeline, AppendsLast
  <2>5. InFlight' = Append(InFlight, rasp.frame)
    <3>1. packets \in Seq(Fresh) /\ InPipeline \in Seq(Fresh)
      BY <1>1, PipelineTypes DEF RaspTypes
    <3>2. AppendsLast(packets, InPipeline, rasp.frame)
      BY <2>1, <3>1, FrameAppend
    <3> QED BY <1>1, <2>4, <3>2 DEF InFlight, AppendsLast
  <2>6. Paired'
    BY <1>1, <2>2, <2>5 DEF Paired, Noted
  <2> QED BY <1>1, <2>3, <2>6 DEF RaspInv, PacketMatchesFrame
<1>3. CASE insrc' = insrc /\ rasp' = [rasp EXCEPT !.at = "idle"]
  <2>1. /\ rasp'.at = "idle" /\ rasp'.frame = rasp.frame
        /\ rasp' \in [at : RaspPoints, frame : Nat] /\ rasp'.at \notin Entering
    BY <1>1, <1>3 DEF RaspTypes, RaspPoints, Entering
  <2>2. RaspTypes'
    BY <1>1, <1>3, <2>1 DEF RaspTypes
  <2> QED BY <1>1, <1>3, <2>1, <2>2 DEF RaspInv, Paired, Noted, InFlight, InPipeline, PacketMatchesFrame
<1> QED BY <1>2, <1>3 DEF WriteFrame, RaspAt

\* Noting a frame drops another only when the list overflows, which ends the
\* pairing.
LEMMA NotePaired == ASSUME RaspInv, NotePending PROVE RaspInv'
<1> DEFINE all == Append(pending, rasp.frame)
<1>1. /\ RaspTypes /\ Paired /\ rasp.at = "note" /\ Fresh' = Fresh
      /\ UNCHANGED <<packets, insrc, incodec, insink, began, given>>
      /\ rasp' = [rasp EXCEPT !.at = "drainAfter"]
      /\ \/ pending' = all /\ (~skewed' => ~skewed)
         \/ pending' = Tail(all) /\ skewed'
  <2>1. \/ pending' = all /\ (~skewed' => ~skewed)
        \/ pending' = Tail(all) /\ skewed'
    BY Zenon DEF NotePending
  <2> QED BY <2>1 DEF RaspInv, NotePending, RaspAt, pipeline, Fresh
<1>2. all \in Seq(Fresh) /\ all # <<>>
  <2>1. rasp.frame \in Fresh /\ pending \in Seq(Fresh)
    BY <1>1 DEF RaspTypes, Entering, Fresh
  <2> QED BY <2>1, AppendProperties
<1>3. pending' \in Seq(Fresh)
  BY <1>1, <1>2, HeadTailProperties
<1>4. /\ rasp' \in [at : RaspPoints, frame : Nat] /\ rasp'.at = "drainAfter"
      /\ rasp'.frame = rasp.frame /\ rasp'.at \notin Entering
  BY <1>1 DEF RaspTypes, RaspPoints, Entering
<1>5. RaspTypes'
  BY <1>1, <1>3, <1>4 DEF RaspTypes
<1>6. Paired'
  BY <1>1, <1>4 DEF Paired, Noted, InFlight, InPipeline
<1> QED BY <1>1, <1>5, <1>6 DEF RaspInv, PacketMatchesFrame

LEMMA RaspStep == ASSUME RaspInv, [RaspNext]_raspVars PROVE RaspInv'
<1> DEFINE RaspRecord == [at : RaspPoints, frame : Nat]
<1>1. ASSUME NEW s \in 1 .. 2, RaspInitEncode(s) PROVE RaspInv'
  <2>1. /\ DestroyPipeline /\ pending' = <<>> /\ packets' = <<>> /\ rasp' = rasp
        /\ rasp.at = "idle" /\ rasp \in RaspRecord /\ UNCHANGED given
    BY <1>1 DEF RaspInitEncode, InitializePipeline, RaspInv, RaspTypes
  <2> QED BY <2>1, EmptiedPaired DEF Entering
<1>2. ASSUME NEW s \in 1 .. 2, RaspEncode(s) PROVE RaspInv'
  <2>1. /\ rasp.at = "idle" /\ rasp' \in RaspRecord /\ rasp'.frame = rasp.frame + 1
        /\ rasp'.at \in {"idle", "drain"} /\ UNCHANGED given /\ rasp.frame \in Nat
    <3>1. rasp.at = "idle" /\ UNCHANGED given
      BY <1>2 DEF RaspEncode
    <3>2. \E p \in {"idle", "drain"} : rasp' = [at |-> p, frame |-> rasp.frame + 1]
      BY <1>2 DEF RaspEncode
    <3>3. rasp.frame \in Nat /\ rasp.frame + 1 \in Nat
      BY DEF RaspInv, RaspTypes
    <3> QED BY <3>1, <3>2, <3>3 DEF RaspPoints
  <2>2. CASE gst = "none" \/ s # rsize \/ redo
    <3>1. DestroyPipeline /\ pending' = <<>> /\ packets' = <<>>
      BY <1>2, <2>2 DEF RaspEncode, InitializePipeline
    <3> QED BY <2>1, <3>1, EmptiedPaired
  <2>3. CASE ~(gst = "none" \/ s # rsize \/ redo)
    <3>1. UNCHANGED <<pending, packets, insrc, incodec, insink, skewed, began>>
      BY <1>2, <2>3 DEF RaspEncode, pipeline
    <3>2. Fresh' = Fresh
      BY <3>1 DEF Fresh
    <3>3. RaspTypes'
      BY <2>1, <3>1, <3>2 DEF RaspInv, RaspTypes
    <3>4. Paired'
      BY <2>1, <3>1 DEF RaspInv, Paired, Noted, InFlight, InPipeline
    <3> QED BY <2>1, <3>3, <3>4 DEF RaspInv, PacketMatchesFrame
  <2> QED BY <2>2, <2>3
<1>3. CASE RaspRelease
  <2>1. /\ DestroyPipeline /\ pending' = <<>> /\ packets' = <<>> /\ rasp' = rasp
        /\ rasp.at = "idle" /\ rasp \in RaspRecord /\ UNCHANGED given
    BY <1>3 DEF RaspRelease, RaspInv, RaspTypes
  <2> QED BY <2>1, EmptiedPaired DEF Entering
<1>4. CASE GstFails \/ RaspRegister \/ UNCHANGED raspVars
  <2>1. UNCHANGED <<rasp, pending, packets, insrc, incodec, insink, skewed, began, given>>
    BY <1>4 DEF GstFails, RaspRegister, raspVars, pipeline
  <2>2. Fresh' = Fresh
    BY <2>1 DEF Fresh
  <2> QED BY <2>1, <2>2 DEF RaspInv, RaspTypes, Paired, Noted, InFlight, InPipeline, PacketMatchesFrame
<1>5. CASE GstMoves
  BY <1>5, GstMovesPaired
<1>6. CASE DrainBefore \/ DrainAfter
  <2>1. CASE Drains("drain", "write")
    BY <2>1, DrainsPaired
  <2>2. CASE Drains("drainAfter", "return")
    BY <2>2, DrainsPaired
  <2> QED BY <1>6, <2>1, <2>2 DEF DrainBefore, DrainAfter
<1>7. CASE RaspDelivers \/ WriteFrame \/ NotePending
  BY <1>7, DeliversPaired, WritePaired, NotePaired
<1> QED BY <1>1, <1>2, <1>3, <1>4, <1>5, <1>6, <1>7 DEF RaspNext

\* A packet leaves the encoder with the description of the frame it encodes,
\* through failures, new pipelines and packets that cannot be used, as long as
\* PullPacketFromSinkLocked has discarded no sample of its pipeline and
\* pending_frames_ has dropped no entry; and where one of them has, packet and
\* description are still both of frames put into that same pipeline, so what
\* DeliverPacketLocked pairs wrongly ends with the next pipeline.  Nothing is
\* assumed of how many frames GStreamer holds.
THEOREM PacketsKeepTheirFrames == RaspSpec => []PacketMatchesFrame
<1>1. RaspInit => RaspInv
  BY RaspStarts
<1>2. RaspInv /\ [RaspNext]_raspVars => RaspInv'
  BY RaspStep
<1>3. RaspInv => PacketMatchesFrame
  BY DEF RaspInv
<1> QED BY <1>1, <1>2, <1>3, PTL DEF RaspSpec

-----------------------------------------------------------------------------
(* The Jetson session.  Tasks are read while the capture thread may still    *)
(* take from them, that is until it has ended and the session is aborted.    *)

EncPoints == {"new", "create", "start", "prepare", "idle", "fill", "task", "queue",
              "can", "drain", "tasks", "setup", "ready", "await", "deadline", "force",
              "on", "failed", "join", "gone"}
Booting == {"new", "create", "start", "prepare"}
DqPoints == {"none", "idle", "match", "reclaim", "arrived", "relax", "confirm", "call", "ended"}
Image == [ts : Nat, size : Nat, idr : BOOLEAN, sps : BOOLEAN]
Input == [ts : Nat, size : Nat, forced : BOOLEAN]

Live == ~aborted \/ dq.at # "ended"

JetTypes ==
    /\ enc \in [at : EncPoints, target : Nat, ts : Nat]
    /\ jsize \in Nat /\ stamp \in Nat /\ avail \in Nat /\ spent \in Nat
    /\ forceNext \in BOOLEAN /\ ready \in BOOLEAN /\ awaiting \in BOOLEAN
    /\ aborted \in BOOLEAN /\ halting \in BOOLEAN /\ drc \in BOOLEAN
    /\ deadline \in {"none", "armed", "passed"}
    /\ dq \in [at : DqPoints, f : Image, await : BOOLEAN, deliver : BOOLEAN, owe : Nat]
    /\ inq \in Seq(Input) /\ coded \in Seq(Image) /\ shown \in Image
    /\ Live => tasks \in Seq(Nat)

\* Until the session is made there is nothing in it.
JetBoots ==
    /\ enc.at \in Booting =>
          /\ aborted /\ halting /\ tasks = <<>> /\ inq = <<>> /\ coded = <<>>
          /\ shown.ts = 0 /\ dq.owe = 0 /\ dq.at \in {"none", "idle", "ended"}
    /\ enc.at \in {"new", "create", "start"} => dq.at = "none"

\* Its owner waits for the capture thread only once it is aborted.
JetJoins == enc.at = "join" => aborted

-----------------------------------------------------------------------------
(* Numbers.  Every frame anywhere is older than the one the encoder thread   *)
(* has in its hands, and what was given to the callback is older than every  *)
(* frame that still has a task.                                             *)

Newest == IF enc.at \in {"fill", "task", "queue"} THEN enc.ts ELSE stamp
Delivering == dq.at \in {"reclaim", "arrived", "relax", "confirm", "call"} /\ dq.deliver

Older ==
    /\ enc.ts < stamp /\ dq.f.ts < Newest /\ shown.ts < Newest
    /\ \A k \in DOMAIN inq : inq[k].ts < Newest
    /\ \A k \in DOMAIN coded : coded[k].ts < Newest

TasksRise ==
    Live =>
       /\ \A i, j \in DOMAIN tasks : i < j => tasks[i] < tasks[j]
       /\ \A i \in DOMAIN tasks :
             tasks[i] < Newest \/ (enc.at = "queue" /\ i = Len(tasks))
       /\ enc.at = "queue" => tasks # <<>> /\ tasks[Len(tasks)] = enc.ts

ShownBefore ==
    /\ Live => \A i \in DOMAIN tasks :
                  shown.ts < tasks[i] /\ (Delivering => dq.f.ts < tasks[i])
    /\ Delivering => shown.ts < dq.f.ts
    /\ dq.at \in {"arrived", "relax", "confirm", "call"} => dq.deliver

Numbers == Older /\ TasksRise /\ ShownBefore

-----------------------------------------------------------------------------
(* Buffers.                                                                 *)

Account ==
    /\ BuffersAccounted
    /\ Live /\ dq.at # "reclaim" => dq.owe = 0
    /\ enc.at \in {"tasks", "setup"} /\ ~aborted /\ ~halting => avail = BUFFER_NUM

-----------------------------------------------------------------------------
(* Resolutions.  A frame that has its task was made for the present size; a *)
(* switch waits until there is none, and from before the new size is set     *)
(* until its first image is accepted the session awaits it.                 *)

Switching == {"setup", "ready", "await", "deadline", "force", "on"}

SizesOfTasks ==
    Live =>
       /\ \A i \in DOMAIN tasks :
             /\ \A k \in DOMAIN inq : inq[k].ts = tasks[i] => inq[k].size = jsize
             /\ \A k \in DOMAIN coded : coded[k].ts = tasks[i] => coded[k].size = jsize
             /\ dq.at = "match" /\ dq.f.ts = tasks[i] => dq.f.size = jsize
       /\ enc.at \in Switching => tasks = <<>>

AwaitsFirst ==
    /\ enc.at \in {"drain", "tasks", "setup", "ready", "await"} => ~awaiting
    /\ enc.at \in {"deadline", "force", "on"} =>
          awaiting /\ ~(dq.at \in {"reclaim", "arrived"} /\ dq.await)
    /\ dq.at \in {"match", "reclaim", "arrived"} /\ dq.await => awaiting
    /\ dq.at = "arrived" => dq.await
    /\ dq.at \in {"reclaim", "arrived"} /\ dq.await /\ dq.deliver => dq.f.size = jsize

\* The last image accepted, given to the callback or about to be.
Accepted == IF Delivering THEN dq.f ELSE shown
Settled == Live /\ ~awaiting /\ Accepted.ts > 0 => Accepted.size = jsize

Decodable(f) == shown.ts > 0 /\ f.size # shown.size => f.idr /\ f.sps

FirstDecodable ==
    /\ dq.at = "match" /\ dq.deliver /\ (\E i \in DOMAIN tasks : tasks[i] = dq.f.ts)
          => Decodable(dq.f)
    /\ Delivering => Decodable(dq.f)

Switches == SizesOfTasks /\ AwaitsFirst /\ Settled /\ FirstDecodable

JetInv == JetTypes /\ JetBoots /\ JetJoins /\ Numbers /\ Account /\ Switches

LEMMA JetBegins == ASSUME JetsonSessionConstants, JetInit PROVE JetInv
<1>1. <<>> \in Seq(Nat) /\ <<>> \in Seq(Input) /\ <<>> \in Seq(Image) /\ DOMAIN <<>> = {}
  OBVIOUS
<1>2. NoCoded \in Image /\ NoCoded.ts = 0
  BY DEF NoCoded, Image
<1>3. /\ dq = [at |-> "none", f |-> NoCoded, await |-> FALSE, deliver |-> FALSE, owe |-> 0]
      /\ enc = [at |-> "new", target |-> 0, ts |-> 0]
  BY DEF JetInit, DqIdle
<1>4. JetTypes
  <2>1. /\ enc \in [at : EncPoints, target : Nat, ts : Nat]
        /\ dq \in [at : DqPoints, f : Image, await : BOOLEAN, deliver : BOOLEAN, owe : Nat]
    BY <1>2, <1>3 DEF EncPoints, DqPoints
  <2> QED BY <1>1, <1>2, <2>1 DEF JetInit, JetTypes, JetsonSessionConstants
<1>5. JetBoots
  BY <1>2, <1>3 DEF JetInit, JetBoots
<1>10. JetJoins
  BY <1>3 DEF JetJoins
<1>6. ~Delivering /\ dq.f.ts = 0 /\ shown.ts = 0 /\ Newest = 1 /\ tasks = <<>>
  BY <1>2, <1>3 DEF JetInit, Delivering, Newest
<1>7. Numbers
  BY <1>1, <1>3, <1>6 DEF JetInit, Numbers, Older, TasksRise, ShownBefore
<1>8. Account
  BY <1>3 DEF JetInit, Account, BuffersAccounted
<1>9. Switches
  BY <1>1, <1>3, <1>6 DEF JetInit, Switches, SizesOfTasks, AwaitsFirst, Settled, Accepted,
     FirstDecodable, Switching
<1> QED BY <1>4, <1>5, <1>7, <1>8, <1>9, <1>10 DEF JetInv

\* Two elements make a sequence.
LEMMA PairOf == ASSUME NEW S, NEW a \in S, NEW b \in S PROVE <<a, b>> \in Seq(S)
OBVIOUS

\* One index of the task of the image, the same every time it is asked for.
Matched == CHOOSE i \in DOMAIN tasks : tasks[i] = dq.f.ts

LEMMA MatchedOf ==
    ASSUME NEW i \in DOMAIN tasks, tasks[i] = dq.f.ts
    PROVE  Matched \in DOMAIN tasks /\ tasks[Matched] = dq.f.ts
BY DEF Matched

\* What is left of the tasks when the first ones are given up.
LEMMA RestOf ==
    ASSUME NEW S, NEW q \in Seq(S), NEW n \in Nat, n =< Len(q)
    PROVE  /\ SubSeq(q, n + 1, Len(q)) \in Seq(S) /\ Len(SubSeq(q, n + 1, Len(q))) = Len(q) - n
           /\ \A i \in DOMAIN SubSeq(q, n + 1, Len(q)) :
                 i \in Nat \ {0} /\ i + n \in DOMAIN q /\ SubSeq(q, n + 1, Len(q))[i] = q[i + n]
<1> DEFINE r == SubSeq(q, n + 1, Len(q))
<1>1. \A i \in n + 1 .. Len(q) : q[i] \in S
  OBVIOUS
<1> HIDE DEF r
<1>2. /\ r \in Seq(S) /\ Len(r) = IF n + 1 =< Len(q) THEN Len(q) - (n + 1) + 1 ELSE 0
      /\ \A i \in 1 .. Len(q) - (n + 1) + 1 : r[i] = q[(n + 1) + i - 1]
  BY <1>1, SubSeqProperties DEF r
<1>3. Len(r) = Len(q) - n /\ DOMAIN r = 1 .. Len(q) - n
  BY <1>2
<1>4. \A i \in DOMAIN r : i \in Nat \ {0} /\ i + n \in DOMAIN q /\ r[i] = q[i + n]
  BY <1>2, <1>3
<1> QED BY <1>2, <1>3, <1>4 DEF r

\* What is left when the last one is taken back.
LEMMA FrontOf ==
    ASSUME NEW S, NEW q \in Seq(S), q # <<>>
    PROVE  /\ SubSeq(q, 1, Len(q) - 1) \in Seq(S) /\ Len(SubSeq(q, 1, Len(q) - 1)) = Len(q) - 1
           /\ \A i \in DOMAIN SubSeq(q, 1, Len(q) - 1) :
                 i \in DOMAIN q /\ i # Len(q) /\ SubSeq(q, 1, Len(q) - 1)[i] = q[i]
           /\ Len(q) \in Nat \ {0}
<1> DEFINE r == SubSeq(q, 1, Len(q) - 1)
<1>1. Len(q) \in Nat \ {0} /\ \A i \in 1 .. Len(q) - 1 : q[i] \in S
  OBVIOUS
<1>2. /\ r \in Seq(S) /\ Len(r) = IF 1 =< Len(q) - 1 THEN Len(q) - 1 - 1 + 1 ELSE 0
      /\ \A i \in 1 .. Len(q) - 1 - 1 + 1 : r[i] = q[1 + i - 1]
  BY <1>1, SubSeqProperties
<1> HIDE DEF r
<1>3. Len(r) = Len(q) - 1 /\ DOMAIN r = 1 .. Len(q) - 1
  <2>1. DOMAIN r = 1 .. Len(r)
    BY <1>2
  <2>2. Len(r) = Len(q) - 1
    <3>1. PICK n \in Nat \ {0} : n = Len(q)
      BY <1>1
    <3>2. Len(r) = IF 1 =< n - 1 THEN n - 1 - 1 + 1 ELSE 0
      BY <1>2, <3>1
    <3>3. Len(r) = n - 1
      BY <3>2
    <3> QED BY <3>1, <3>3
  <2> QED BY <2>1, <2>2
<1>4. \A i \in DOMAIN r : i \in DOMAIN q /\ i # Len(q) /\ r[i] = q[i]
  BY <1>1, <1>2, <1>3
<1> QED BY <1>1, <1>2, <1>3, <1>4 DEF r

\* The steps of the owner that only move on in the program, or give up.
JetPasses ==
    \/ JetCreates \/ JetSettings \/ \E s \in 1 .. JetSizes : JetReconfigure(s)
    \/ CanReconfigure \/ DrainOutputPlane \/ WaitForPendingTasks \/ JetKept

\* One that only moves on, and what it has seen when it does.
Passed ==
    /\ UNCHANGED <<jsize, stamp, avail, tasks, forceNext, jetFlags, dq, jetDevice, shown>>
    /\ enc'.ts = enc.ts /\ enc' \in [at : EncPoints, target : Nat, ts : Nat]
    /\ enc.at \notin {"fill", "task", "queue", "prepare"} \cup (Switching \ {"setup"})
    /\ enc'.at \in {"create", "start", "gone", "failed", "idle", "can", "drain", "tasks", "setup"}
    /\ enc'.at \in {"create", "start"} => enc.at \in {"new", "create"}
    /\ enc.at = "start" => FALSE
    /\ enc'.at = "drain" => ~awaiting
    /\ enc'.at \in {"tasks", "setup"} => enc.at \in {"drain", "tasks"}
    /\ enc'.at = "tasks" => avail = BUFFER_NUM /\ enc.at = "drain"
    /\ enc'.at = "setup" => tasks = <<>> /\ enc.at = "tasks"
    /\ enc.at \in Booting => enc'.at \in {"create", "start", "gone"}

LEMMA PassesOf == ASSUME JetTypes, JetsonSessionConstants, JetPasses PROVE Passed
<1> USE DEF EncAt, JetTypes, EncPoints, Passed, Booting, Switching
<1>1. CASE JetCreates BY <1>1 DEF JetCreates
<1>2. CASE JetSettings BY <1>2 DEF JetSettings
<1>3. ASSUME NEW s \in 1 .. JetSizes, JetReconfigure(s) PROVE Passed
  <2>1. s \in Nat
    BY <1>3, JetsonSessionConstants DEF JetsonSessionConstants
  <2> QED BY <1>3, <2>1 DEF JetReconfigure
<1>4. CASE CanReconfigure BY <1>4 DEF CanReconfigure
<1>5. CASE DrainOutputPlane BY <1>5 DEF DrainOutputPlane
<1>6. CASE WaitForPendingTasks BY <1>6 DEF WaitForPendingTasks
<1>7. CASE JetKept BY <1>7 DEF JetKept
<1> QED BY <1>1, <1>2, <1>3, <1>4, <1>5, <1>6, <1>7 DEF JetPasses

-----------------------------------------------------------------------------
(* Types, and the session before it is made.                                *)

LEMMA JetTypesStep ==
    ASSUME JetTypes, JetBoots, TasksRise, JetsonSessionConstants, [JetNext]_jetVars
    PROVE  JetTypes'
<1> USE DEF JetTypes, EncAt, jetDevice, jetFlags
<1>b. BUFFER_NUM \in Nat
  BY JetsonSessionConstants DEF JetsonSessionConstants
<1>e. \A p \in EncPoints : [enc EXCEPT !.at = p] \in [at : EncPoints, target : Nat, ts : Nat]
  BY DEF EncPoints
<1>p. \A p \in {"idle", "fill", "task", "queue", "ready", "await", "deadline", "force", "on",
                "failed", "join", "gone", "prepare"} : p \in EncPoints
  BY DEF EncPoints
<1>d. \A p \in DqPoints :
         [dq EXCEPT !.at = p]
            \in [at : DqPoints, f : Image, await : BOOLEAN, deliver : BOOLEAN, owe : Nat]
  BY DEF DqPoints
<1>i. DqIdle \in [at : DqPoints, f : Image, await : BOOLEAN, deliver : BOOLEAN, owe : Nat]
  BY DEF DqIdle, DqPoints, NoCoded, Image
<1>1. CASE JetPasses
  BY <1>1, PassesOf DEF Passed, Live
<1>2. CASE JetStarts
  <2>1. tasks = <<>>
    BY <1>2 DEF JetStarts, JetBoots, Booting
  <2> QED BY <1>2, <1>e, <1>p, <1>i, <2>1 DEF JetStarts
<1>3. CASE PrepareCaptureBuffer
  <2>1. tasks = <<>>
    BY <1>3 DEF PrepareCaptureBuffer, JetBoots, Booting
  <2>2. "none" \in DqPoints
    BY DEF DqPoints
  <2>3. /\ UNCHANGED <<jsize, stamp, tasks, forceNext, ready, awaiting, deadline, jetDevice, shown>>
        /\ avail' \in Nat /\ aborted' \in BOOLEAN /\ halting' \in BOOLEAN
    BY <1>3, <1>b DEF PrepareCaptureBuffer, ResetAvailableOutputBuffers
  <2>4. enc' \in [at : EncPoints, target : Nat, ts : Nat]
    BY <1>3, <1>e, <1>p DEF PrepareCaptureBuffer
  <2>5. dq' \in [at : DqPoints, f : Image, await : BOOLEAN, deliver : BOOLEAN, owe : Nat]
    BY <1>3, <1>d, <2>2 DEF PrepareCaptureBuffer
  <2>6. tasks' \in Seq(Nat)
    BY <2>1, <2>3
  <2> QED BY <2>3, <2>4, <2>5, <2>6
<1>4. CASE JetEmplace
  <2>1. [enc EXCEPT !.at = "fill", !.ts = stamp] \in [at : EncPoints, target : Nat, ts : Nat]
    BY <1>p
  <2>2. UNCHANGED <<jsize, tasks, forceNext, jetFlags, dq, jetDevice, shown>> /\ stamp' \in Nat
    BY <1>4 DEF JetEmplace
  <2>3. avail' \in Nat
    BY <1>4 DEF JetEmplace
  <2>4. enc' \in [at : EncPoints, target : Nat, ts : Nat]
    BY <1>4, <2>1 DEF JetEmplace
  <2> QED BY <2>2, <2>3, <2>4 DEF Live
<1>5. CASE ConvertI420ToYUV420M
  BY <1>5, <1>e, <1>p DEF ConvertI420ToYUV420M, Live
<1>6. CASE JetFill
  BY <1>6, <1>e, <1>p DEF JetFill, Live
<1>7. CASE JetQueue
  <2>1. UNCHANGED <<aborted, dq, jsize, stamp, shown, spent, drc, coded>> /\ forceNext' = FALSE
        /\ UNCHANGED <<ready, awaiting, deadline, halting>>
    BY <1>7 DEF JetQueue
  <2>2. [ts |-> enc.ts, size |-> jsize, forced |-> forceNext] \in Input
    BY DEF Input
  <2>3. inq' \in Seq(Input)
    <3>1. CASE inq' = inq
      BY <3>1
    <3>2. CASE inq' = Append(inq, [ts |-> enc.ts, size |-> jsize, forced |-> forceNext])
      BY <2>2, <3>2, AppendProperties
    <3> QED BY <1>7, <3>1, <3>2 DEF JetQueue
  <2>4. avail' \in Nat /\ enc' \in [at : EncPoints, target : Nat, ts : Nat]
    <3>1. enc' = [enc EXCEPT !.at = "idle"] /\ avail' \in {avail, avail + 1}
      BY <1>7 DEF JetQueue
    <3> QED BY <3>1, <1>e, <1>p
  <2>5. ASSUME Live PROVE tasks' \in Seq(Nat)
    <3>1. tasks' = tasks \/ (tasks # <<>> /\ tasks' = SubSeq(tasks, 1, Len(tasks) - 1))
      BY <1>7 DEF JetQueue
    <3>2. tasks \in Seq(Nat)
      BY <2>5
    <3>3. tasks # <<>> => SubSeq(tasks, 1, Len(tasks) - 1) \in Seq(Nat)
      BY <3>2, FrontOf
    <3> QED BY <3>1, <3>2, <3>3
  <2> QED BY <2>1, <2>3, <2>4, <2>5 DEF Live
<1>8. CASE JetSetup
  <2>1. <<>> \in Seq(Input)
    OBVIOUS
  <2>2. /\ UNCHANGED <<jsize, stamp, tasks, forceNext, awaiting, deadline, halting, dq,
                       coded, drc, shown>>
        /\ avail' \in Nat /\ spent' \in Nat
    BY <1>8, <1>b, <2>1 DEF JetSetup, JetUnhealthy, ResetAvailableOutputBuffers
  <2>4. inq' \in Seq(Input)
    BY <1>8, <2>1 DEF JetSetup
  <2>5. ready' \in BOOLEAN /\ aborted' \in BOOLEAN /\ (aborted => aborted')
    BY <1>8 DEF JetSetup, JetUnhealthy
  <2>3. enc' \in [at : EncPoints, target : Nat, ts : Nat]
    BY <1>8, <1>e, <1>p DEF JetSetup, JetUnhealthy
  <2> QED BY <2>2, <2>3, <2>4, <2>5 DEF Live
<1>9. CASE JetPends
  <2>1. UNCHANGED <<jsize, stamp, avail, tasks, aborted, halting, dq, jetDevice, shown>>
    BY <1>9 DEF JetPends
  <2>2. enc' \in [at : EncPoints, target : Nat, ts : Nat]
    BY <1>9, <1>e, <1>p DEF JetPends
  <2>3. ready' \in BOOLEAN /\ awaiting' \in BOOLEAN /\ forceNext' \in BOOLEAN
    BY <1>9 DEF JetPends
  <2>4. deadline' \in {"none", "armed", "passed"}
    BY <1>9 DEF JetPends
  <2> QED BY <2>1, <2>2, <2>3, <2>4 DEF Live
<1>10. CASE JetStreamsOn
  <2>1. UNCHANGED <<stamp, avail, tasks, forceNext, awaiting, deadline, halting, dq,
                    inq, coded, spent, shown>>
    BY <1>10 DEF JetStreamsOn
  <2>2. jsize' \in Nat /\ drc' \in BOOLEAN /\ ready' \in BOOLEAN
    BY <1>10 DEF JetStreamsOn, JetUnhealthy
  <2>3. enc' \in [at : EncPoints, target : Nat, ts : Nat]
    BY <1>10, <1>e, <1>p DEF JetStreamsOn, JetUnhealthy
  <2>4. aborted' \in BOOLEAN /\ (aborted => aborted')
    BY <1>10 DEF JetStreamsOn, JetUnhealthy
  <2> QED BY <2>1, <2>2, <2>3, <2>4 DEF Live
<1>11. CASE DeadlinePasses
  BY <1>11 DEF DeadlinePasses, Live
<1>12. CASE DeviceCodes \/ DeviceSkips
  <2>1. UNCHANGED <<enc, jsize, stamp, avail, tasks, forceNext, jetFlags, dq, shown>> /\ DeviceTook
    BY <1>12 DEF DeviceCodes, DeviceSkips
  <2>2. inq' \in Seq(Input) /\ spent' \in Nat /\ drc' = FALSE /\ Head(inq) \in Input
    BY <2>1 DEF DeviceTook
  <2>3. \A b \in BOOLEAN : Coded(b) \in Image
    BY <2>2 DEF Coded, Input, Image
  <2>4. coded' \in Seq(Image)
    <3>1. CASE UNCHANGED coded
      BY <3>1
    <3>2. \A b \in BOOLEAN : Append(coded, Coded(b)) \in Seq(Image)
      BY <2>3, AppendProperties
    <3>3. <<Coded(FALSE), Coded(TRUE)>> \in Seq(Image)
      <4>1. Coded(FALSE) \in Image /\ Coded(TRUE) \in Image
        BY <2>3
      <4> QED BY <4>1, PairOf
    <3>4. coded \o <<Coded(FALSE), Coded(TRUE)>> \in Seq(Image)
      BY <3>3, ConcatProperties
    <3> QED BY <1>12, <3>1, <3>2, <3>4 DEF DeviceCodes, DeviceSkips
  <2> QED BY <2>1, <2>2, <2>4 DEF Live
<1>13. CASE DqFails
  <2>1. "ended" \in DqPoints
    BY DEF DqPoints
  <2> QED BY <1>13, <1>d, <2>1 DEF DqFails, DqEnds, Live
<1>14. CASE DqTakes
  <2>1. coded # <<>> /\ coded' \in Seq(Image) /\ Head(coded) \in Image
    BY <1>14 DEF DqTakes
  <2>2. "ended" \in DqPoints /\ "match" \in DqPoints
    BY DEF DqPoints
  <2>3. Deliverable(Head(coded)) \in BOOLEAN
    BY DEF Deliverable
  <2> QED BY <1>14, <1>d, <2>1, <2>2, <2>3 DEF DqTakes, DqEnds, Live
<1>15. CASE DqMatches
  <2>1. UNCHANGED <<enc, jsize, stamp, avail, jetFlags, jetDevice, shown>> /\ dq.at = "match"
    BY <1>15 DEF DqMatches
  <2>2. "ended" \in DqPoints /\ "reclaim" \in DqPoints
    BY DEF DqPoints
  <2>3. Live /\ tasks \in Seq(Nat)
    BY <2>1 DEF Live
  <2>4. CASE \E i \in DOMAIN tasks : tasks[i] = dq.f.ts
    <3> DEFINE gone == IF dq.deliver THEN Matched ELSE Matched - 1
    <3>1. Matched \in DOMAIN tasks
      BY <2>4, MatchedOf
    <3>2. gone \in Nat /\ gone =< Len(tasks)
      BY <2>3, <3>1
    <3>3. tasks' = SubSeq(tasks, gone + 1, Len(tasks)) /\ dq' = [dq EXCEPT !.at = "reclaim", !.owe = gone]
      BY <1>15, <2>4 DEF DqMatches, MatchTask, Matched
    <3> HIDE DEF gone
    <3>4. tasks' \in Seq(Nat)
      BY <2>3, <3>2, <3>3, RestOf
    <3>5. dq' \in [at : DqPoints, f : Image, await : BOOLEAN, deliver : BOOLEAN, owe : Nat]
      BY <2>2, <3>2, <3>3
    <3>6. forceNext' \in BOOLEAN
      BY <1>15, <2>4 DEF DqMatches
    <3> QED BY <2>1, <3>4, <3>5, <3>6
  <2>5. CASE ~ \E i \in DOMAIN tasks : tasks[i] = dq.f.ts
    BY <1>15, <1>d, <1>i, <2>1, <2>2, <2>3, <2>5 DEF DqMatches
  <2> QED BY <2>4, <2>5
<1>16. CASE DqAborts
  <2>1. /\ aborted' = TRUE /\ dq' = [dq EXCEPT !.at = "ended"]
        /\ UNCHANGED <<enc, jsize, stamp, avail, forceNext, ready, awaiting, deadline, halting,
                       jetDevice, shown>>
    BY <1>16 DEF DqAborts, DqEnds
  <2>2. "ended" \in DqPoints
    BY DEF DqPoints
  <2> QED BY <1>d, <2>1, <2>2 DEF Live
<1>17. CASE ReclaimOutputBuffer
  <2>1. /\ UNCHANGED <<enc, jsize, stamp, tasks, forceNext, jetFlags, inq, coded, drc, shown>>
        /\ dq.at = "reclaim"
    BY <1>17 DEF ReclaimOutputBuffer
  <2>2. "arrived" \in DqPoints /\ "confirm" \in DqPoints
    BY DEF DqPoints
  <2>3. CASE dq.owe > 0
    <3>1. dq' = [dq EXCEPT !.owe = @ - 1] /\ spent' \in Nat /\ avail' \in Nat
      BY <1>17, <2>3 DEF ReclaimOutputBuffer
    <3>2. dq.owe - 1 \in Nat
      BY <2>3
    <3>3. dq' \in [at : DqPoints, f : Image, await : BOOLEAN, deliver : BOOLEAN, owe : Nat]
      BY <3>1, <3>2
    <3> QED BY <2>1, <3>1, <3>3 DEF Live
  <2>4. CASE ~ dq.owe > 0
    BY <1>17, <1>d, <1>i, <2>1, <2>2, <2>4 DEF ReclaimOutputBuffer, Live
  <2> QED BY <2>3, <2>4
<1>18. CASE DqConfirms
  <2>1. "relax" \in DqPoints /\ "confirm" \in DqPoints /\ "call" \in DqPoints
    BY DEF DqPoints
  <2> QED BY <1>18, <1>d, <2>1 DEF DqConfirms, Live
<1>19. CASE DqCalls
  BY <1>19, <1>i DEF DqCalls, Live
<1>20. CASE JetStops
  <2>1. <<>> \in Seq(Input) /\ <<>> \in Seq(Image)
    OBVIOUS
  <2> QED BY <1>20, <1>e, <1>p, <2>1 DEF JetStops, Live
<1>21. CASE JetDestroyed
  <2>1. <<>> \in Seq(Nat)
    OBVIOUS
  <2> QED BY <1>21, <1>e, <1>p, <2>1 DEF JetDestroyed, Live
<1>22. CASE UNCHANGED jetVars
  BY <1>22 DEF jetVars, Live
<1> QED BY <1>1, <1>2, <1>3, <1>4, <1>5, <1>6, <1>7, <1>8, <1>9, <1>10, <1>11, <1>12, <1>13,
           <1>14, <1>15, <1>16, <1>17, <1>18, <1>19, <1>20, <1>21, <1>22
        DEF JetNext, JetOwner, JetCapture, JetPasses

LEMMA JetBootsStep ==
    ASSUME JetTypes, JetBoots, JetsonSessionConstants, [JetNext]_jetVars
    PROVE  JetBoots'
<1> USE DEF EncAt, jetDevice, jetFlags
<1>1. CASE JetPasses
  BY <1>1, PassesOf DEF Passed, JetBoots, Booting, JetTypes
<1>2. CASE JetStarts
  BY <1>2 DEF JetStarts, JetTypes, JetBoots, Booting, DqIdle
<1>3. ASSUME enc'.at \notin Booting PROVE JetBoots'
  BY <1>3 DEF JetBoots, Booting
<1>4. ASSUME enc.at \in Booting, ~JetPasses, ~JetStarts PROVE JetBoots'
  <2>1. /\ aborted /\ halting /\ tasks = <<>> /\ inq = <<>> /\ coded = <<>>
        /\ shown.ts = 0 /\ dq.owe = 0 /\ dq.at \in {"none", "idle", "ended"}
    BY <1>4 DEF JetBoots
  <2>2. CASE PrepareCaptureBuffer
    <3>1. enc'.at \in {"idle", "gone"}
      BY <2>2 DEF PrepareCaptureBuffer, JetTypes
    <3> QED BY <3>1, <1>3 DEF Booting
  <2>3. CASE DqFails
    BY <2>1, <2>3 DEF DqFails, DqEnds, JetBoots, Booting, JetTypes
  <2>4. ~(DqTakes \/ DqMatches \/ DqAborts \/ ReclaimOutputBuffer \/ DqConfirms \/ DqCalls
          \/ DeviceCodes \/ DeviceSkips)
    BY <2>1 DEF DqTakes, DqMatches, DqAborts, ReclaimOutputBuffer, DqConfirms, DqCalls,
       DeviceCodes, DeviceSkips, DeviceTook
  <2>5. ~(JetEmplace \/ ConvertI420ToYUV420M \/ JetFill \/ JetQueue \/ JetSetup \/ JetPends
          \/ JetStreamsOn \/ JetStops \/ JetDestroyed \/ DeadlinePasses)
    BY <1>4 DEF JetEmplace, ConvertI420ToYUV420M, JetFill, JetQueue, JetSetup, JetPends,
       JetStreamsOn, JetStops, JetDestroyed, DeadlinePasses, Booting
  <2>6. CASE UNCHANGED jetVars
    BY <2>6 DEF jetVars, JetBoots
  <2> QED BY <1>4, <2>2, <2>3, <2>4, <2>5, <2>6 DEF JetNext, JetOwner, JetCapture, JetPasses
<1>5. ASSUME enc.at \notin Booting, enc'.at \in Booting PROVE FALSE
  <2>1. enc' # enc
    BY <1>5
  <2>2. CASE JetPasses
    <3>1. Passed
      BY <2>2, PassesOf
    <3> QED BY <1>5, <3>1 DEF Passed, Booting
  <2>3. ~(DqFails \/ DqTakes \/ DqMatches \/ DqAborts \/ ReclaimOutputBuffer \/ DqConfirms
          \/ DqCalls \/ DeviceCodes \/ DeviceSkips \/ DeadlinePasses \/ UNCHANGED jetVars)
    BY <2>1 DEF DqFails, DqTakes, DqMatches, DqAborts, ReclaimOutputBuffer, DqConfirms, DqCalls,
       DeviceCodes, DeviceSkips, DeadlinePasses, jetVars
  <2>4. ~(JetStarts \/ PrepareCaptureBuffer)
    BY <1>5 DEF JetStarts, PrepareCaptureBuffer, Booting
  <2>5. ~(JetEmplace \/ ConvertI420ToYUV420M \/ JetFill \/ JetQueue)
    BY <1>5 DEF JetEmplace, ConvertI420ToYUV420M, JetFill, JetQueue, Booting, JetTypes
  <2>6. ~(JetSetup \/ JetPends \/ JetStreamsOn)
    BY <1>5 DEF JetSetup, JetPends, JetStreamsOn, JetUnhealthy, Booting, JetTypes
  <2>7. ~(JetStops \/ JetDestroyed)
    BY <1>5 DEF JetStops, JetDestroyed, Booting, JetTypes
  <2> QED BY <2>2, <2>3, <2>4, <2>5, <2>6, <2>7 DEF JetNext, JetOwner, JetCapture, JetPasses
<1> QED BY <1>1, <1>2, <1>3, <1>4, <1>5

LEMMA JetJoinsStep ==
    ASSUME JetTypes, JetBoots, JetJoins, JetsonSessionConstants, [JetNext]_jetVars
    PROVE  JetJoins'
<1> USE DEF EncAt, jetFlags
<1>1. CASE JetPasses
  BY <1>1, PassesOf DEF Passed, JetJoins
<1>2. CASE JetStops \/ JetDestroyed
  BY <1>2 DEF JetStops, JetDestroyed, JetJoins, JetTypes
<1>3. ASSUME enc' = enc, aborted' = aborted \/ aborted' PROVE JetJoins'
  BY <1>3 DEF JetJoins
<1>4. CASE \/ DqFails \/ DqTakes \/ DqMatches \/ DqAborts \/ ReclaimOutputBuffer \/ DqConfirms
           \/ DqCalls \/ DeviceCodes \/ DeviceSkips \/ DeadlinePasses \/ UNCHANGED jetVars
  BY <1>3, <1>4 DEF DqFails, DqTakes, DqMatches, DqAborts, ReclaimOutputBuffer, DqConfirms,
     DqCalls, DeviceCodes, DeviceSkips, DeadlinePasses, jetVars
<1>5. CASE JetStarts \/ PrepareCaptureBuffer
  BY <1>5 DEF JetStarts, PrepareCaptureBuffer, JetJoins, JetTypes
<1>6. CASE JetEmplace \/ ConvertI420ToYUV420M
  BY <1>6 DEF JetEmplace, ConvertI420ToYUV420M, JetJoins, JetTypes
<1>7. CASE JetFill \/ JetQueue
  BY <1>7 DEF JetFill, JetQueue, JetJoins, JetTypes
<1>8. CASE JetSetup \/ JetPends \/ JetStreamsOn
  BY <1>8 DEF JetSetup, JetPends, JetStreamsOn, JetUnhealthy, JetJoins, JetTypes
<1> QED BY <1>1, <1>2, <1>4, <1>5, <1>6, <1>7, <1>8
        DEF JetNext, JetOwner, JetCapture, JetPasses

-----------------------------------------------------------------------------
(* Numbers.                                                                 *)

LEMMA NewestOf ==
    ASSUME JetTypes
    PROVE  /\ Newest \in Nat /\ enc.ts \in Nat /\ stamp \in Nat /\ dq.f.ts \in Nat /\ shown.ts \in Nat
           /\ \A k \in DOMAIN inq : inq[k] \in Input /\ inq[k].ts \in Nat
           /\ \A k \in DOMAIN coded : coded[k] \in Image /\ coded[k].ts \in Nat
           /\ Live => \A i \in DOMAIN tasks : tasks[i] \in Nat /\ i \in Nat
<1>1. /\ enc.ts \in Nat /\ stamp \in Nat /\ dq.f.ts \in Nat /\ shown.ts \in Nat
  BY DEF JetTypes, Image
<1>2. \A k \in DOMAIN inq : inq[k] \in Input
  BY DEF JetTypes
<1>3. \A k \in DOMAIN coded : coded[k] \in Image
  BY DEF JetTypes
<1>4. Live => \A i \in DOMAIN tasks : tasks[i] \in Nat /\ i \in Nat
  BY DEF JetTypes
<1> QED BY <1>1, <1>2, <1>3, <1>4 DEF Newest, Input, Image

\* A step that puts no frame anywhere, and makes none young.
LEMMA NumbersKept ==
    ASSUME JetTypes, JetTypes', Numbers,
           (enc' = enc /\ stamp' = stamp) \/ (enc.at # "queue" /\ enc'.at # "queue"),
           enc'.ts < stamp', Newest' >= Newest,
           inq' \in {inq, <<>>}, coded' \in {coded, <<>>}, shown' = shown,
           dq'.f \in {dq.f, NoCoded}, Delivering' => Delivering /\ dq'.f = dq.f,
           dq'.at \in {"arrived", "relax", "confirm", "call"} => dq'.deliver,
           (tasks' = tasks /\ (Live' => Live))
             \/ (tasks' = <<>> /\ (enc'.at # "queue" \/ ~Live'))
    PROVE  Numbers'
<1>1. NoCoded.ts = 0
  BY DEF NoCoded
<1>2. Newest' \in Nat /\ Newest \in Nat
  BY NewestOf, <1>1 DEF JetTypes, Newest
<1>3. Older'
  BY <1>1, <1>2, NewestOf DEF Numbers, Older
<1>4. TasksRise'
  <2>1. CASE tasks' = <<>> /\ (enc'.at # "queue" \/ ~Live')
    BY <2>1 DEF TasksRise
  <2>2. CASE tasks' = tasks /\ (Live' => Live)
    <3>1. SUFFICES ASSUME Live' PROVE TasksRise'
      BY DEF TasksRise
    <3>2. CASE enc' = enc /\ stamp' = stamp
      BY <2>2, <3>1, <3>2 DEF Numbers, TasksRise, Newest
    <3>3. CASE enc.at # "queue" /\ enc'.at # "queue"
      <4>1. \A i \in DOMAIN tasks : tasks[i] < Newest'
        BY <1>2, <2>2, <3>1, <3>3, NewestOf DEF Numbers, TasksRise
      <4> QED BY <2>2, <3>1, <3>3, <4>1 DEF Numbers, TasksRise
    <3> QED BY <3>2, <3>3
  <2> QED BY <2>1, <2>2
<1>5. ShownBefore'
  BY DEF Numbers, ShownBefore
<1> QED BY <1>3, <1>4, <1>5 DEF Numbers

LEMMA NumbersOwner ==
    ASSUME JetTypes, JetTypes', JetBoots, Numbers, JetsonSessionConstants,
           \/ JetPasses \/ JetStarts \/ PrepareCaptureBuffer \/ JetEmplace \/ ConvertI420ToYUV420M
           \/ JetSetup \/ JetPends \/ JetStreamsOn \/ DeadlinePasses \/ JetStops
           \/ JetDestroyed \/ UNCHANGED jetVars
    PROVE  Numbers'
<1>1. /\ enc.ts < stamp /\ enc.at \in EncPoints /\ Newest \in Nat /\ stamp \in Nat /\ enc.ts \in Nat
      /\ dq.at \in {"arrived", "relax", "confirm", "call"} => dq.deliver
  BY NewestOf DEF Numbers, Older, ShownBefore, JetTypes
<1> USE DEF EncAt, jetDevice, jetFlags
<1>2. CASE JetPasses
  <2>1. Passed
    BY <1>2, PassesOf
  <2>2. /\ UNCHANGED <<stamp, tasks, inq, coded, shown, dq, aborted>> /\ enc'.ts = enc.ts
        /\ enc.at \notin {"fill", "task", "queue"} /\ enc'.at \notin {"fill", "task", "queue"}
    BY <2>1 DEF Passed
  <2>3. Newest' >= Newest
    BY <1>1, <2>2 DEF Newest
  <2> QED BY <1>1, <2>2, <2>3, NumbersKept DEF Delivering, Live
<1>3. CASE JetStarts \/ PrepareCaptureBuffer
  <2>1. /\ UNCHANGED <<stamp, inq, coded, shown>> /\ enc'.ts = enc.ts
        /\ enc.at \notin {"fill", "task", "queue"} /\ enc'.at \notin {"fill", "task", "queue"}
        /\ dq'.f \in {dq.f, NoCoded} /\ dq'.at \in {"none", "idle", "ended"} /\ tasks' = <<>>
    BY <1>3 DEF JetStarts, PrepareCaptureBuffer, JetBoots, Booting, DqIdle, JetTypes
  <2>2. Newest' >= Newest
    BY <1>1, <2>1 DEF Newest
  <2> QED BY <1>1, <2>1, <2>2, NumbersKept DEF Delivering
<1>4. CASE JetEmplace
  <2>1. /\ UNCHANGED <<inq, coded, shown, dq, tasks, aborted>> /\ stamp' = stamp + 1
        /\ enc.at = "idle" /\ (enc' = enc \/ (enc'.at = "fill" /\ enc'.ts = stamp))
    BY <1>4 DEF JetEmplace, JetTypes
  <2>2. Newest' >= Newest /\ enc'.ts < stamp'
    BY <1>1, <2>1 DEF Newest
  <2> QED BY <1>1, <2>1, <2>2, NumbersKept DEF Delivering, Live
<1>5. CASE ConvertI420ToYUV420M
  <2>1. /\ UNCHANGED <<inq, coded, shown, dq, tasks, aborted, stamp>>
        /\ enc.at = "fill" /\ enc'.ts = enc.ts /\ enc'.at \in {"task", "idle"}
    BY <1>5 DEF ConvertI420ToYUV420M, JetTypes
  <2>2. Newest' >= Newest
    BY <1>1, <2>1 DEF Newest
  <2> QED BY <1>1, <2>1, <2>2, NumbersKept DEF Delivering, Live
<1>6. CASE JetSetup \/ JetPends \/ JetStreamsOn \/ DeadlinePasses \/ JetStops \/ UNCHANGED jetVars
  <2>1. /\ UNCHANGED <<shown, dq, tasks, stamp>> /\ (aborted => aborted')
        /\ inq' \in {inq, <<>>} /\ coded' \in {coded, <<>>}
    BY <1>6 DEF JetSetup, JetPends, JetStreamsOn, DeadlinePasses, JetStops, JetUnhealthy, jetVars
  <2>2. \/ enc' = enc
        \/ enc'.ts = enc.ts /\ enc.at \notin {"fill", "task", "queue"}
             /\ enc'.at \notin {"fill", "task", "queue"}
    <3>1. CASE JetSetup
      BY <3>1 DEF JetSetup, JetUnhealthy, JetTypes
    <3>2. CASE JetPends
      BY <3>2 DEF JetPends, JetTypes
    <3>3. CASE JetStreamsOn
      BY <3>3 DEF JetStreamsOn, JetUnhealthy, JetTypes
    <3>4. CASE JetStops
      BY <3>4 DEF JetStops, JetTypes
    <3>5. CASE DeadlinePasses \/ UNCHANGED jetVars
      BY <3>5 DEF DeadlinePasses, jetVars
    <3> QED BY <1>6, <3>1, <3>2, <3>3, <3>4, <3>5
  <2>3. Newest' >= Newest /\ enc'.ts < stamp'
    BY <1>1, <2>1, <2>2 DEF Newest
  <2> QED BY <1>1, <2>1, <2>2, <2>3, NumbersKept DEF Delivering, Live
<1>7. CASE JetDestroyed
  <2>1. /\ UNCHANGED <<shown, dq, stamp, inq, coded>> /\ tasks' = <<>> /\ enc'.ts = enc.ts
        /\ enc.at = "join" /\ enc'.at = "gone"
    BY <1>7 DEF JetDestroyed, JetTypes
  <2>2. Newest' >= Newest
    BY <1>1, <2>1 DEF Newest
  <2> QED BY <1>1, <2>1, <2>2, NumbersKept DEF Delivering
<1> QED BY <1>2, <1>3, <1>4, <1>5, <1>6, <1>7

\* The new task is the youngest; so is the frame on its way to the device, and
\* no other has its number when it gets there or comes back.
LEMMA NumbersFill ==
    ASSUME JetTypes, JetTypes', Numbers, JetFill
    PROVE  Numbers'
<1>1. /\ UNCHANGED <<inq, coded, shown, dq, stamp, aborted>> /\ tasks' = Append(tasks, enc.ts)
      /\ enc.at = "task" /\ enc'.at = "queue" /\ enc'.ts = enc.ts
  BY DEF JetFill, EncAt, JetTypes, jetDevice, jetFlags
<1>2. Newest' = Newest /\ Newest = enc.ts /\ Live' = Live /\ Delivering' = Delivering
  BY <1>1 DEF Newest, Live, Delivering
<1>3. Older'
  BY <1>1, <1>2 DEF Numbers, Older
<1>4. ASSUME Live
      PROVE  /\ tasks \in Seq(Nat) /\ enc.ts \in Nat /\ Len(tasks) \in Nat
             /\ Len(tasks') = Len(tasks) + 1 /\ tasks'[Len(tasks')] = enc.ts /\ tasks' # <<>>
             /\ \A i \in DOMAIN tasks' : i \in Nat /\
                   ((i = Len(tasks') /\ tasks'[i] = enc.ts)
                     \/ (i \in DOMAIN tasks /\ i < Len(tasks') /\ tasks'[i] = tasks[i]))
  <2>1. tasks \in Seq(Nat) /\ enc.ts \in Nat
    BY <1>4 DEF JetTypes
  <2>2. /\ Append(tasks, enc.ts) \in Seq(Nat) /\ Len(tasks) \in Nat
        /\ Len(Append(tasks, enc.ts)) = Len(tasks) + 1
        /\ Append(tasks, enc.ts)[Len(tasks) + 1] = enc.ts
        /\ \A i \in 1 .. Len(tasks) : Append(tasks, enc.ts)[i] = tasks[i]
    BY <2>1, AppendProperties
  <2>3. DOMAIN tasks = 1 .. Len(tasks) /\ DOMAIN tasks' = 1 .. Len(tasks) + 1
    BY <1>1, <2>1, <2>2
  <2> QED BY <1>1, <2>1, <2>2, <2>3
<1>5. ASSUME Live PROVE \A i \in DOMAIN tasks : tasks[i] < enc.ts /\ tasks[i] \in Nat
  BY <1>1, <1>2, <1>5, NewestOf DEF Numbers, TasksRise
<1>6. TasksRise'
  <2>1. SUFFICES ASSUME Live PROVE TasksRise'
    BY <1>2 DEF TasksRise
  <2>2. \A i, j \in DOMAIN tasks : i < j => tasks[i] < tasks[j]
    BY <2>1 DEF Numbers, TasksRise
  <2>3. \A i, j \in DOMAIN tasks' : i < j => tasks'[i] < tasks'[j]
    BY <1>4, <1>5, <2>1, <2>2
  <2> QED BY <1>1, <1>2, <1>4, <1>5, <2>1, <2>3 DEF TasksRise
<1>7. ShownBefore'
  BY <1>1, <1>2, <1>4 DEF Numbers, ShownBefore, Older, Delivering
<1> QED BY <1>3, <1>6, <1>7 DEF Numbers

LEMMA NumbersQueue ==
    ASSUME JetTypes, JetTypes', Numbers, JetQueue
    PROVE  Numbers'
<1>1. /\ UNCHANGED <<coded, shown, dq, stamp, aborted, jsize>>
      /\ enc.at = "queue" /\ enc'.at = "idle" /\ enc'.ts = enc.ts
      /\ \/ inq' = inq
         \/ inq' = Append(inq, [ts |-> enc.ts, size |-> jsize, forced |-> forceNext])
      /\ tasks' = tasks \/ tasks' = SubSeq(tasks, 1, Len(tasks) - 1)
  BY DEF JetQueue, EncAt, JetTypes, jetFlags
<1>2. /\ Newest' = stamp /\ Newest = enc.ts /\ enc.ts < stamp /\ stamp \in Nat /\ enc.ts \in Nat
      /\ Live' = Live /\ Delivering' = Delivering
  BY <1>1, NewestOf DEF Newest, Live, Delivering, Numbers, Older
<1>3. \A k \in DOMAIN inq' : inq'[k].ts < stamp
  <2>1. \A k \in DOMAIN inq : inq[k].ts < stamp
    BY <1>2, NewestOf DEF Numbers, Older
  <2>2. inq \in Seq(Input) /\ [ts |-> enc.ts, size |-> jsize, forced |-> forceNext] \in Input
    BY <1>2 DEF JetTypes, Input
  <2>3. CASE inq' = Append(inq, [ts |-> enc.ts, size |-> jsize, forced |-> forceNext])
    BY <1>2, <2>1, <2>2, <2>3
  <2> QED BY <1>1, <2>1, <2>3
<1>4. Older'
  BY <1>1, <1>2, <1>3, NewestOf DEF Numbers, Older
<1>5. ASSUME Live
      PROVE  /\ \A i \in DOMAIN tasks' : i \in DOMAIN tasks /\ tasks'[i] = tasks[i]
             /\ \A i \in DOMAIN tasks : tasks[i] < stamp
  <2>1. tasks \in Seq(Nat) /\ tasks # <<>>
    BY <1>1, <1>5 DEF JetTypes, Numbers, TasksRise
  <2>2. \A i \in DOMAIN tasks : tasks[i] < Newest \/ i = Len(tasks)
    BY <1>5 DEF Numbers, TasksRise
  <2>3. tasks[Len(tasks)] = enc.ts
    BY <1>1, <1>5 DEF Numbers, TasksRise
  <2>4. \A i \in DOMAIN tasks : tasks[i] < stamp
    BY <1>2, <1>5, <2>2, <2>3, NewestOf
  <2>5. \A i \in DOMAIN SubSeq(tasks, 1, Len(tasks) - 1) :
           i \in DOMAIN tasks /\ SubSeq(tasks, 1, Len(tasks) - 1)[i] = tasks[i]
    BY <2>1, FrontOf
  <2> QED BY <1>1, <2>4, <2>5
<1>6. TasksRise'
  BY <1>1, <1>2, <1>5 DEF Numbers, TasksRise
<1>7. ShownBefore'
  BY <1>1, <1>2, <1>5 DEF Numbers, ShownBefore, Delivering
<1> QED BY <1>4, <1>6, <1>7 DEF Numbers

LEMMA NumbersDevice ==
    ASSUME JetTypes, JetTypes', Numbers, DeviceCodes \/ DeviceSkips
    PROVE  Numbers'
<1>1. /\ UNCHANGED <<enc, stamp, tasks, dq, shown, aborted>> /\ DeviceTook
  BY DEF DeviceCodes, DeviceSkips, jetFlags
<1>2. inq \in Seq(Input) /\ inq # <<>> /\ inq' = Tail(inq) /\ Head(inq) = inq[1] /\ 1 \in DOMAIN inq
  BY <1>1 DEF DeviceTook, JetTypes
<1>3. Newest' = Newest /\ Live' = Live /\ Delivering' = Delivering
  BY <1>1 DEF Newest, Live, Delivering
<1>4. \A k \in DOMAIN inq' : inq'[k].ts < Newest
  BY <1>2 DEF Numbers, Older
<1>5. \A b \in BOOLEAN : Coded(b).ts < Newest
  BY <1>2 DEF Coded, Numbers, Older
<1>6. \A k \in DOMAIN coded' : coded'[k].ts < Newest
  <2>1. \A k \in DOMAIN coded : coded[k].ts < Newest
    BY DEF Numbers, Older
  <2>2. coded \in Seq(Image)
    BY DEF JetTypes
  <2>3. ASSUME NEW b \in BOOLEAN, coded' = Append(coded, Coded(b))
        PROVE  \A k \in DOMAIN coded' : coded'[k].ts < Newest
    <3> DEFINE c == Coded(b)
    <3>1. coded' = Append(coded, c) /\ c.ts < Newest
      BY <1>5, <2>3
    <3> HIDE DEF c
    <3> QED BY <2>1, <2>2, <3>1
  <2>4. ASSUME coded' = coded \o <<Coded(FALSE), Coded(TRUE)>>
        PROVE  \A k \in DOMAIN coded' : coded'[k].ts < Newest
    <3> DEFINE c == Coded(FALSE)
               d == Coded(TRUE)
    <3>1. coded' = coded \o <<c, d>> /\ c.ts < Newest /\ d.ts < Newest
      BY <1>5, <2>4
    <3> HIDE DEF c, d
    <3> QED BY <2>1, <2>2, <3>1
  <2> QED BY <2>1, <2>3, <2>4 DEF DeviceCodes, DeviceSkips
<1>7. Older'
  BY <1>1, <1>3, <1>4, <1>6 DEF Numbers, Older
<1> QED BY <1>1, <1>3, <1>7 DEF Numbers, TasksRise, ShownBefore, Delivering

LEMMA NumbersMatch ==
    ASSUME JetTypes, JetTypes', Numbers, DqMatches
    PROVE  Numbers'
<1>1. UNCHANGED <<enc, jsize, stamp, avail, jetFlags, jetDevice, shown>> /\ dq.at = "match" /\ Live
      /\ tasks \in Seq(Nat)
  BY DEF DqMatches, JetTypes, Live
<1>2. CASE \E i \in DOMAIN tasks : tasks[i] = dq.f.ts
  <2> DEFINE gone == IF dq.deliver THEN Matched ELSE Matched - 1
  <2>1. /\ Matched \in DOMAIN tasks /\ tasks[Matched] = dq.f.ts
        /\ Matched \in Nat \ {0} /\ Matched =< Len(tasks) /\ Len(tasks) \in Nat
    BY <1>1, <1>2, MatchedOf
  <2>2. gone \in Nat /\ gone =< Matched /\ gone =< Len(tasks) /\ (dq.deliver => gone = Matched)
    BY <2>1
  <2>3. tasks' = SubSeq(tasks, gone + 1, Len(tasks)) /\ dq' = [dq EXCEPT !.at = "reclaim", !.owe = gone]
    BY <1>2 DEF DqMatches, MatchTask, Matched
  <2> HIDE DEF gone
  <2>4. /\ tasks' \in Seq(Nat) /\ Len(tasks') = Len(tasks) - gone
        /\ \A i \in DOMAIN tasks' : i \in Nat \ {0} /\ i + gone \in DOMAIN tasks /\ tasks'[i] = tasks[i + gone]
    BY <1>1, <2>2, <2>3, RestOf
  <2>5. dq'.at = "reclaim" /\ dq'.f = dq.f /\ dq'.deliver = dq.deliver /\ Newest' = Newest /\ Live'
    BY <1>1, <2>3 DEF JetTypes, Newest, Live
  <2>6. Older'
    BY <1>1, <2>5 DEF Numbers, Older, jetDevice
  <2>7. /\ \A i, j \in DOMAIN tasks : i < j => tasks[i] < tasks[j]
        /\ \A i \in DOMAIN tasks : tasks[i] < Newest \/ (enc.at = "queue" /\ i = Len(tasks))
        /\ enc.at = "queue" => tasks # <<>> /\ tasks[Len(tasks)] = enc.ts
    BY <1>1 DEF Numbers, TasksRise
  <2>8. \A i, j \in DOMAIN tasks' : i < j => tasks'[i] < tasks'[j]
    <3> SUFFICES ASSUME NEW i \in DOMAIN tasks', NEW j \in DOMAIN tasks', i < j
                 PROVE  tasks'[i] < tasks'[j]
      OBVIOUS
    <3>1. i + gone < j + gone /\ i + gone \in DOMAIN tasks /\ j + gone \in DOMAIN tasks
      BY <2>2, <2>4
    <3> QED BY <2>4, <2>7, <3>1
  <2>9. \A i \in DOMAIN tasks' : tasks'[i] < Newest' \/ (enc'.at = "queue" /\ i = Len(tasks'))
    <3> SUFFICES ASSUME NEW i \in DOMAIN tasks' PROVE tasks'[i] < Newest' \/ (enc'.at = "queue" /\ i = Len(tasks'))
      OBVIOUS
    <3>1. i \in Nat /\ i + gone \in DOMAIN tasks /\ tasks'[i] = tasks[i + gone]
      BY <2>4
    <3>2. tasks[i + gone] < Newest \/ (enc.at = "queue" /\ i + gone = Len(tasks))
      BY <2>7, <3>1
    <3>3. i + gone = Len(tasks) => i = Len(tasks')
      BY <2>1, <2>2, <2>4, <3>1
    <3> QED BY <1>1, <2>5, <3>1, <3>2, <3>3
  <2>10. ASSUME enc.at = "queue" PROVE tasks' # <<>> /\ tasks'[Len(tasks')] = enc.ts
    <3>1. dq.f.ts < enc.ts /\ enc.ts \in Nat /\ dq.f.ts \in Nat
      BY <2>10, NewestOf DEF Numbers, Older, Newest
    <3>2. Matched # Len(tasks)
      BY <2>1, <2>7, <2>10, <3>1
    <3>3. Len(tasks') >= 1 /\ Len(tasks') \in DOMAIN tasks' /\ Len(tasks') + gone = Len(tasks)
      BY <2>1, <2>2, <2>4, <3>2
    <3> QED BY <2>4, <2>7, <2>10, <3>3
  <2>11. TasksRise'
    BY <1>1, <2>8, <2>9, <2>10 DEF TasksRise
  <2>12. \A i \in DOMAIN tasks' : shown.ts < tasks'[i] /\ (dq.deliver => dq.f.ts < tasks'[i])
    <3> SUFFICES ASSUME NEW i \in DOMAIN tasks'
                 PROVE  shown.ts < tasks'[i] /\ (dq.deliver => dq.f.ts < tasks'[i])
      OBVIOUS
    <3>1. i \in Nat \ {0} /\ i + gone \in DOMAIN tasks /\ tasks'[i] = tasks[i + gone]
      BY <2>4
    <3>2. shown.ts < tasks[i + gone]
      BY <1>1, <3>1 DEF Numbers, ShownBefore
    <3>3. dq.deliver => Matched < i + gone
      BY <2>1, <2>2, <3>1
    <3> QED BY <2>1, <2>7, <3>1, <3>2, <3>3
  <2>13. shown.ts < dq.f.ts
    BY <1>1, <2>1 DEF Numbers, ShownBefore
  <2>14. ShownBefore'
    BY <1>1, <2>5, <2>12, <2>13 DEF ShownBefore, Delivering
  <2> QED BY <2>6, <2>11, <2>14 DEF Numbers
<1>3. CASE ~ \E i \in DOMAIN tasks : tasks[i] = dq.f.ts
  <2>1. /\ UNCHANGED tasks /\ dq'.f \in {dq.f, NoCoded} /\ dq'.at \in {"idle", "ended"}
    BY <1>3 DEF DqMatches, DqIdle, JetTypes
  <2>2. enc.ts < stamp /\ Newest' = Newest /\ Newest \in Nat
    BY <1>1, NewestOf DEF Numbers, Older, Newest
  <2> QED BY <1>1, <2>1, <2>2, NumbersKept DEF Delivering, jetDevice
<1> QED BY <1>2, <1>3

LEMMA NumbersCapture ==
    ASSUME JetTypes, JetTypes', JetBoots, Numbers,
           DqFails \/ DqTakes \/ DqAborts \/ ReclaimOutputBuffer \/ DqConfirms \/ DqCalls
    PROVE  Numbers'
<1>1. /\ UNCHANGED <<enc, stamp, inq>> /\ Newest' = Newest /\ Newest \in Nat /\ enc.ts < stamp
  BY NewestOf DEF DqFails, DqTakes, DqAborts, ReclaimOutputBuffer, DqConfirms, DqCalls,
     Numbers, Older, Newest, jetDevice
<1>2. CASE DqFails
  <2>1. /\ UNCHANGED <<tasks, coded, shown>> /\ dq.at = "idle" /\ Live /\ dq'.f = dq.f /\ dq'.at = "ended"
    BY <1>2 DEF DqFails, DqEnds, Live, jetDevice, JetTypes
  <2> QED BY <1>1, <2>1, NumbersKept DEF Delivering
<1>3. CASE DqTakes
  <2>1. /\ UNCHANGED <<tasks, shown, aborted>> /\ dq.at = "idle" /\ Live
        /\ dq'.f \in {dq.f, Head(coded)} /\ dq'.at \in {"match", "ended"}
        /\ coded' = Tail(coded) /\ coded # <<>> /\ coded \in Seq(Image)
    BY <1>3 DEF DqTakes, DqEnds, Live, JetTypes, jetFlags
  <2>2. \A k \in DOMAIN coded : coded[k].ts < Newest
    BY DEF Numbers, Older
  <2>3. Head(coded).ts < Newest /\ \A k \in DOMAIN coded' : coded'[k].ts < Newest
    BY <2>1, <2>2
  <2>4. Older'
    BY <1>1, <2>1, <2>3 DEF Numbers, Older
  <2> QED BY <1>1, <2>1, <2>4 DEF Numbers, TasksRise, ShownBefore, Delivering, Live
<1>4. CASE DqAborts
  <2>1. /\ UNCHANGED <<coded, shown>> /\ dq'.f = dq.f /\ dq'.at = "ended" /\ aborted'
    BY <1>4 DEF DqAborts, DqEnds, jetDevice, JetTypes
  <2>2. Older'
    BY <1>1, <2>1 DEF Numbers, Older
  <2> QED BY <2>1, <2>2 DEF Numbers, TasksRise, ShownBefore, Delivering, Live
<1>5. CASE ReclaimOutputBuffer
  <2>1. /\ UNCHANGED <<tasks, coded, shown, aborted>> /\ dq.at = "reclaim" /\ Live
        /\ dq'.f \in {dq.f, NoCoded}
        /\ \/ dq'.at = "idle"
           \/ /\ dq'.at \in {"reclaim", "arrived", "confirm"} /\ dq'.f = dq.f /\ dq'.deliver = dq.deliver
              /\ dq'.at # "reclaim" => dq.deliver
    <3>1. UNCHANGED <<tasks, coded, shown, aborted>> /\ dq.at = "reclaim"
      BY <1>5 DEF ReclaimOutputBuffer, jetFlags
    <3>2. \/ dq' = [dq EXCEPT !.owe = dq.owe - 1]
          \/ dq' = DqIdle
          \/ /\ dq.deliver
             /\ \E p \in {"arrived", "confirm"} : dq' = [dq EXCEPT !.at = p]
      BY <1>5 DEF ReclaimOutputBuffer
    <3>3. DqIdle.at = "idle" /\ DqIdle.f = NoCoded
      BY DEF DqIdle
    <3> QED BY <3>1, <3>2, <3>3 DEF Live, JetTypes
  <2> QED BY <1>1, <2>1, NumbersKept DEF Delivering
<1>6. CASE DqConfirms
  <2>1. /\ UNCHANGED <<tasks, coded, shown, aborted>> /\ dq.at \in {"arrived", "relax", "confirm"} /\ Live
        /\ dq'.f = dq.f /\ dq'.at \in {"relax", "confirm", "call"} /\ dq'.deliver = dq.deliver
    BY <1>6 DEF DqConfirms, Live, JetTypes, jetDevice
  <2>2. dq.deliver
    BY <2>1 DEF Numbers, ShownBefore
  <2> QED BY <1>1, <2>1, <2>2, NumbersKept DEF Delivering
<1>7. CASE DqCalls
  <2>1. /\ UNCHANGED <<tasks, coded, aborted>> /\ dq.at = "call" /\ Live /\ Live' /\ shown' = dq.f
        /\ dq'.f = NoCoded /\ dq'.at = "idle" /\ NoCoded.ts = 0 /\ dq'.f.ts = 0
    BY <1>7 DEF DqCalls, DqIdle, Live, JetTypes, jetFlags, jetDevice, NoCoded
  <2>2. dq.deliver /\ Delivering
    BY <2>1 DEF Numbers, ShownBefore, Delivering
  <2>3. dq.f.ts < Newest /\ dq.f.ts \in Nat
    BY NewestOf DEF Numbers, Older
  <2>4. Older'
    BY <1>1, <2>1, <2>3 DEF Numbers, Older
  <2> QED BY <1>1, <2>1, <2>2, <2>4 DEF Numbers, TasksRise, ShownBefore, Delivering
<1> QED BY <1>2, <1>3, <1>4, <1>5, <1>6, <1>7

LEMMA NumbersStep ==
    ASSUME JetTypes, JetTypes', JetBoots, Numbers, JetsonSessionConstants, [JetNext]_jetVars
    PROVE  Numbers'
BY NumbersOwner, NumbersFill, NumbersQueue, NumbersDevice, NumbersMatch, NumbersCapture
   DEF JetNext, JetOwner, JetCapture, JetPasses

-----------------------------------------------------------------------------
(* Buffers.                                                                 *)

Held == IF enc.at \in {"fill", "task"} THEN 1 ELSE 0
Sound == ~aborted /\ ~halting

\* A buffer that moves from one place to another changes no sum.
LEMMA Regroup ==
    ASSUME NEW a \in Nat, NEW l \in Nat, NEW o \in Nat, NEW h \in Nat
    PROVE  /\ a # 0 => (a - 1) + l + o + 1 = a + l + o + 0
           /\ (a + 1) + l + o + 0 = a + l + o + 1
           /\ l # 0 => (a + 1) + (l - 1) + o + h = a + l + o + h
           /\ a + (l + 1) + o + 0 = a + l + o + 1
           /\ o # 0 => (a + 1) + l + (o - 1) + h = a + l + o + h
OBVIOUS

\* A step that moves no buffer.
LEMMA AccountKept ==
    ASSUME Account, UNCHANGED <<avail, tasks>>, Sound' => Sound, Held' = Held,
           dq'.owe = dq.owe, Live' /\ dq'.at # "reclaim" => dq'.owe = 0,
           enc'.at \in {"tasks", "setup"} /\ Sound' => avail = BUFFER_NUM
    PROVE  Account'
<1>1. ASSUME Sound PROVE avail + Len(tasks) + dq.owe + Held = BUFFER_NUM
  BY <1>1 DEF Account, BuffersAccounted, Held, Sound
<1>2. ASSUME Sound' PROVE avail' + Len(tasks') + dq'.owe + Held' = BUFFER_NUM
  BY <1>1, <1>2
<1>3. BuffersAccounted'
  BY <1>2 DEF BuffersAccounted, Held, Sound
<1> QED BY <1>3 DEF Account, Sound

\* One that moves some.
LEMMA AccountMoved ==
    ASSUME Sound' => avail' + Len(tasks') + dq'.owe + Held' = BUFFER_NUM,
           Live' /\ dq'.at # "reclaim" => dq'.owe = 0,
           enc'.at \in {"tasks", "setup"} /\ Sound' => avail' = BUFFER_NUM
    PROVE  Account'
BY DEF Account, BuffersAccounted, Held, Sound

LEMMA AccountOf ==
    ASSUME JetTypes, Account, JetsonSessionConstants
    PROVE  /\ avail \in Nat /\ dq.owe \in Nat /\ BUFFER_NUM \in Nat
           /\ Live => tasks \in Seq(Nat) /\ Len(tasks) \in Nat
           /\ Sound => Live /\ avail + Len(tasks) + dq.owe + Held = BUFFER_NUM
           /\ Live /\ dq.at # "reclaim" => dq.owe = 0
           /\ enc.at \in {"tasks", "setup"} /\ Sound => avail = BUFFER_NUM
BY DEF JetTypes, Account, BuffersAccounted, Held, Sound, Live, JetsonSessionConstants

\* While the plane is drained nothing has a buffer.
LEMMA DrainedAccount ==
    ASSUME JetTypes, Account, JetsonSessionConstants, Sound, avail = BUFFER_NUM
    PROVE  tasks = <<>> /\ dq.owe = 0 /\ Held = 0
<1>1. /\ tasks \in Seq(Nat) /\ Len(tasks) \in Nat /\ dq.owe \in Nat /\ BUFFER_NUM \in Nat
      /\ BUFFER_NUM + Len(tasks) + dq.owe + Held = BUFFER_NUM /\ Held \in {0, 1}
  BY AccountOf DEF Held
<1>2. Len(tasks) = 0 /\ dq.owe = 0 /\ Held = 0
  BY <1>1
<1> QED BY <1>1, <1>2, EmptySeq

LEMMA AccountOwner ==
    ASSUME JetTypes, JetBoots, JetJoins, Account, JetsonSessionConstants,
           \/ JetPasses \/ JetStarts \/ PrepareCaptureBuffer \/ JetEmplace \/ ConvertI420ToYUV420M
           \/ JetSetup \/ JetPends \/ JetStreamsOn \/ DeadlinePasses \/ JetStops
           \/ JetDestroyed \/ UNCHANGED jetVars
    PROVE  Account'
<1> USE DEF EncAt, jetFlags
<1>1. /\ avail \in Nat /\ dq.owe \in Nat /\ BUFFER_NUM \in Nat
      /\ Sound => Live /\ avail + Len(tasks) + dq.owe + Held = BUFFER_NUM
      /\ Live => Len(tasks) \in Nat
      /\ Live /\ dq.at # "reclaim" => dq.owe = 0
      /\ enc.at \in {"tasks", "setup"} /\ Sound => avail = BUFFER_NUM
  BY AccountOf
<1>2. CASE JetPasses
  <2>1. Passed
    BY <1>2, PassesOf
  <2>2. /\ UNCHANGED <<avail, tasks, dq, aborted, halting>> /\ Held' = Held
        /\ enc'.at = "tasks" => avail = BUFFER_NUM
        /\ enc'.at = "setup" => enc.at = "tasks"
    BY <2>1 DEF Passed, Held
  <2> QED BY <1>1, <2>2, AccountKept DEF Sound, Live
<1>3. CASE JetStarts
  <2>1. /\ UNCHANGED <<avail, tasks, aborted, halting>> /\ dq.owe = 0 /\ aborted
        /\ dq'.owe = 0 /\ Held' = Held /\ enc'.at \notin {"tasks", "setup"}
    BY <1>3 DEF JetStarts, JetBoots, Booting, DqIdle, Held, JetTypes
  <2> QED BY <2>1, AccountKept DEF Sound
<1>4. CASE PrepareCaptureBuffer
  <2>1. /\ tasks' = <<>> /\ dq'.owe = 0 /\ Held' = 0 /\ enc'.at \notin {"tasks", "setup"}
        /\ (avail' = BUFFER_NUM \/ aborted')
    BY <1>4 DEF PrepareCaptureBuffer, JetBoots, Booting, Held, JetTypes, ResetAvailableOutputBuffers
  <2>2. Sound' => avail' + Len(tasks') + dq'.owe + Held' = BUFFER_NUM
    BY <1>1, <2>1 DEF Sound
  <2> QED BY <2>1, <2>2, AccountMoved
<1>5. CASE JetEmplace
  <2>1. /\ UNCHANGED <<tasks, dq, aborted, halting>> /\ enc.at = "idle" /\ Held = 0
        /\ \/ avail' = avail /\ enc' = enc
           \/ avail # 0 /\ avail' = avail - 1 /\ enc'.at = "fill" /\ Held' = 1
    BY <1>5 DEF JetEmplace, Held, JetTypes
  <2>2. CASE avail' = avail /\ enc' = enc
    BY <1>1, <2>1, <2>2, AccountKept DEF Sound, Held, Live
  <2>3. CASE avail # 0 /\ avail' = avail - 1 /\ enc'.at = "fill" /\ Held' = 1
    <3>1. ASSUME Sound PROVE avail' + Len(tasks') + dq'.owe + Held' = BUFFER_NUM
      <4>1. (avail - 1) + Len(tasks) + dq.owe + 1 = avail + Len(tasks) + dq.owe + 0
        BY <1>1, <2>3, <3>1, Regroup
      <4> QED BY <1>1, <2>1, <2>3, <3>1, <4>1
    <3> QED BY <1>1, <2>1, <2>3, <3>1, AccountMoved DEF Sound, Live
  <2> QED BY <2>1, <2>2, <2>3
<1>6. CASE ConvertI420ToYUV420M
  <2>1. /\ UNCHANGED <<tasks, dq, aborted, halting>> /\ enc.at = "fill" /\ Held = 1
        /\ \/ avail' = avail /\ enc'.at = "task" /\ Held' = 1
           \/ avail' = avail + 1 /\ enc'.at = "idle" /\ Held' = 0
    BY <1>6 DEF ConvertI420ToYUV420M, Held, JetTypes
  <2>2. CASE avail' = avail /\ enc'.at = "task" /\ Held' = 1
    BY <1>1, <2>1, <2>2, AccountKept DEF Sound, Live
  <2>3. CASE avail' = avail + 1 /\ enc'.at = "idle" /\ Held' = 0
    <3>1. ASSUME Sound PROVE avail' + Len(tasks') + dq'.owe + Held' = BUFFER_NUM
      <4>1. (avail + 1) + Len(tasks) + dq.owe + 0 = avail + Len(tasks) + dq.owe + 1
        BY <1>1, <3>1, Regroup
      <4> QED BY <1>1, <2>1, <2>3, <3>1, <4>1
    <3> QED BY <1>1, <2>1, <2>3, <3>1, AccountMoved DEF Sound, Live
  <2> QED BY <2>1, <2>2, <2>3
<1>7. CASE JetSetup
  <2>1. /\ UNCHANGED <<tasks, dq, halting>> /\ enc.at = "setup" /\ enc'.at \in {"failed", "ready"}
        /\ Held = 0 /\ Held' = 0 /\ (avail' = avail \/ avail' = BUFFER_NUM)
        /\ (aborted' = aborted \/ aborted')
    BY <1>7 DEF JetSetup, JetUnhealthy, ResetAvailableOutputBuffers, Held, JetTypes
  <2>2. ASSUME Sound' PROVE avail' + Len(tasks') + dq'.owe + Held' = BUFFER_NUM
    <3>1. Sound /\ avail = BUFFER_NUM
      BY <1>1, <2>1, <2>2 DEF Sound
    <3> QED BY <1>1, <2>1, <3>1
  <2> QED BY <1>1, <2>1, <2>2, AccountMoved DEF Live
<1>8. CASE JetPends
  <2>1. /\ UNCHANGED <<avail, tasks, dq, aborted, halting>> /\ Held' = Held
        /\ enc'.at \notin {"tasks", "setup"}
    BY <1>8 DEF JetPends, Held, JetTypes
  <2> QED BY <1>1, <2>1, AccountKept DEF Sound, Live
<1>9. CASE JetStreamsOn
  <2>1. /\ UNCHANGED <<avail, tasks, dq, halting>> /\ Held' = Held
        /\ (aborted' = aborted \/ aborted')
        /\ enc'.at \notin {"tasks", "setup"}
    BY <1>9 DEF JetStreamsOn, JetUnhealthy, Held, JetTypes
  <2> QED BY <1>1, <2>1, AccountKept DEF Sound, Live
<1>10. CASE DeadlinePasses \/ UNCHANGED jetVars
  <2>1. UNCHANGED <<enc, avail, tasks, dq, aborted, halting>>
    BY <1>10 DEF DeadlinePasses, jetVars
  <2> QED BY <1>1, <2>1, AccountKept DEF Sound, Held, Live
<1>11. CASE JetStops
  <2>1. UNCHANGED <<avail, tasks, dq>> /\ Held' = Held /\ aborted' /\ enc'.at = "join"
    BY <1>11 DEF JetStops, Held, JetTypes
  <2> QED BY <1>1, <2>1, AccountKept DEF Sound, Live
<1>12. CASE JetDestroyed
  <2>1. /\ UNCHANGED <<dq, aborted, halting>> /\ enc.at = "join" /\ enc'.at = "gone" /\ dq.at = "ended"
        /\ Held = 0 /\ Held' = 0 /\ avail' = avail /\ tasks' = <<>> /\ aborted
    BY <1>12 DEF JetDestroyed, Held, JetTypes, JetJoins
  <2> QED BY <1>1, <2>1, AccountMoved DEF Sound, Live
<1> QED BY <1>2, <1>3, <1>4, <1>5, <1>6, <1>7, <1>8, <1>9, <1>10, <1>11, <1>12

LEMMA AccountQueue ==
    ASSUME JetTypes, Numbers, Account, JetsonSessionConstants, JetFill \/ JetQueue
    PROVE  Account'
<1>1. /\ avail \in Nat /\ dq.owe \in Nat /\ BUFFER_NUM \in Nat
      /\ Sound => Live /\ avail + Len(tasks) + dq.owe + Held = BUFFER_NUM
      /\ Live => tasks \in Seq(Nat) /\ Len(tasks) \in Nat
      /\ Live /\ dq.at # "reclaim" => dq.owe = 0
  BY AccountOf
<1>2. UNCHANGED <<dq, aborted, halting>>
  BY DEF JetFill, JetQueue, jetFlags
<1>3. CASE JetFill
  <2>1. /\ enc.at = "task" /\ enc'.at = "queue" /\ Held = 1 /\ Held' = 0 /\ avail' = avail
        /\ tasks' = Append(tasks, enc.ts) /\ enc.ts \in Nat
    BY <1>3 DEF JetFill, EncAt, JetTypes, Held
  <2>2. Sound => Len(tasks') = Len(tasks) + 1
    BY <1>1, <2>1, AppendProperties
  <2>3. ASSUME Sound PROVE avail' + Len(tasks') + dq'.owe + Held' = BUFFER_NUM
    <3>1. avail + Len(tasks) + dq.owe + 1 = BUFFER_NUM /\ Len(tasks) \in Nat
      BY <1>1, <2>1, <2>3
    <3> QED BY <1>1, <1>2, <2>1, <2>2, <2>3, <3>1
  <2> QED BY <1>1, <1>2, <2>1, <2>3, AccountMoved DEF Sound, Live
<1>4. CASE JetQueue
  <2>1. /\ enc.at = "queue" /\ enc'.at = "idle" /\ Held = 0 /\ Held' = 0
        /\ \/ avail' = avail /\ tasks' = tasks
           \/ avail' = avail + 1 /\ (tasks # <<>> => tasks' = SubSeq(tasks, 1, Len(tasks) - 1))
    BY <1>4 DEF JetQueue, EncAt, JetTypes, Held
  <2>2. Sound => tasks # <<>>
    BY <1>1, <2>1 DEF Numbers, TasksRise
  <2>3. Sound => Len(SubSeq(tasks, 1, Len(tasks) - 1)) = Len(tasks) - 1
    <3> SUFFICES ASSUME Sound PROVE Len(SubSeq(tasks, 1, Len(tasks) - 1)) = Len(tasks) - 1
      OBVIOUS
    <3>1. tasks \in Seq(Nat) /\ tasks # <<>>
      BY <1>1, <2>2
    <3> QED BY <3>1, FrontOf
  <2>4. ASSUME Sound PROVE avail' + Len(tasks') + dq'.owe + Held' = BUFFER_NUM
    <3>1. avail + Len(tasks) + dq.owe + 0 = BUFFER_NUM /\ Len(tasks) \in Nat
      BY <1>1, <2>1, <2>4
    <3>2. tasks # <<>> /\ tasks \in Seq(Nat)
      BY <1>1, <2>2, <2>4
    <3>3. Len(tasks) \in Nat \ {0}
      BY <3>2, EmptySeq
    <3>4. CASE avail' = avail /\ tasks' = tasks
      BY <1>1, <1>2, <2>1, <3>1, <3>4
    <3>5. CASE avail' = avail + 1 /\ tasks' = SubSeq(tasks, 1, Len(tasks) - 1)
      <4>1. Len(tasks') = Len(tasks) - 1
        BY <2>3, <2>4, <3>5
      <4>2. Len(tasks) # 0 => (avail + 1) + (Len(tasks) - 1) + dq.owe + 0 = avail + Len(tasks) + dq.owe + 0
        BY <1>1, <3>1, Regroup
      <4> QED BY <1>2, <2>1, <3>1, <3>3, <3>5, <4>1, <4>2
    <3> QED BY <2>1, <3>2, <3>4, <3>5
  <2> QED BY <1>1, <1>2, <2>1, <2>4, AccountMoved DEF Sound, Live
<1> QED BY <1>3, <1>4

\* A buffer for every task that goes is owed until it is given back.
LEMMA AccountMatch ==
    ASSUME JetTypes, Account, JetsonSessionConstants, DqMatches
    PROVE  Account'
<1>1. /\ avail \in Nat /\ dq.owe \in Nat /\ BUFFER_NUM \in Nat /\ dq.at = "match" /\ Live
      /\ Sound => avail + Len(tasks) + dq.owe + Held = BUFFER_NUM
      /\ tasks \in Seq(Nat) /\ Len(tasks) \in Nat /\ dq.owe = 0 /\ Held \in Nat
      /\ enc.at \in {"tasks", "setup"} /\ Sound => avail = BUFFER_NUM
      /\ UNCHANGED <<enc, avail, aborted, halting>> /\ Held' = Held
  BY AccountOf DEF DqMatches, jetFlags, Held, Live
<1>2. CASE \E i \in DOMAIN tasks : tasks[i] = dq.f.ts
  <2> DEFINE gone == IF dq.deliver THEN Matched ELSE Matched - 1
  <2>1. Matched \in DOMAIN tasks
    BY <1>2, MatchedOf
  <2>2. gone \in Nat /\ gone =< Len(tasks)
    BY <1>1, <2>1
  <2>3. tasks' = SubSeq(tasks, gone + 1, Len(tasks)) /\ dq' = [dq EXCEPT !.at = "reclaim", !.owe = gone]
    BY <1>2 DEF DqMatches, MatchTask, Matched
  <2> HIDE DEF gone
  <2>4. Len(tasks') = Len(tasks) - gone
    BY <1>1, <2>2, <2>3, RestOf
  <2>5. dq'.owe = gone /\ dq'.at = "reclaim"
    BY <2>3 DEF JetTypes
  <2>6. Sound' => avail' + Len(tasks') + dq'.owe + Held' = BUFFER_NUM
    BY <1>1, <2>2, <2>4, <2>5 DEF Sound
  <2> QED BY <1>1, <2>5, <2>6, AccountMoved DEF Sound
<1>3. CASE ~ \E i \in DOMAIN tasks : tasks[i] = dq.f.ts
  <2>1. tasks' = tasks /\ dq'.owe = 0
    BY <1>1, <1>3 DEF DqMatches, DqIdle, JetTypes
  <2> QED BY <1>1, <2>1, AccountKept DEF Sound
<1> QED BY <1>2, <1>3

LEMMA AccountCapture ==
    ASSUME JetTypes, Account, JetsonSessionConstants,
           \/ DqFails \/ DqTakes \/ DqAborts \/ ReclaimOutputBuffer \/ DqConfirms \/ DqCalls
           \/ DeviceCodes \/ DeviceSkips
    PROVE  Account'
<1>1. /\ avail \in Nat /\ dq.owe \in Nat /\ BUFFER_NUM \in Nat
      /\ Sound => Live /\ avail + Len(tasks) + dq.owe + Held = BUFFER_NUM
      /\ Live => tasks \in Seq(Nat) /\ Len(tasks) \in Nat
      /\ Live /\ dq.at # "reclaim" => dq.owe = 0
      /\ enc.at \in {"tasks", "setup"} /\ Sound => avail = BUFFER_NUM
      /\ UNCHANGED <<enc, halting>> /\ Held' = Held /\ Held \in Nat
  BY AccountOf DEF DqFails, DqTakes, DqAborts, ReclaimOutputBuffer, DqConfirms, DqCalls,
     DeviceCodes, DeviceSkips, jetFlags, Held
<1>2. CASE DqFails \/ DqAborts
  <2>1. aborted' /\ dq'.at = "ended"
    BY <1>2 DEF DqFails, DqAborts, DqEnds, JetTypes
  <2> QED BY <2>1 DEF Account, BuffersAccounted, Live
<1>3. CASE DqTakes
  <2>1. UNCHANGED <<avail, tasks, aborted>> /\ dq.at = "idle"
    BY <1>3 DEF DqTakes, jetFlags
  <2>2. dq.owe = 0 /\ dq'.owe = 0
    BY <1>1, <1>3, <2>1 DEF DqTakes, DqEnds, Live, JetTypes
  <2> QED BY <1>1, <2>1, <2>2, AccountKept DEF Sound
<1>4. CASE DqConfirms \/ DqCalls
  <2>1. /\ UNCHANGED <<avail, tasks, aborted>> /\ dq.at \notin {"reclaim", "ended"}
        /\ dq'.owe \in {0, dq.owe}
    BY <1>4 DEF DqConfirms, DqCalls, DqIdle, jetFlags, JetTypes
  <2>2. dq.owe = 0 /\ dq'.owe = 0
    BY <1>1, <2>1 DEF Live
  <2> QED BY <1>1, <2>1, <2>2, AccountKept DEF Sound
<1>5. CASE DeviceCodes \/ DeviceSkips
  <2>1. UNCHANGED <<avail, tasks, aborted, dq>>
    BY <1>5 DEF DeviceCodes, DeviceSkips, jetFlags
  <2> QED BY <1>1, <2>1, AccountKept DEF Sound, Live
<1>6. CASE ReclaimOutputBuffer
  <2>1. UNCHANGED <<tasks, aborted>> /\ dq.at = "reclaim" /\ Live
    BY <1>6 DEF ReclaimOutputBuffer, jetFlags, Live
  <2>2. CASE dq.owe > 0
    <3>1. avail' = avail + 1 /\ dq'.owe = dq.owe - 1 /\ dq'.at = "reclaim"
      BY <1>6, <2>1, <2>2 DEF ReclaimOutputBuffer, JetTypes
    <3>2. Sound => avail' + Len(tasks') + dq'.owe + Held' = BUFFER_NUM
      BY <1>1, <2>1, <3>1
    <3>3. enc'.at \in {"tasks", "setup"} /\ Sound' => avail' = BUFFER_NUM
      BY <1>1, <2>1, <2>2, DrainedAccount DEF Sound
    <3> QED BY <1>1, <2>1, <3>1, <3>2, <3>3, AccountMoved DEF Sound
  <2>3. CASE ~ dq.owe > 0
    <3>1. UNCHANGED avail /\ dq.owe = 0 /\ dq'.owe = 0
      BY <1>1, <1>6, <2>3 DEF ReclaimOutputBuffer, DqIdle, JetTypes
    <3> QED BY <1>1, <2>1, <3>1, AccountKept DEF Sound
  <2> QED BY <2>2, <2>3
<1> QED BY <1>2, <1>3, <1>4, <1>5, <1>6

LEMMA AccountStep ==
    ASSUME JetTypes, JetBoots, JetJoins, Numbers, Account, JetsonSessionConstants,
           [JetNext]_jetVars
    PROVE  Account'
BY AccountOwner, AccountQueue, AccountMatch, AccountCapture
   DEF JetNext, JetOwner, JetCapture, JetPasses

-----------------------------------------------------------------------------
(* Resolutions.                                                             *)

\* What the switching invariant says of the state before, in one place.
LEMMA SwitchesOf ==
    ASSUME JetTypes, Switches
    PROVE  /\ Live => tasks \in Seq(Nat)
           /\ awaiting \in BOOLEAN /\ jsize \in Nat /\ dq.f \in Image /\ shown \in Image
           /\ SizesOfTasks /\ AwaitsFirst /\ Settled /\ FirstDecodable
BY DEF JetTypes, Switches

\* A step that leaves the sizes and the capture thread's frame alone.
LEMMA SwitchesKept ==
    ASSUME JetTypes, Switches,
           UNCHANGED <<jsize, dq, awaiting, shown>>, Live' => Live,
           tasks' \in {tasks, <<>>}, inq' \in {inq, <<>>}, coded' \in {coded, <<>>},
           Live' /\ enc'.at \in Switching => tasks' = <<>>,
           enc'.at \in {"drain", "tasks", "setup", "ready", "await"} => ~awaiting,
           enc'.at \in {"deadline", "force", "on"} =>
               awaiting /\ ~(dq.at \in {"reclaim", "arrived"} /\ dq.await)
    PROVE  Switches'
<1>1. SizesOfTasks'
  BY DEF Switches, SizesOfTasks
<1>2. AwaitsFirst'
  BY DEF Switches, AwaitsFirst
<1>3. Settled' /\ FirstDecodable'
  BY DEF Switches, Settled, Accepted, Delivering, FirstDecodable, Decodable
<1> QED BY <1>1, <1>2, <1>3 DEF Switches

LEMMA SwitchesOwner ==
    ASSUME JetTypes, JetBoots, Switches, JetsonSessionConstants,
           \/ JetPasses \/ JetEmplace \/ ConvertI420ToYUV420M \/ JetSetup
           \/ JetStops \/ JetDestroyed \/ DeadlinePasses \/ UNCHANGED jetVars
    PROVE  Switches'
<1> USE DEF EncAt, jetFlags, jetDevice
<1>1. /\ Live /\ enc.at \in Switching => tasks = <<>>
      /\ enc.at \in {"drain", "tasks", "setup", "ready", "await"} => ~awaiting
      /\ enc.at \in {"deadline", "force", "on"} =>
               awaiting /\ ~(dq.at \in {"reclaim", "arrived"} /\ dq.await)
  BY DEF Switches, SizesOfTasks, AwaitsFirst
<1>2. CASE JetPasses
  <2>1. Passed
    BY <1>2, PassesOf
  <2>2. /\ UNCHANGED <<jsize, tasks, dq, awaiting, shown, inq, coded, aborted>>
        /\ enc'.at \notin Switching \ {"setup"} /\ (enc'.at = "setup" => tasks = <<>>)
        /\ enc'.at \in {"drain", "tasks", "setup"} => ~awaiting
    BY <1>1, <2>1 DEF Passed, Switching
  <2>3. enc'.at \notin {"ready", "await", "deadline", "force", "on"}
    BY <2>2 DEF Switching
  <2> QED BY <2>2, <2>3, SwitchesKept DEF Live, Switching
<1>3. CASE JetEmplace \/ ConvertI420ToYUV420M \/ JetStops
  <2>1. /\ UNCHANGED <<jsize, tasks, dq, awaiting, shown>> /\ inq' \in {inq, <<>>}
        /\ coded' \in {coded, <<>>} /\ (aborted' = aborted \/ aborted')
        /\ enc'.at \in {"idle", "fill", "task", "join"}
    BY <1>3 DEF JetEmplace, ConvertI420ToYUV420M, JetStops, JetTypes
  <2> QED BY <2>1, SwitchesKept DEF Live, Switching
<1>4. CASE JetSetup
  <2>1. /\ UNCHANGED <<jsize, tasks, dq, awaiting, shown, coded>> /\ inq' \in {inq, <<>>}
        /\ (aborted' = aborted \/ aborted') /\ enc.at = "setup"
        /\ enc'.at \in {"failed", "ready"}
    BY <1>4 DEF JetSetup, JetUnhealthy, JetTypes
  <2> QED BY <1>1, <2>1, SwitchesKept DEF Live, Switching
<1>5. CASE JetDestroyed
  <2>1. /\ UNCHANGED <<jsize, dq, awaiting, shown, coded, inq, aborted>>
        /\ tasks' = <<>> /\ enc'.at = "gone"
    BY <1>5 DEF JetDestroyed, JetTypes
  <2> QED BY <2>1, SwitchesKept DEF Live, Switching
<1>6. CASE DeadlinePasses \/ UNCHANGED jetVars
  <2>1. UNCHANGED <<jsize, dq, awaiting, shown, coded, inq, aborted, tasks, enc>>
    BY <1>6 DEF DeadlinePasses, jetVars
  <2> QED BY <1>1, <2>1, SwitchesKept DEF Live
<1> QED BY <1>2, <1>3, <1>4, <1>5, <1>6

\* The session begins without tasks, images or an awaited resolution to keep.
LEMMA SwitchesBoots ==
    ASSUME JetTypes, JetBoots, Switches, JetStarts \/ PrepareCaptureBuffer
    PROVE  Switches'
<1> USE DEF EncAt, jetFlags, jetDevice
<1>1. /\ tasks' = <<>> /\ shown'.ts = 0 /\ dq'.at \in {"none", "idle", "ended"}
      /\ enc'.at \in {"prepare", "idle", "gone"}
  BY DEF JetStarts, PrepareCaptureBuffer, JetBoots, Booting, DqIdle, JetTypes
<1>2. DOMAIN <<>> = {}
  OBVIOUS
<1> QED BY <1>1, <1>2 DEF Switches, SizesOfTasks, AwaitsFirst, Settled, Accepted, Delivering,
       FirstDecodable, Switching

\* From before the new size is set until it is, the session awaits it.
LEMMA SwitchesPends ==
    ASSUME JetTypes, Switches, Numbers, JetPends \/ JetStreamsOn
    PROVE  Switches'
<1> USE DEF EncAt, jetFlags, jetDevice
<1>1. /\ Live /\ enc.at \in Switching => tasks = <<>>
      /\ enc.at \in {"drain", "tasks", "setup", "ready", "await"} => ~awaiting
      /\ enc.at \in {"deadline", "force", "on"} =>
               awaiting /\ ~(dq.at \in {"reclaim", "arrived"} /\ dq.await)
      /\ dq.at \in {"match", "reclaim", "arrived"} /\ dq.await => awaiting
  BY DEF Switches, SizesOfTasks, AwaitsFirst
<1>2. CASE JetPends /\ enc.at # "await"
  <2>1. /\ UNCHANGED <<jsize, tasks, dq, shown, inq, coded, aborted, awaiting>>
        /\ enc.at \in Switching
        /\ \/ enc.at = "ready" /\ enc'.at = "await"
           \/ enc.at \in {"deadline", "force"} /\ enc'.at \in {"force", "on"}
    BY <1>2 DEF JetPends, Switching, JetTypes
  <2> QED BY <1>1, <2>1, SwitchesKept DEF Live
<1>3. CASE JetPends /\ enc.at = "await"
  <2>1. /\ UNCHANGED <<jsize, tasks, dq, shown, inq, coded, aborted>> /\ awaiting' = TRUE
        /\ enc.at \in Switching /\ enc'.at = "deadline"
    BY <1>3 DEF JetPends, Switching, JetTypes
  <2>2. ~(dq.at \in {"reclaim", "arrived"} /\ dq.await)
    BY <1>1, <1>3
  <2>3. Live' = Live
    BY <2>1 DEF Live
  <2>4. SizesOfTasks'
    BY <1>1, <2>1, <2>3 DEF SizesOfTasks
  <2>5. AwaitsFirst'
    BY <2>1, <2>2 DEF Switches, AwaitsFirst
  <2>6. Settled' /\ FirstDecodable'
    BY <2>1 DEF Switches, Settled, FirstDecodable, Delivering, Decodable
  <2> QED BY <2>4, <2>5, <2>6 DEF Switches
<1>4. CASE JetStreamsOn
  <2>1. /\ UNCHANGED <<tasks, dq, shown, inq, coded, awaiting>> /\ enc.at = "on"
        /\ enc'.at \in {"failed", "idle"} /\ (aborted' = aborted \/ aborted')
    BY <1>4 DEF JetStreamsOn, JetUnhealthy, JetTypes
  <2>2. awaiting /\ ~(dq.at \in {"reclaim", "arrived"} /\ dq.await) /\ (Live' => Live)
    BY <1>1, <2>1 DEF Live
  <2>3. SizesOfTasks'
    <3>1. Live => tasks = <<>>
      BY <1>1, <2>1 DEF Switching
    <3> QED BY <2>1, <2>2, <3>1 DEF SizesOfTasks
  <2>4. AwaitsFirst'
    BY <2>1, <2>2 DEF Switches, AwaitsFirst
  <2>5. Settled' /\ FirstDecodable'
    BY <2>1, <2>2 DEF Switches, Settled, FirstDecodable, Delivering, Decodable
  <2> QED BY <2>3, <2>4, <2>5 DEF Switches
<1> QED BY <1>2, <1>3, <1>4

\* The number of a frame is new when its task is made, and the size it is
\* queued with is the present one.
LEMMA SwitchesFill ==
    ASSUME JetTypes, Switches, Numbers, JetFill
    PROVE  Switches'
<1>1. /\ UNCHANGED <<inq, coded, shown, dq, jsize, aborted, awaiting>> /\ tasks' = Append(tasks, enc.ts)
      /\ enc.at = "task" /\ enc'.at = "queue" /\ Newest = enc.ts /\ enc.ts \in Nat
  BY DEF JetFill, EncAt, JetTypes, jetDevice, jetFlags, Newest
<1>2. ASSUME Live
      PROVE  \A i \in DOMAIN tasks' : (i \in DOMAIN tasks /\ tasks'[i] = tasks[i]) \/ tasks'[i] = enc.ts
  BY <1>1, <1>2 DEF JetTypes
<1>3. /\ \A k \in DOMAIN inq : inq[k].ts # enc.ts
      /\ \A k \in DOMAIN coded : coded[k].ts # enc.ts
      /\ dq.f.ts # enc.ts
  BY <1>1, NewestOf DEF Numbers, Older
<1>4. Live' = Live
  BY <1>1 DEF Live
<1>5. SizesOfTasks'
  BY <1>1, <1>2, <1>3, <1>4 DEF Switches, SizesOfTasks, Switching
<1>6. AwaitsFirst'
  BY <1>1 DEF Switches, AwaitsFirst
<1>7. Settled'
  BY <1>1, <1>4 DEF Switches, Settled, Accepted, Delivering
<1>8. FirstDecodable'
  <2>1. ASSUME dq.at = "match", NEW i \in DOMAIN tasks', tasks'[i] = dq.f.ts
        PROVE  \E j \in DOMAIN tasks : tasks[j] = dq.f.ts
    BY <1>2, <1>3, <2>1 DEF Live
  <2> QED BY <1>1, <2>1 DEF Switches, FirstDecodable, Delivering, Decodable
<1> QED BY <1>5, <1>6, <1>7, <1>8 DEF Switches

LEMMA SwitchesQueue ==
    ASSUME JetTypes, Switches, Numbers, JetQueue
    PROVE  Switches'
<1>1. /\ UNCHANGED <<coded, shown, dq, jsize, aborted, awaiting>>
      /\ enc.at = "queue" /\ enc'.at = "idle" /\ enc.ts \in Nat
      /\ \/ inq' = inq
         \/ inq' = Append(inq, [ts |-> enc.ts, size |-> jsize, forced |-> forceNext])
      /\ tasks' = tasks \/ (tasks # <<>> /\ tasks' = SubSeq(tasks, 1, Len(tasks) - 1))
  BY DEF JetQueue, EncAt, JetTypes, jetFlags
<1>2. Live' = Live
  BY <1>1 DEF Live
<1>3. ASSUME Live
      PROVE  \A i \in DOMAIN tasks' : i \in DOMAIN tasks /\ tasks'[i] = tasks[i]
  <2>1. tasks \in Seq(Nat)
    BY <1>3 DEF JetTypes
  <2>2. tasks # <<>> => \A i \in DOMAIN SubSeq(tasks, 1, Len(tasks) - 1) :
           i \in DOMAIN tasks /\ SubSeq(tasks, 1, Len(tasks) - 1)[i] = tasks[i]
    BY <2>1, FrontOf
  <2> QED BY <1>1, <2>2
<1>4. \A k \in DOMAIN inq' : (k \in DOMAIN inq /\ inq'[k] = inq[k]) \/ inq'[k].size = jsize
  <2>1. inq \in Seq(Input) /\ [ts |-> enc.ts, size |-> jsize, forced |-> forceNext] \in Input
    BY <1>1 DEF JetTypes, Input
  <2> QED BY <1>1, <2>1
<1>5. SizesOfTasks'
  BY <1>1, <1>2, <1>3, <1>4 DEF Switches, SizesOfTasks, Switching
<1>6. AwaitsFirst'
  BY <1>1 DEF Switches, AwaitsFirst
<1>7. Settled'
  BY <1>1, <1>2 DEF Switches, Settled, Accepted, Delivering
<1>8. FirstDecodable'
  <2>1. ASSUME dq.at = "match", NEW i \in DOMAIN tasks', tasks'[i] = dq.f.ts
        PROVE  \E j \in DOMAIN tasks : tasks[j] = dq.f.ts
    BY <1>3, <2>1 DEF Live
  <2> QED BY <1>1, <2>1 DEF Switches, FirstDecodable, Delivering, Decodable
<1> QED BY <1>5, <1>6, <1>7, <1>8 DEF Switches

\* The device codes images of the size their inputs had.
LEMMA SwitchesDevice ==
    ASSUME JetTypes, Switches, DeviceCodes \/ DeviceSkips
    PROVE  Switches'
<1>1. /\ UNCHANGED <<enc, jsize, tasks, dq, shown, aborted, awaiting>>
      /\ inq # <<>> /\ inq' = Tail(inq) /\ inq \in Seq(Input) /\ coded \in Seq(Image)
  BY DEF DeviceCodes, DeviceSkips, DeviceTook, jetFlags, JetTypes
<1>2. \A k \in DOMAIN inq' : \E j \in DOMAIN inq : inq'[k] = inq[j]
  BY <1>1
<1>3. 1 \in DOMAIN inq /\ \A b \in BOOLEAN : Coded(b).ts = inq[1].ts /\ Coded(b).size = inq[1].size
  BY <1>1 DEF Coded
<1>4. \A k \in DOMAIN coded' :
         \/ k \in DOMAIN coded /\ coded'[k] = coded[k]
         \/ coded'[k].ts = inq[1].ts /\ coded'[k].size = inq[1].size
  <2>1. ASSUME NEW b \in BOOLEAN, coded' = Append(coded, Coded(b))
        PROVE  \A k \in DOMAIN coded' : (k \in DOMAIN coded /\ coded'[k] = coded[k]) \/ coded'[k] = Coded(b)
    BY <1>1, <2>1
  <2>2. ASSUME coded' = coded \o <<Coded(FALSE), Coded(TRUE)>>
        PROVE  \A k \in DOMAIN coded' : \/ k \in DOMAIN coded /\ coded'[k] = coded[k]
                                        \/ coded'[k] \in {Coded(FALSE), Coded(TRUE)}
    <3> DEFINE c == Coded(FALSE)
               d == Coded(TRUE)
    <3>1. coded' = coded \o <<c, d>>
      BY <2>2
    <3> HIDE DEF c, d
    <3>2. \A k \in DOMAIN coded' : (k \in DOMAIN coded /\ coded'[k] = coded[k]) \/ coded'[k] \in {c, d}
      BY <1>1, <3>1
    <3> QED BY <3>2 DEF c, d
  <2>3. CASE DeviceSkips
    BY <2>3 DEF DeviceSkips
  <2>4. CASE \E b \in BOOLEAN : coded' = Append(coded, Coded(b))
    BY <1>3, <2>1, <2>4
  <2>5. CASE coded' = coded \o <<Coded(FALSE), Coded(TRUE)>>
    BY <1>3, <2>2, <2>5
  <2> QED BY <2>3, <2>4, <2>5 DEF DeviceCodes
<1>5. Live' = Live
  BY <1>1 DEF Live
<1>6. SizesOfTasks'
  <2>1. SUFFICES ASSUME Live PROVE SizesOfTasks'
    BY <1>5 DEF SizesOfTasks
  <2>2. SizesOfTasks
    BY DEF Switches
  <2>3. \A i \in DOMAIN tasks : \A k \in DOMAIN inq' : inq'[k].ts = tasks[i] => inq'[k].size = jsize
    BY <1>2, <2>1, <2>2 DEF SizesOfTasks
  <2>4. \A i \in DOMAIN tasks : \A k \in DOMAIN coded' : coded'[k].ts = tasks[i] => coded'[k].size = jsize
    BY <1>3, <1>4, <2>1, <2>2 DEF SizesOfTasks
  <2> QED BY <1>1, <2>1, <2>2, <2>3, <2>4 DEF SizesOfTasks
<1>7. AwaitsFirst' /\ Settled' /\ FirstDecodable'
  BY <1>1, <1>5 DEF Switches, AwaitsFirst, Settled, Accepted, Delivering, FirstDecodable, Decodable
<1> QED BY <1>6, <1>7 DEF Switches

\* An image taken while a resolution is awaited is delivered only if it can be
\* the first; one taken otherwise has the size of the one accepted before it.
LEMMA SwitchesTakes ==
    ASSUME JetTypes, Switches, DqTakes
    PROVE  Switches'
<1>1. /\ UNCHANGED <<enc, jsize, tasks, shown, aborted, awaiting, inq>> /\ dq.at = "idle" /\ Live
      /\ coded' = Tail(coded) /\ coded # <<>> /\ coded \in Seq(Image) /\ awaiting \in BOOLEAN
  BY DEF DqTakes, Live, JetTypes, jetFlags
<1>2. SizesOfTasks /\ AwaitsFirst /\ Settled /\ FirstDecodable
  BY DEF Switches
<1>3. 1 \in DOMAIN coded /\ Head(coded) = coded[1] /\ Head(coded) \in Image
      /\ \A k \in DOMAIN coded' : \E j \in DOMAIN coded : coded'[k] = coded[j]
  BY <1>1
<1>4. CASE halting
  <2>1. dq'.at = "ended" /\ dq'.f = dq.f
    BY <1>4 DEF DqTakes, DqEnds, JetTypes
  <2>2. SizesOfTasks'
    BY <1>1, <1>2, <1>3, <2>1 DEF SizesOfTasks
  <2>3. AwaitsFirst'
    BY <1>1, <1>2, <2>1 DEF AwaitsFirst
  <2>4. Settled' /\ FirstDecodable'
    BY <1>1, <1>2, <2>1 DEF Settled, Accepted, Delivering, FirstDecodable
  <2> QED BY <2>2, <2>3, <2>4 DEF Switches
<1>5. CASE ~halting
  <2> DEFINE f == Head(coded)
  <2>1. /\ dq'.at = "match" /\ dq'.f = f /\ dq'.await = awaiting
        /\ dq'.deliver = Deliverable(f)
    BY <1>5 DEF DqTakes
  <2>2. f = coded[1] /\ f \in Image
    BY <1>3
  <2> HIDE DEF f
  <2>3. \A i \in DOMAIN tasks : f.ts = tasks[i] => f.size = jsize
    BY <1>1, <1>2, <1>3, <2>2 DEF SizesOfTasks
  <2>4. SizesOfTasks'
    BY <1>1, <1>2, <1>3, <2>1, <2>3 DEF SizesOfTasks
  <2>5. AwaitsFirst'
    BY <1>1, <1>2, <2>1 DEF AwaitsFirst
  <2>6. Settled'
    BY <1>1, <1>2, <2>1 DEF Settled, Accepted, Delivering
  <2>7. ASSUME Deliverable(f), NEW i \in DOMAIN tasks, tasks[i] = f.ts PROVE Decodable(f)
    <3>1. CASE awaiting
      BY <2>7, <3>1 DEF Deliverable, Decodable
    <3>2. CASE ~awaiting
      BY <1>1, <1>2, <2>3, <2>7, <3>2 DEF Settled, Accepted, Delivering, Decodable
    <3> QED BY <3>1, <3>2
  <2>8. FirstDecodable'
    BY <1>1, <2>1, <2>7 DEF FirstDecodable, Delivering, Decodable
  <2> QED BY <2>4, <2>5, <2>6, <2>8 DEF Switches
<1> QED BY <1>4, <1>5

LEMMA SwitchesMatch ==
    ASSUME JetTypes, Switches, Numbers, DqMatches
    PROVE  Switches'
<1>1. /\ UNCHANGED <<enc, jsize, shown, aborted, awaiting, inq, coded>> /\ dq.at = "match" /\ Live
      /\ tasks \in Seq(Nat)
  BY DEF DqMatches, Live, JetTypes, jetFlags, jetDevice
<1>2. SizesOfTasks /\ AwaitsFirst /\ Settled /\ FirstDecodable
  BY DEF Switches
<1>3. CASE \E i \in DOMAIN tasks : tasks[i] = dq.f.ts
  <2> DEFINE gone == IF dq.deliver THEN Matched ELSE Matched - 1
  <2>1. Matched \in DOMAIN tasks /\ tasks[Matched] = dq.f.ts
    BY <1>3, MatchedOf
  <2>2. gone \in Nat /\ gone =< Len(tasks)
    BY <1>1, <2>1
  <2>3. tasks' = SubSeq(tasks, gone + 1, Len(tasks)) /\ dq' = [dq EXCEPT !.at = "reclaim", !.owe = gone]
    BY <1>3 DEF DqMatches, MatchTask, Matched
  <2> HIDE DEF gone
  <2>4. \A i \in DOMAIN tasks' : i + gone \in DOMAIN tasks /\ tasks'[i] = tasks[i + gone]
    BY <1>1, <2>2, <2>3, RestOf
  <2>5. /\ dq'.at = "reclaim" /\ dq'.f = dq.f /\ dq'.deliver = dq.deliver /\ dq'.await = dq.await /\ Live'
    BY <1>1, <2>3 DEF JetTypes, Live
  <2>6. dq.f.size = jsize /\ enc.at \notin Switching
    BY <1>1, <1>2, <2>1 DEF SizesOfTasks
  <2>7. SizesOfTasks'
    BY <1>1, <1>2, <2>4, <2>5, <2>6 DEF SizesOfTasks
  <2>8. AwaitsFirst'
    BY <1>1, <1>2, <2>5, <2>6 DEF AwaitsFirst, Switching
  <2>9. Settled'
    BY <1>1, <1>2, <2>5, <2>6 DEF Settled, Accepted, Delivering
  <2>10. FirstDecodable'
    BY <1>1, <1>2, <1>3, <2>5 DEF FirstDecodable, Delivering, Decodable
  <2> QED BY <2>7, <2>8, <2>9, <2>10 DEF Switches
<1>4. CASE ~ \E i \in DOMAIN tasks : tasks[i] = dq.f.ts
  <2>1. UNCHANGED tasks /\ dq'.at \in {"idle", "ended"}
    BY <1>4 DEF DqMatches, DqIdle, JetTypes
  <2>2. SizesOfTasks' /\ AwaitsFirst'
    BY <1>1, <1>2, <2>1 DEF SizesOfTasks, AwaitsFirst
  <2>3. Settled' /\ FirstDecodable'
    BY <1>1, <1>2, <2>1 DEF Settled, Accepted, Delivering, FirstDecodable
  <2> QED BY <2>2, <2>3 DEF Switches
<1> QED BY <1>3, <1>4

LEMMA SwitchesCapture ==
    ASSUME JetTypes, Switches, Numbers,
           DqFails \/ DqAborts \/ ReclaimOutputBuffer \/ DqConfirms \/ DqCalls
    PROVE  Switches'
<1>1. SizesOfTasks /\ AwaitsFirst /\ Settled /\ FirstDecodable
      /\ (dq.at \in {"arrived", "relax", "confirm", "call"} => dq.deliver)
  BY DEF Switches, Numbers, ShownBefore
<1>2. UNCHANGED <<enc, jsize, inq, coded>>
  BY DEF DqFails, DqAborts, ReclaimOutputBuffer, DqConfirms, DqCalls, jetDevice
<1>3. CASE DqFails \/ DqAborts
  <2>1. dq'.at = "ended" /\ ~Live' /\ UNCHANGED <<shown, awaiting>>
    BY <1>3 DEF DqFails, DqAborts, DqEnds, Live, JetTypes, jetDevice
  <2>2. AwaitsFirst'
    BY <1>1, <1>2, <2>1 DEF AwaitsFirst
  <2> QED BY <2>1, <2>2 DEF Switches, SizesOfTasks, Settled, FirstDecodable, Delivering
<1>4. CASE ReclaimOutputBuffer
  <2>1. /\ UNCHANGED <<tasks, shown, aborted, awaiting>> /\ dq.at = "reclaim" /\ Live
        /\ \/ dq'.at = "idle" /\ (~dq.deliver)
           \/ /\ dq'.f = dq.f /\ dq'.deliver = dq.deliver /\ dq'.await = dq.await
              /\ \/ dq'.at = "reclaim"
                 \/ dq'.at = "arrived" /\ dq.await /\ dq.deliver
                 \/ dq'.at = "confirm" /\ (~dq.await) /\ dq.deliver
    BY <1>4 DEF ReclaimOutputBuffer, DqIdle, Live, JetTypes, jetFlags
  <2>2. SizesOfTasks'
    BY <1>1, <1>2, <2>1 DEF SizesOfTasks, Live
  <2>3. AwaitsFirst'
    BY <1>1, <1>2, <2>1 DEF AwaitsFirst
  <2>4. Settled'
    BY <1>1, <1>2, <2>1 DEF Settled, Accepted, Delivering
  <2>5. FirstDecodable'
    BY <1>1, <1>2, <2>1 DEF FirstDecodable, Delivering, Decodable
  <2> QED BY <2>2, <2>3, <2>4, <2>5 DEF Switches
<1>5. CASE DqConfirms
  <2>1. /\ UNCHANGED <<tasks, shown, aborted>> /\ Live
        /\ dq'.f = dq.f /\ dq'.deliver = dq.deliver /\ dq'.await = dq.await
        /\ \/ dq.at = "arrived" /\ dq'.at = "relax" /\ awaiting' = FALSE
           \/ dq.at \in {"relax", "confirm"} /\ dq'.at \in {"confirm", "call"} /\ awaiting' = awaiting
    BY <1>5 DEF DqConfirms, Live, JetTypes
  <2>2. SizesOfTasks'
    BY <1>1, <1>2, <2>1 DEF SizesOfTasks, Live
  <2>3. AwaitsFirst'
    BY <1>1, <1>2, <2>1 DEF AwaitsFirst
  <2>4. Settled'
    BY <1>1, <1>2, <2>1 DEF Settled, Accepted, Delivering, AwaitsFirst
  <2>5. FirstDecodable'
    BY <1>1, <1>2, <2>1 DEF FirstDecodable, Delivering, Decodable
  <2> QED BY <2>2, <2>3, <2>4, <2>5 DEF Switches
<1>6. CASE DqCalls
  <2>1. /\ UNCHANGED <<tasks, aborted, awaiting>> /\ dq.at = "call" /\ dq'.at = "idle" /\ shown' = dq.f
        /\ Live /\ Live' /\ dq.deliver
    BY <1>1, <1>6 DEF DqCalls, DqIdle, Live, JetTypes, jetFlags
  <2>2. SizesOfTasks' /\ AwaitsFirst'
    BY <1>1, <1>2, <2>1 DEF SizesOfTasks, AwaitsFirst
  <2>3. Settled' /\ FirstDecodable'
    BY <1>1, <1>2, <2>1 DEF Settled, Accepted, Delivering, FirstDecodable
  <2> QED BY <2>2, <2>3 DEF Switches
<1> QED BY <1>3, <1>4, <1>5, <1>6

LEMMA SwitchesStep ==
    ASSUME JetTypes, JetBoots, Numbers, Switches, JetsonSessionConstants, [JetNext]_jetVars
    PROVE  Switches'
BY SwitchesOwner, SwitchesBoots, SwitchesPends, SwitchesFill, SwitchesQueue, SwitchesDevice,
   SwitchesTakes, SwitchesMatch, SwitchesCapture
   DEF JetNext, JetOwner, JetCapture, JetPasses

LEMMA JetStep ==
    ASSUME JetInv, JetsonSessionConstants, [JetNext]_jetVars
    PROVE  JetInv'
<1>1. JetTypes /\ JetBoots /\ JetJoins /\ Numbers /\ TasksRise /\ Account /\ Switches
  BY DEF JetInv, Numbers
<1>2. JetTypes'
  BY <1>1, JetTypesStep
<1>3. JetBoots' /\ JetJoins'
  BY <1>1, JetBootsStep, JetJoinsStep
<1>4. Numbers'
  BY <1>1, <1>2, NumbersStep
<1>5. Account'
  BY <1>1, AccountStep
<1>6. Switches'
  BY <1>1, SwitchesStep
<1> QED BY <1>2, <1>3, <1>4, <1>5, <1>6 DEF JetInv

\* Whatever the device skips, codes twice, fails or holds back, no buffer of
\* the output plane is lost or made: EmplaceBuffer does not run out of them for
\* good, and DrainOutputPlane can see them all come back.
THEOREM BuffersKept == JetSpec => []BuffersAccounted
<1>1. JetInit => JetInv
  BY JetBegins, JetsonSessionConstants
<1>2. JetInv /\ [JetNext]_jetVars => JetInv'
  BY JetStep, JetsonSessionConstants
<1>3. JetInv => BuffersAccounted
  BY DEF JetInv, Account
<1> QED BY <1>1, <1>2, <1>3, PTL DEF JetSpec

\* One image at a time goes to the callback, each younger than the last, and
\* the first of a resolution is one a decoder can begin with.
LEMMA ShownStep ==
    ASSUME JetInv, [JetNext]_jetVars, shown' # shown
    PROVE  /\ shown'.ts > shown.ts
           /\ shown.ts > 0 /\ shown'.size # shown.size => shown'.idr /\ shown'.sps
<1>1. DqCalls
  BY DEF JetNext, JetOwner, JetCapture, JetCreates, JetSettings, JetStarts, PrepareCaptureBuffer,
     JetEmplace, ConvertI420ToYUV420M, JetFill, JetQueue, JetReconfigure, CanReconfigure,
     DrainOutputPlane, WaitForPendingTasks, JetSetup, JetPends, JetStreamsOn, JetKept, JetStops,
     JetDestroyed, DqFails, DqTakes, DqMatches, DqAborts, ReclaimOutputBuffer, DqConfirms,
     DeviceCodes, DeviceSkips, DeadlinePasses, jetVars
<1>2. dq.at = "call" /\ shown' = dq.f
  BY <1>1 DEF DqCalls
<1>3. Delivering
  BY <1>2 DEF JetInv, Numbers, ShownBefore, Delivering
<1>4. shown.ts < dq.f.ts /\ shown.ts \in Nat /\ dq.f.ts \in Nat
  BY <1>3, NewestOf DEF JetInv, Numbers, ShownBefore
<1>5. Decodable(dq.f)
  BY <1>3 DEF JetInv, Switches, FirstDecodable
<1> QED BY <1>2, <1>4, <1>5 DEF Decodable

THEOREM SwitchesKeepDecoding == JetSpec => SwitchesDecodable
<1>1. JetInit => JetInv
  BY JetBegins, JetsonSessionConstants
<1>2. JetInv /\ [JetNext]_jetVars => JetInv'
  BY JetStep, JetsonSessionConstants
<1>3. JetInv /\ [JetNext]_jetVars =>
        [shown' # shown =>
           /\ shown'.ts > shown.ts
           /\ shown.ts > 0 /\ shown'.size # shown.size => shown'.idr /\ shown'.sps]_jetVars
  BY ShownStep
<1> QED BY <1>1, <1>2, <1>3, PTL DEF JetSpec, SwitchesDecodable

-----------------------------------------------------------------------------
(* The lives of the Jetson encoder: types.                                  *)

USE JetsonLifecycleConstants DEF JetsonLifecycleConstants

Coding == [gen : Nat, life : Nat]
Threads == [at : {"idle", "check", "send", "wait", "in"}, f : Coding, ep : Nat, cb : Nat]
Sessions == [st : {"none", "live", "dying"}, size : Nat, pend : Coding, dq : Threads]
Work == [at : {"none", "wait", "destroy", "free", "freeing", "look", "warm", "publish"},
         kill : SUBSET Nat, stop : BOOLEAN, create : BOOLEAN, rel : BOOLEAN, seq : Nat,
         epoch : Nat, size : Nat, made : Nat]
QueuePoints == {"off", "cancel", "reuse", "stopWorker", "create", "register", "ready",
                "releaseWait", "destroyWait", "destroyJoin", "destroyed"}

LifeTypes ==
    /\ lq \in [at : QueuePoints, size : Nat]
    /\ lives \in Nat /\ encodes \in Nat
    /\ cb \in Nat /\ cbEpoch \in Nat /\ inflight \in Nat /\ gen \in Nat /\ epoch \in Nat
    /\ released \in BOOLEAN /\ relSeq \in Nat /\ grace \in BOOLEAN
    /\ defer \in [on : BOOLEAN, seq : Nat, due : BOOLEAN]
    /\ active \in Nat /\ standby \in Nat /\ maxed \in Nat /\ stbyOn \in BOOLEAN
    /\ retired \subseteq Nat /\ want \in BOOLEAN /\ wstop \in BOOLEAN /\ mainStream \in BOOLEAN
    /\ wk \in Work
    /\ sess \in [HwSessions -> Sessions]

LEMMA LifeConstants ==
    /\ NoFrame \in Coding /\ Quiet \in Threads /\ Quiet.at = "idle" /\ NoSess \in Sessions
    /\ NoSess.st = "none" /\ NoSess.dq = Quiet
    /\ \A s \in Nat : NewSess(s) \in Sessions /\ NewSess(s).dq = Quiet
    /\ NoWork \in Work /\ NoWork.at = "none" /\ NoWork.seq = 0 /\ ~NoWork.rel
<1>1. NoFrame \in Coding
  BY DEF NoFrame, Coding
<1>2. Quiet \in Threads /\ Quiet.at = "idle"
  BY <1>1 DEF Quiet, Threads
<1>3. NoSess \in Sessions /\ NoSess.st = "none" /\ NoSess.dq = Quiet
  BY <1>1, <1>2 DEF NoSess, Sessions
<1>4. ASSUME NEW s \in Nat PROVE NewSess(s) \in Sessions /\ NewSess(s).dq = Quiet
  BY <1>3 DEF NewSess, Sessions
<1>5. NoWork \in Work /\ NoWork.at = "none" /\ NoWork.seq = 0 /\ ~NoWork.rel
  BY DEF NoWork, Work
<1> QED BY <1>1, <1>2, <1>3, <1>4, <1>5

\* The capture thread of a session that is not there is nowhere.
Unthreaded == \A h \in HwSessions : sess[h].st = "none" => sess[h].dq.at = "idle"

\* What the steps that change sessions do to their threads: nothing, but start
\* one anew for a session that was not there.
SameThreads ==
    /\ sess' \in [HwSessions -> Sessions]
    /\ \A h \in HwSessions :
         /\ sess'[h].dq = sess[h].dq \/ (sess[h].st = "none" /\ sess'[h].dq.at = "idle")
         /\ sess'[h].st = "none" => sess[h].st = "none"

LEMMA DyingOf ==
    ASSUME NEW S, sess \in [HwSessions -> Sessions], sess' = Dying(S, sess)
    PROVE  SameThreads
<1> SUFFICES ASSUME NEW h \in HwSessions
             PROVE  sess'[h] \in Sessions /\ sess'[h].dq = sess[h].dq
                    /\ (sess'[h].st = "none" => sess[h].st = "none")
  <2>1. DOMAIN sess' = HwSessions /\ sess' = [h \in HwSessions |-> sess'[h]]
    BY DEF Dying
  <2> QED BY <2>1 DEF SameThreads
<1>1. sess[h] \in Sessions
  OBVIOUS
<1>2. sess'[h] = IF h \in S THEN [sess[h] EXCEPT !.st = "dying", !.pend = NoFrame] ELSE sess[h]
  BY DEF Dying
<1>3. [sess[h] EXCEPT !.st = "dying", !.pend = NoFrame] \in Sessions
  BY <1>1, LifeConstants DEF Sessions
<1>4. /\ [sess[h] EXCEPT !.st = "dying", !.pend = NoFrame].dq = sess[h].dq
      /\ [sess[h] EXCEPT !.st = "dying", !.pend = NoFrame].st = "dying"
  BY <1>1 DEF Sessions
<1> QED BY <1>1, <1>2, <1>3, <1>4

LEMMA NewOf ==
    ASSUME NEW h \in Unmade, NEW s \in Nat, sess \in [HwSessions -> Sessions], Unthreaded,
           sess' = [sess EXCEPT ![h] = NewSess(s)]
    PROVE  SameThreads
<1>1. h \in HwSessions /\ sess[h].st = "none"
  BY DEF Unmade
<1>2. NewSess(s) \in Sessions /\ NewSess(s).dq.at = "idle"
  BY LifeConstants
<1>3. sess' \in [HwSessions -> Sessions]
  BY <1>1, <1>2
<1>4. \A k \in HwSessions : sess'[k] = IF k = h THEN NewSess(s) ELSE sess[k]
  OBVIOUS
<1> QED BY <1>1, <1>2, <1>3, <1>4 DEF SameThreads

LEMMA TakesOf ==
    ASSUME NEW h, NEW s \in Nat, NEW old, Takes(h, s, old),
           sess \in [HwSessions -> Sessions], Unthreaded, gen' \in Nat, lives \in Nat
    PROVE  SameThreads /\ active' = h /\ retired' = retired \cup (old \ {0})
<1> DEFINE p == [gen |-> gen', life |-> lives]
           b == IF sess[h].st = "none" THEN NewSess(s) ELSE sess[h]
           x == [b EXCEPT !.size = s, !.pend = p]
<1>1. sess' = [sess EXCEPT ![h] = x] /\ active' = h /\ retired' = retired \cup (old \ {0})
  BY DEF Takes
<1>2. p \in Coding
  BY DEF Coding
<1>3. CASE h \in HwSessions
  <2>1. b \in Sessions /\ (b.dq = sess[h].dq \/ (sess[h].st = "none" /\ b.dq.at = "idle"))
        /\ (b.st = "none" => sess[h].st = "none")
    BY <1>3, LifeConstants
  <2> HIDE DEF b, p
  <2>2. x \in Sessions /\ x.dq = b.dq /\ x.st = b.st
    BY <1>2, <2>1 DEF Sessions
  <2> HIDE DEF x
  <2>3. sess' \in [HwSessions -> Sessions]
    BY <1>1, <1>3, <2>2
  <2>4. \A k \in HwSessions : sess'[k] = IF k = h THEN x ELSE sess[k]
    BY <1>1, <1>3
  <2> QED BY <1>1, <1>3, <2>1, <2>2, <2>3, <2>4 DEF SameThreads
<1>4. CASE h \notin HwSessions
  <2> HIDE DEF x
  <2>1. sess' = sess
    BY <1>1, <1>4
  <2> QED BY <1>1, <2>1 DEF SameThreads
<1> QED BY <1>3, <1>4

LEMMA EmplacesOf ==
    ASSUME NEW h, Emplaces(h), sess \in [HwSessions -> Sessions], gen \in Nat, lives \in Nat
    PROVE  SameThreads
<1> DEFINE p == [gen |-> gen, life |-> lives]
<1>1. p \in Coding
  BY DEF Coding
<1>2. sess' = sess \/ sess' = [sess EXCEPT ![h].pend = p]
  BY DEF Emplaces
<1> HIDE DEF p
<1>3. CASE sess' = [sess EXCEPT ![h].pend = p] /\ h \in HwSessions
  <2>1. [sess[h] EXCEPT !.pend = p] \in Sessions
    BY <1>1, <1>3 DEF Sessions
  <2>2. sess' = [sess EXCEPT ![h] = [sess[h] EXCEPT !.pend = p]]
    BY <1>3
  <2> QED BY <1>1, <1>3, <2>1, <2>2 DEF SameThreads, Sessions
<1>4. CASE sess' = [sess EXCEPT ![h].pend = p] /\ h \notin HwSessions
  <2>1. sess' = sess
    BY <1>4
  <2> QED BY <2>1 DEF SameThreads
<1>5. CASE sess' = sess
  BY <1>5 DEF SameThreads
<1> QED BY <1>2, <1>3, <1>4, <1>5

-----------------------------------------------------------------------------
(* What a session's own thread does: one session changes.                   *)

\* The thread of h is y afterwards, and nothing else of the sessions changes.
ThreadOf(h, y) == sess' = [sess EXCEPT ![h].dq = y]

LEMMA OneThread ==
    ASSUME NEW h \in HwSessions, NEW y \in Threads, sess \in [HwSessions -> Sessions],
           ThreadOf(h, y)
    PROVE  /\ sess' \in [HwSessions -> Sessions]
           /\ \A k \in HwSessions : /\ sess'[k].st = sess[k].st
                                    /\ sess'[k].dq = IF k = h THEN y ELSE sess[k].dq
<1>1. sess[h] \in Sessions
  OBVIOUS
<1>2. [sess[h] EXCEPT !.dq = y] \in Sessions
  BY <1>1 DEF Sessions
<1>3. sess' = [sess EXCEPT ![h] = [sess[h] EXCEPT !.dq = y]]
  BY DEF ThreadOf
<1> QED BY <1>1, <1>2, <1>3 DEF Sessions

-----------------------------------------------------------------------------
(* Types are kept.                                                          *)

\* The queue's steps that make, feed or destroy sessions, and the worker's.
OwnersStep ==
    \/ \E s \in 1 .. MaxSize :
          InitEncode(s) \/ EncodeCreates(s) \/ EncodeDown(s) \/ EncodeStandby(s) \/ EncodeWithoutStandby(s)
    \/ EncodeSame \/ \E d \in BOOLEAN : ReleaseClears(d)
    \/ QueueGoesOn \/ StandbyWorker \/ GracePasses

\* Each of them leaves the threads as they are.
LEMMA OwnersLeaveThreads ==
    ASSUME LifeTypes, Unthreaded, OwnersStep
    PROVE  SameThreads /\ gen' \in Nat /\ UNCHANGED inflight
<1>t. /\ sess \in [HwSessions -> Sessions] /\ gen \in Nat /\ gen + 1 \in Nat /\ lives \in Nat
      /\ wk \in Work /\ lq.size \in Nat /\ wk.size \in Nat
  BY DEF LifeTypes, Work
<1>0. ASSUME UNCHANGED <<sess, inflight>>, gen' \in Nat PROVE SameThreads /\ gen' \in Nat /\ UNCHANGED inflight
  BY <1>t, <1>0 DEF SameThreads
<1> USE DEF callbackState, releaseState, encoderState, workerState
<1>1. ASSUME NEW s \in 1 .. MaxSize, InitEncode(s) PROVE SameThreads /\ gen' \in Nat /\ UNCHANGED inflight
  BY <1>t, <1>0, <1>1 DEF InitEncode
<1>2. ASSUME NEW s \in 1 .. MaxSize, EncodeCreates(s) PROVE SameThreads /\ gen' \in Nat /\ UNCHANGED inflight
  <2>1. s \in Nat /\ gen' = gen + 1 /\ inflight' = inflight
    BY <1>2 DEF EncodeCreates
  <2>2. (\E h, old : Takes(h, s, old)) \/ UNCHANGED sess
    BY <1>2 DEF EncodeCreates
  <2> QED BY <1>t, <1>0, <2>1, <2>2, TakesOf
<1>3. ASSUME NEW s \in 1 .. MaxSize, EncodeDown(s) PROVE SameThreads /\ gen' \in Nat /\ UNCHANGED inflight
  <2>1. s \in Nat /\ gen' = gen + 1 /\ inflight' = inflight /\ Takes(active, s, {})
    BY <1>3 DEF EncodeDown
  <2> QED BY <1>t, <2>1, TakesOf
<1>4. ASSUME NEW s \in 1 .. MaxSize, EncodeStandby(s) PROVE SameThreads /\ gen' \in Nat /\ UNCHANGED inflight
  <2>1. s \in Nat /\ gen' = gen + 1 /\ inflight' = inflight /\ Takes(standby, s, {active})
    BY <1>4 DEF EncodeStandby
  <2> QED BY <1>t, <2>1, TakesOf
<1>5. ASSUME NEW s \in 1 .. MaxSize, EncodeWithoutStandby(s) PROVE SameThreads /\ gen' \in Nat /\ UNCHANGED inflight
  <2>1. s \in Nat /\ gen' = gen + 1 /\ inflight' = inflight
    BY <1>5 DEF EncodeWithoutStandby
  <2>2. (\E h, old : Takes(h, s, old)) \/ UNCHANGED sess
    BY <1>5 DEF EncodeWithoutStandby
  <2> QED BY <1>t, <1>0, <2>1, <2>2, TakesOf
<1>6. CASE EncodeSame
  <2>1. UNCHANGED <<gen, inflight, lives>> /\ Emplaces(active)
    BY <1>6 DEF EncodeSame
  <2> QED BY <1>t, <2>1, EmplacesOf
<1>7. ASSUME NEW d \in BOOLEAN, ReleaseClears(d) PROVE SameThreads /\ gen' \in Nat /\ UNCHANGED inflight
  BY <1>t, <1>0, <1>7 DEF ReleaseClears, Cleared
<1>8. CASE CancelDeferredRelease \/ InitStopsWorker \/ InitReuses \/ RegisterEncodeCompleteCallback
           \/ ReleaseReturns \/ DestroyStopsWorker \/ GracePasses
  BY <1>t, <1>0, <1>8 DEF CancelDeferredRelease, InitStopsWorker, InitReuses,
     RegisterEncodeCompleteCallback, ReleaseReturns, DestroyStopsWorker, GracePasses
<1>9. CASE WorkerJoined
  <2>1. sess' = Dying((retired \cup {standby}) \ {0}, sess) /\ gen' = gen + 1 /\ inflight' = inflight
    BY <1>9 DEF WorkerJoined
  <2> QED BY <1>t, <2>1, DyingOf
<1>10. CASE InitCreates
  <2>1. gen' = gen + 1 /\ inflight' = inflight
    BY <1>10 DEF InitCreates
  <2>2. (\E h \in Unmade : sess' = [sess EXCEPT ![h] = NewSess(lq.size)]) \/ UNCHANGED sess
    BY <1>10 DEF InitCreates
  <2> QED BY <1>t, <1>0, <2>1, <2>2, NewOf
<1>11. CASE DestroySessions
  <2>1. sess' = Dying((retired \cup {active, standby}) \ {0}, sess) /\ UNCHANGED <<gen, inflight>>
    BY <1>11 DEF DestroySessions
  <2> QED BY <1>t, <2>1, DyingOf
<1>12. CASE WorkerWakes
  <2>1. sess' = Dying(retired, sess) /\ UNCHANGED <<gen, inflight>>
    BY <1>12 DEF WorkerWakes
  <2> QED BY <1>t, <2>1, DyingOf
<1>13. CASE WorkerDestroyed \/ WorkerFreed \/ WorkerLooks
  BY <1>t, <1>0, <1>13 DEF WorkerDestroyed, WorkerFreed, WorkerLooks
<1>14. CASE WorkerFrees
  <2>1. UNCHANGED <<gen, inflight>> /\ (sess' = Dying({active, standby} \ {0}, sess) \/ UNCHANGED sess)
    BY <1>14 DEF WorkerFrees, FreeIfReleased
  <2> QED BY <1>t, <1>0, <2>1, DyingOf
<1>15. CASE WorkerWarms
  <2>1. /\ UNCHANGED <<gen, inflight>>
        /\ (\E h \in Unmade : sess' = [sess EXCEPT ![h] = NewSess(wk.size)]) \/ UNCHANGED sess
    BY <1>15 DEF WorkerWarms
  <2> QED BY <1>t, <1>0, <2>1, NewOf
<1>16. CASE WorkerPublishes
  <2>1. UNCHANGED <<gen, inflight>> /\ (sess' = Dying({wk.made}, sess) \/ UNCHANGED sess)
    BY <1>16 DEF WorkerPublishes
  <2> QED BY <1>t, <1>0, <2>1, DyingOf
<1> QED BY <1>1, <1>2, <1>3, <1>4, <1>5, <1>6, <1>7, <1>8, <1>9, <1>10, <1>11, <1>12, <1>13,
           <1>14, <1>15, <1>16 DEF OwnersStep, QueueGoesOn, StandbyWorker

\* The types of everything but the sessions.
RestTypes ==
    /\ lq \in [at : QueuePoints, size : Nat]
    /\ lives \in Nat /\ encodes \in Nat
    /\ cb \in Nat /\ cbEpoch \in Nat /\ inflight \in Nat /\ gen \in Nat /\ epoch \in Nat
    /\ released \in BOOLEAN /\ relSeq \in Nat /\ grace \in BOOLEAN
    /\ defer \in [on : BOOLEAN, seq : Nat, due : BOOLEAN]
    /\ active \in Nat /\ standby \in Nat /\ maxed \in Nat /\ stbyOn \in BOOLEAN
    /\ retired \subseteq Nat /\ want \in BOOLEAN /\ wstop \in BOOLEAN /\ mainStream \in BOOLEAN
    /\ wk \in Work

\* A step of the encoder queue, or of nobody.
QueueStep ==
    \/ \E s \in 1 .. MaxSize :
          InitEncode(s) \/ EncodeCreates(s) \/ EncodeDown(s) \/ EncodeStandby(s) \/ EncodeWithoutStandby(s)
    \/ EncodeSame \/ \E d \in BOOLEAN : ReleaseClears(d)
    \/ QueueGoesOn \/ GracePasses

LEMMA QueueMoves ==
    ASSUME lq \in [at : QueuePoints, size : Nat], NEW p \in QueuePoints, At(p)
    PROVE  lq' \in [at : QueuePoints, size : Nat] /\ lq'.at = p
BY DEF At

LEMMA QueueTypes ==
    ASSUME LifeTypes, QueueStep, UNCHANGED mainStream
    PROVE  RestTypes'
<1>t. /\ RestTypes
      /\ lives + 1 \in Nat /\ gen + 1 \in Nat /\ epoch + 1 \in Nat /\ relSeq + 1 \in Nat /\ cbEpoch + 1 \in Nat
  BY DEF LifeTypes, RestTypes
<1>u. \A h \in Unmade : h \in Nat
  BY DEF Unmade
<1> USE DEF callbackState, releaseState, encoderState, workerState
<1>1. ASSUME NEW s \in 1 .. MaxSize, InitEncode(s) PROVE RestTypes'
  <2>1. lq' \in [at : QueuePoints, size : Nat]
    BY <1>1 DEF InitEncode, QueuePoints
  <2> QED BY <1>t, <1>1, <2>1 DEF InitEncode, RestTypes
<1>2. ASSUME NEW s \in 1 .. MaxSize, EncodeCreates(s) PROVE RestTypes'
  <2>1. s \in Nat
    OBVIOUS
  <2>2. /\ UNCHANGED <<lq, lives, cb, cbEpoch, inflight, released, relSeq, defer, grace, stbyOn, wstop, wk>>
        /\ encodes' = encodes + 1 /\ gen' = gen + 1 /\ want' \in BOOLEAN
    BY <1>2, <1>t DEF EncodeCreates, Encode, RestTypes
  <2>3. maxed' \in Nat /\ epoch' \in Nat /\ standby' \in Nat
    BY <1>2, <1>t, <2>1 DEF EncodeCreates, Grown, RestTypes
  <2>4. active' \in Nat /\ retired' \subseteq Nat
    <3>1. /\ retired' \subseteq (retired \cup {active, standby})
          /\ active' = 0 \/ \E h \in Unmade : active' = h
      BY <1>2 DEF EncodeCreates, Takes
    <3> QED BY <1>t, <1>u, <3>1 DEF RestTypes
  <2> QED BY <1>t, <2>2, <2>3, <2>4 DEF RestTypes
<1>3. ASSUME NEW s \in 1 .. MaxSize, EncodeDown(s) PROVE RestTypes'
  BY <1>t, <1>3 DEF EncodeDown, Encode, Takes, RestTypes
<1>4. ASSUME NEW s \in 1 .. MaxSize, EncodeStandby(s) PROVE RestTypes'
  BY <1>t, <1>4 DEF EncodeStandby, Encode, Takes, RestTypes
<1>5. ASSUME NEW s \in 1 .. MaxSize, EncodeWithoutStandby(s) PROVE RestTypes'
  <2>1. s \in Nat
    OBVIOUS
  <2>2. /\ UNCHANGED <<lq, lives, cb, cbEpoch, inflight, released, relSeq, defer, grace, stbyOn, wstop, wk>>
        /\ encodes' = encodes + 1 /\ gen' = gen + 1 /\ want' \in BOOLEAN
    BY <1>5, <1>t DEF EncodeWithoutStandby, Encode, RestTypes
  <2>3. maxed' \in Nat /\ epoch' \in Nat /\ standby' \in Nat
    BY <1>5, <1>t, <2>1 DEF EncodeWithoutStandby, Grown, RestTypes
  <2>4. active' \in Nat /\ retired' \subseteq Nat
    BY <1>5, <1>t, <1>u DEF EncodeWithoutStandby, Takes, RestTypes
  <2> QED BY <1>t, <2>2, <2>3, <2>4 DEF RestTypes
<1>6. CASE EncodeSame
  BY <1>t, <1>6 DEF EncodeSame, Encode, RestTypes
<1>7. ASSUME NEW d \in BOOLEAN, ReleaseClears(d) PROVE RestTypes'
  <2>1. lq' \in [at : QueuePoints, size : Nat]
    BY <1>t, <1>7, QueueMoves DEF ReleaseClears, RestTypes, QueuePoints
  <2> QED BY <1>t, <1>7, <2>1 DEF ReleaseClears, Cleared, RestTypes
<1>8. CASE CancelDeferredRelease
  <2>1. lq' \in [at : QueuePoints, size : Nat]
    BY <1>t, <1>8, QueueMoves DEF CancelDeferredRelease, RestTypes, QueuePoints
  <2>2. defer' \in [on : BOOLEAN, seq : Nat, due : BOOLEAN]
    BY <1>t, <1>8 DEF CancelDeferredRelease, RestTypes
  <2> QED BY <1>t, <1>8, <2>1, <2>2 DEF CancelDeferredRelease, RestTypes
<1>9. CASE InitStopsWorker
  <2>1. lq' \in [at : QueuePoints, size : Nat]
    BY <1>t, <1>9, QueueMoves DEF InitStopsWorker, RestTypes, QueuePoints
  <2>2. defer' \in [on : BOOLEAN, seq : Nat, due : BOOLEAN]
    BY <1>t, <1>9 DEF InitStopsWorker, RestTypes
  <2> QED BY <1>t, <1>9, <2>1, <2>2 DEF InitStopsWorker, RestTypes
<1>10. CASE InitReuses
  <2>1. lq' \in [at : QueuePoints, size : Nat]
    BY <1>t, <1>10, QueueMoves DEF InitReuses, RestTypes, QueuePoints
  <2>2. maxed' \in Nat /\ epoch' \in Nat /\ standby' \in Nat /\ retired' \subseteq Nat
    <3>1. /\ lq.size \in Nat /\ standby \in Nat /\ maxed \in Nat /\ epoch \in Nat /\ epoch + 1 \in Nat
          /\ retired \subseteq Nat
      BY <1>t DEF RestTypes
    <3>2. \/ maxed' = lq.size /\ epoch' = epoch + 1 /\ standby' = 0 /\ retired' = retired \cup ({standby} \ {0})
          \/ UNCHANGED <<maxed, epoch, standby, retired>>
      BY <1>10 DEF InitReuses, Grown
    <3>3. retired \cup ({standby} \ {0}) \subseteq Nat
      BY <3>1
    <3>4. 0 \in Nat
      OBVIOUS
    <3> QED BY <3>1, <3>2, <3>3, <3>4, Zenon
  <2> QED BY <1>t, <1>10, <2>1, <2>2 DEF InitReuses, ShouldEnableStandby, RestTypes
<1>11. CASE RegisterEncodeCompleteCallback
  <2>1. lq' \in [at : QueuePoints, size : Nat]
    BY <1>t, <1>11, QueueMoves DEF RegisterEncodeCompleteCallback, RestTypes, QueuePoints
  <2> QED BY <1>t, <1>11, <2>1 DEF RegisterEncodeCompleteCallback, RestTypes
<1>12. CASE ReleaseReturns
  <2>1. lq' \in [at : QueuePoints, size : Nat]
    BY <1>t, <1>12, QueueMoves DEF ReleaseReturns, RestTypes, QueuePoints
  <2>2. defer' \in [on : BOOLEAN, seq : Nat, due : BOOLEAN]
    BY <1>t, <1>12 DEF ReleaseReturns, ScheduleDeferredRelease, RestTypes
  <2> QED BY <1>t, <1>12, <2>1, <2>2 DEF ReleaseReturns, ScheduleDeferredRelease, RestTypes
<1>13. CASE DestroyStopsWorker
  <2>1. lq' \in [at : QueuePoints, size : Nat]
    BY <1>t, <1>13, QueueMoves DEF DestroyStopsWorker, RestTypes, QueuePoints
  <2> QED BY <1>t, <1>13, <2>1 DEF DestroyStopsWorker, RestTypes
<1>14. CASE DestroySessions
  <2>1. lq' \in [at : QueuePoints, size : Nat]
    BY <1>t, <1>14, QueueMoves DEF DestroySessions, RestTypes, QueuePoints
  <2> QED BY <1>t, <1>14, <2>1 DEF DestroySessions, RestTypes
<1>15. CASE GracePasses
  BY <1>t, <1>15 DEF GracePasses, RestTypes
<1>16. CASE WorkerJoined
  <2>1. lq' \in [at : QueuePoints, size : Nat]
    BY <1>t, <1>16, QueueMoves DEF WorkerJoined, RestTypes, QueuePoints
  <2> QED BY <1>t, <1>16, <2>1 DEF WorkerJoined, RestTypes
<1>17. CASE InitCreates
  <2>1. lq' \in [at : QueuePoints, size : Nat]
    BY <1>t, <1>17, QueueMoves DEF InitCreates, RestTypes, QueuePoints
  <2>2. wk' \in Work
    <3>1. [NoWork EXCEPT !.at = "wait"] \in Work
      BY LifeConstants DEF Work
    <3> QED BY <1>t, <1>17, <3>1 DEF InitCreates, RestTypes
  <2>3. active' \in Nat /\ want' \in BOOLEAN /\ wstop' \in BOOLEAN /\ maxed' \in Nat /\ stbyOn' \in BOOLEAN
    BY <1>t, <1>17, <1>u DEF InitCreates, ShouldEnableStandby, ResolveSessionResolution, RestTypes
  <2> QED BY <1>t, <1>17, <2>1, <2>2, <2>3 DEF InitCreates, RestTypes
<1> QED BY <1>1, <1>2, <1>3, <1>4, <1>5, <1>6, <1>7, <1>8, <1>9, <1>10, <1>11, <1>12, <1>13,
           <1>14, <1>15, <1>16, <1>17 DEF QueueStep, QueueGoesOn

LEMMA WorkerTypes ==
    ASSUME LifeTypes, StandbyWorker, UNCHANGED mainStream
    PROVE  RestTypes'
<1>t. RestTypes /\ NoWork \in Work
  BY LifeConstants DEF LifeTypes, RestTypes
<1> DEFINE Others == UNCHANGED <<lq, lives, encodes, cb, cbEpoch, inflight, gen, epoch, released,
                                 relSeq, grace, stbyOn, wstop, mainStream>>
<1> USE DEF callbackState, releaseState, encoderState, workerState
<1>w. [NoWork EXCEPT !.at = "wait"] \in Work
  BY <1>t DEF Work
<1>1. CASE WorkerWakes
  <2>1. Others /\ retired' = {} /\ want' = FALSE /\ UNCHANGED <<active, standby, maxed>>
    BY <1>1 DEF WorkerWakes
  <2>2. defer' \in [on : BOOLEAN, seq : Nat, due : BOOLEAN]
    BY <1>t, <1>1 DEF WorkerWakes, RestTypes
  <2>3. wk' \in Work
    <3>1. PICK rel \in BOOLEAN : rel = (~wstop /\ defer.on /\ defer.due)
      OBVIOUS
    <3>2. PICK create \in BOOLEAN : create = (want /\ ~wstop)
      OBVIOUS
    <3>3. PICK n : n = IF rel THEN defer.seq ELSE 0
      OBVIOUS
    <3>4. n \in Nat /\ retired \in SUBSET Nat /\ wstop \in BOOLEAN
      BY <1>t, <3>3 DEF RestTypes
    <3>5. wk' = [NoWork EXCEPT !.at = "destroy", !.kill = retired, !.stop = wstop,
                               !.create = create, !.rel = rel, !.seq = n]
      BY <1>1, <3>1, <3>2, <3>3 DEF WorkerWakes
    <3> QED BY <1>t, <3>4, <3>5 DEF Work
  <2> QED BY <1>t, <2>1, <2>2, <2>3 DEF RestTypes
<1>2. CASE WorkerDestroyed
  <2>1. Others /\ UNCHANGED <<defer, retired, want, active, standby, maxed>>
    BY <1>2 DEF WorkerDestroyed
  <2>2. wk' \in Work
    BY <1>t, <1>2 DEF WorkerDestroyed, RestTypes, Work
  <2> QED BY <1>t, <2>1, <2>2 DEF RestTypes
<1>3. CASE WorkerFrees
  <2>1. /\ Others /\ UNCHANGED <<defer, retired, want>>
        /\ active' \in Nat /\ standby' \in Nat /\ maxed' \in Nat
    BY <1>t, <1>3 DEF WorkerFrees, FreeIfReleased, RestTypes
  <2>2. wk' \in Work
    <3>1. {active, standby} \ {0} \subseteq Nat /\ wk \in Work
      BY <1>t DEF RestTypes
    <3>2. \/ wk' = [wk EXCEPT !.at = "freeing", !.kill = {active, standby} \ {0}]
          \/ wk' = [wk EXCEPT !.at = "freeing"]
      BY <1>3 DEF WorkerFrees, FreeIfReleased
    <3> QED BY <3>1, <3>2 DEF Work
  <2> QED BY <1>t, <2>1, <2>2 DEF RestTypes
<1>4. CASE WorkerFreed
  <2>1. Others /\ UNCHANGED <<defer, retired, want, active, standby, maxed>>
    BY <1>4 DEF WorkerFreed
  <2>2. wk' \in Work
    BY <1>t, <1>4 DEF WorkerFreed, RestTypes, Work
  <2> QED BY <1>t, <2>1, <2>2 DEF RestTypes
<1>5. CASE WorkerLooks
  <2>1. Others /\ UNCHANGED <<defer, retired, want, active, standby, maxed>>
    BY <1>5 DEF WorkerLooks
  <2>2. wk' \in Work
    BY <1>t, <1>w, <1>5 DEF WorkerLooks, RestTypes, Work
  <2> QED BY <1>t, <2>1, <2>2 DEF RestTypes
<1>6. CASE WorkerWarms
  <2>1. Others /\ UNCHANGED <<defer, retired, want, active, standby, maxed>>
    BY <1>6 DEF WorkerWarms
  <2>2. \A h \in Unmade : h \in Nat
    BY DEF Unmade
  <2>3. wk' \in Work
    <3>1. \/ wk' = [NoWork EXCEPT !.at = "wait"]
          \/ \E h \in Nat : wk' = [wk EXCEPT !.at = "publish", !.made = h]
      BY <2>2, <1>6 DEF WorkerWarms
    <3>2. wk \in Work
      BY <1>t DEF RestTypes
    <3>3. \A h \in Nat : [wk EXCEPT !.at = "publish", !.made = h] \in Work
      BY <3>2 DEF Work
    <3> QED BY <1>w, <3>1, <3>3
  <2> QED BY <1>t, <2>1, <2>3 DEF RestTypes
<1>7. CASE WorkerPublishes
  <2>1. Others /\ UNCHANGED <<defer, retired, want, active, maxed>>
    BY <1>7 DEF WorkerPublishes
  <2>2. wk' \in Work /\ standby' \in Nat
    BY <1>t, <1>w, <1>7 DEF WorkerPublishes, RestTypes, Work
  <2> QED BY <1>t, <2>1, <2>2 DEF RestTypes
<1> QED BY <1>1, <1>2, <1>3, <1>4, <1>5, <1>6, <1>7 DEF StandbyWorker

\* A session's own thread: what it can change, and to what.
ThreadStep(h) ==
    \/ /\ UNCHANGED inflight /\ sess[h].dq.at # "in"
       /\ \/ /\ sess[h].dq.at # "idle"
             /\ \E y \in Threads : ThreadOf(h, y) /\ y.at \in {"idle", "send", "wait"}
          \/ /\ sess[h].st = "live"
             /\ sess' = [sess EXCEPT ![h].dq = [Quiet EXCEPT !.at = "check", !.f = sess[h].pend],
                                     ![h].pend = NoFrame]
          \/ /\ sess[h].dq.at = "idle"
             /\ sess' = [sess EXCEPT ![h] = NoSess]
    \/ /\ inflight = 0 /\ inflight' = 1 /\ sess[h].dq.at # "idle"
       /\ \E y \in Threads : ThreadOf(h, y) /\ y.at = "in" /\ y.cb = cb
    \/ /\ sess[h].dq.at = "in"
       /\ inflight' = IF inflight > 0 THEN inflight - 1 ELSE inflight
       /\ ThreadOf(h, Quiet)

\* A thread about to enter leaves or goes in.
LEMMA EnterOf ==
    ASSUME NEW h \in HwSessions, NEW ep, Enter(h, ep), inflight = 0, cb \in Nat, sess[h].dq \in Threads
    PROVE  \/ UNCHANGED inflight /\ ThreadOf(h, Quiet)
           \/ inflight' = 1 /\ \E y \in Threads : ThreadOf(h, y) /\ y.at = "in" /\ y.cb = cb
<1> DEFINE y == [sess[h].dq EXCEPT !.at = "in", !.cb = cb]
<1>1. y \in Threads /\ y.at = "in" /\ y.cb = cb
  BY DEF Threads
<1>2. \/ UNCHANGED inflight /\ sess' = [sess EXCEPT ![h].dq = Quiet]
      \/ inflight' = 1 /\ sess' = [sess EXCEPT ![h].dq = y]
  BY DEF Enter
<1> HIDE DEF y
<1> QED BY <1>1, <1>2 DEF ThreadOf

LEMMA CaptureStep ==
    ASSUME LifeTypes, NEW h \in HwSessions, CaptureThreads(h)
    PROVE  /\ ThreadStep(h)
           /\ UNCHANGED <<lq, lives, encodes, cb, cbEpoch, gen, epoch, releaseState, encoderState,
                          workerState>>
<1>t. sess[h].dq \in Threads /\ inflight \in Nat /\ cb \in Nat /\ cbEpoch \in Nat /\ Quiet \in Threads
      /\ Quiet.at = "idle"
  BY LifeConstants DEF LifeTypes, Sessions
<1> DEFINE Others == UNCHANGED <<lq, lives, encodes, cb, cbEpoch, gen, epoch, releaseState, encoderState,
                                 workerState>>
<1>1. CASE FrameCoded(h)
  BY <1>1 DEF FrameCoded, ThreadStep, callbackState
<1>2. CASE GenerationChecked(h)
  <2> DEFINE x == IF sess[h].dq.f.gen = gen THEN [sess[h].dq EXCEPT !.at = "send"] ELSE Quiet
  <2>1. x \in Threads /\ x.at \in {"idle", "send", "wait"}
    BY <1>t DEF Threads
  <2>2. ThreadOf(h, x) /\ Others /\ UNCHANGED inflight /\ sess[h].dq.at = "check"
    BY <1>2 DEF GenerationChecked, ThreadOf, callbackState
  <2> HIDE DEF x
  <2> QED BY <2>1, <2>2 DEF ThreadStep
<1>3. CASE SendFrame(h)
  <2>1. ThreadOf(h, Quiet) /\ Others /\ UNCHANGED inflight /\ sess[h].dq.at = "send"
    BY <1>3 DEF SendFrame, ThreadOf, callbackState
  <2> QED BY <1>t, <2>1 DEF ThreadStep
<1>4. CASE BeginEncodeCallback(h)
  <2>1. Others /\ sess[h].dq.at = "send"
    BY <1>4 DEF BeginEncodeCallback
  <2>2. CASE inflight = 0
    <3>1. Enter(h, cbEpoch)
      BY <1>4, <2>2 DEF BeginEncodeCallback
    <3> QED BY <1>t, <2>1, <2>2, <3>1, EnterOf DEF ThreadStep
  <2>3. CASE inflight # 0
    <3> DEFINE y == [sess[h].dq EXCEPT !.at = "wait", !.ep = cbEpoch]
    <3>1. y \in Threads /\ y.at = "wait"
      BY <1>t DEF Threads
    <3>2. ThreadOf(h, y) /\ UNCHANGED inflight
      BY <1>4, <2>3 DEF BeginEncodeCallback, ThreadOf
    <3> HIDE DEF y
    <3> QED BY <2>1, <3>1, <3>2 DEF ThreadStep
  <2> QED BY <2>2, <2>3
<1>5. CASE CallbackWaited(h)
  <2>1. Others /\ inflight = 0 /\ sess[h].dq.at = "wait" /\ Enter(h, sess[h].dq.ep)
    BY <1>5 DEF CallbackWaited
  <2> QED BY <1>t, <2>1, EnterOf DEF ThreadStep
<1>6. CASE EndEncodeCallback(h)
  BY <1>6 DEF EndEncodeCallback, ThreadStep, ThreadOf
<1>7. CASE SessionGone(h)
  BY <1>7 DEF SessionGone, ThreadStep, callbackState
<1> QED BY <1>1, <1>2, <1>3, <1>4, <1>5, <1>6, <1>7 DEF CaptureThreads

\* The threads and sessions after it: the others are as they were.
LEMMA ThreadsAfter ==
    ASSUME LifeTypes, Unthreaded, NEW h \in HwSessions, ThreadStep(h)
    PROVE  /\ sess' \in [HwSessions -> Sessions] /\ inflight' \in Nat
           /\ \A k \in HwSessions \ {h} : sess'[k].dq = sess[k].dq /\ sess'[k].st = sess[k].st
<1>t. sess \in [HwSessions -> Sessions] /\ inflight \in Nat /\ sess[h] \in Sessions
      /\ sess[h].dq \in Threads /\ sess[h].pend \in Coding
  BY DEF LifeTypes, Sessions
<1>i. inflight' \in Nat
  BY <1>t DEF ThreadStep
<1>1. ASSUME NEW y \in Threads, ThreadOf(h, y)
      PROVE  /\ sess' \in [HwSessions -> Sessions]
             /\ \A k \in HwSessions \ {h} : sess'[k].dq = sess[k].dq /\ sess'[k].st = sess[k].st
  BY <1>t, <1>1, OneThread
<1>2. ASSUME NEW z \in Sessions, sess' = [sess EXCEPT ![h] = z]
      PROVE  /\ sess' \in [HwSessions -> Sessions]
             /\ \A k \in HwSessions \ {h} : sess'[k].dq = sess[k].dq /\ sess'[k].st = sess[k].st
  BY <1>t, <1>2
<1>3. CASE sess' = [sess EXCEPT ![h].dq = [Quiet EXCEPT !.at = "check", !.f = sess[h].pend],
                                ![h].pend = NoFrame]
  <2> DEFINE y == [Quiet EXCEPT !.at = "check", !.f = sess[h].pend]
             z == [[sess[h] EXCEPT !.dq = y] EXCEPT !.pend = NoFrame]
  <2>1. y \in Threads
    BY <1>t, LifeConstants DEF Threads
  <2>2. sess' = [sess EXCEPT ![h] = z]
    BY <1>t, <1>3
  <2> HIDE DEF y
  <2>3. z \in Sessions
    BY <1>t, <2>1, LifeConstants DEF Sessions
  <2> HIDE DEF z
  <2> QED BY <1>i, <1>2, <2>2, <2>3
<1>4. CASE sess' = [sess EXCEPT ![h] = NoSess]
  BY <1>i, <1>2, <1>4, LifeConstants
<1>5. Quiet \in Threads
  BY LifeConstants
<1> QED BY <1>i, <1>1, <1>3, <1>4, <1>5 DEF ThreadStep

\* The callback that releases its own encoder.
LEMMA CallbackReleasesOf ==
    ASSUME LifeTypes, NEW h \in HwSessions, CallbackReleases(h), UNCHANGED mainStream
    PROVE  /\ RestTypes' /\ sess' \in [HwSessions -> Sessions] /\ cb' = 0 /\ inflight' = inflight
           /\ sess[h].dq.at = "in" /\ sess'[h].dq.at = "in" /\ sess'[h].dq.cb = 0
           /\ sess'[h].st = sess[h].st
           /\ \A k \in HwSessions \ {h} : sess'[k] = sess[k]
<1>t. /\ RestTypes /\ sess \in [HwSessions -> Sessions] /\ sess[h] \in Sessions /\ sess[h].dq \in Threads
      /\ gen + 1 \in Nat /\ epoch + 1 \in Nat /\ relSeq + 1 \in Nat /\ cbEpoch + 1 \in Nat
  BY DEF LifeTypes, RestTypes, Sessions
<1>1. lq' \in [at : QueuePoints, size : Nat]
  BY <1>t, QueueMoves DEF CallbackReleases, RestTypes, QueuePoints
<1>2. defer' \in [on : BOOLEAN, seq : Nat, due : BOOLEAN]
  BY <1>t DEF CallbackReleases, ScheduleDeferredRelease
<1>3. /\ UNCHANGED <<lives, encodes, inflight, active, standby, maxed, retired, wstop, wk, mainStream>>
      /\ epoch' = epoch + 1 /\ stbyOn' = FALSE /\ gen' = gen + 1 /\ cbEpoch' = cbEpoch + 1 /\ cb' = 0
      /\ released' = TRUE /\ relSeq' = relSeq + 1 /\ grace' = FALSE /\ want' = FALSE
  BY DEF CallbackReleases, Cleared, ScheduleDeferredRelease
<1>4. RestTypes'
  BY <1>t, <1>1, <1>2, <1>3 DEF RestTypes
<1> DEFINE y == [sess[h].dq EXCEPT !.cb = 0]
<1>5. sess[h].dq.at = "in" /\ ThreadOf(h, y)
  BY <1>t DEF CallbackReleases, ThreadOf
<1>6. y \in Threads /\ y.at = "in" /\ y.cb = 0
  BY <1>t, <1>5 DEF Threads
<1>7. \A k \in HwSessions \ {h} : sess'[k] = sess[k]
  BY <1>t, <1>5 DEF ThreadOf
<1> HIDE DEF y
<1> QED BY <1>t, <1>3, <1>4, <1>5, <1>6, <1>7, OneThread

-----------------------------------------------------------------------------
(* Who is in WebRTC's callback.                                             *)

Waits == {"releaseWait", "destroyWait"}
Inside(h) == sess[h].dq.at = "in"

\* One thread, whom callback_inflight_ counts, with the callback registered now:
\* or Release waits for it to leave.
Lease ==
    /\ LifeTypes /\ Unthreaded
    /\ \A h, k \in HwSessions : Inside(h) /\ Inside(k) => h = k
    /\ inflight = 0 => \A h \in HwSessions : ~Inside(h)
    /\ inflight # 0 => inflight = 1 /\ \E h \in HwSessions : Inside(h)
    /\ \A h \in HwSessions : Inside(h) => sess[h].dq.cb = cb \/ lq.at \in Waits

\* The callback changes, and Release goes on, with nobody in it.
LEMMA OwnersKeepCallback ==
    ASSUME LifeTypes, OwnersStep
    PROVE  \/ inflight = 0
           \/ lq'.at \in Waits
           \/ cb' = cb /\ lq.at \notin Waits
<1>t. lq \in [at : QueuePoints, size : Nat]
  BY DEF LifeTypes
<1> USE DEF callbackState, releaseState, encoderState, workerState, Waits
<1>1. ASSUME NEW s \in 1 .. MaxSize, InitEncode(s) PROVE cb' = cb /\ lq.at \notin Waits
  BY <1>1 DEF InitEncode
<1>2. ASSUME NEW s \in 1 .. MaxSize,
             EncodeCreates(s) \/ EncodeDown(s) \/ EncodeStandby(s) \/ EncodeWithoutStandby(s) \/ EncodeSame
      PROVE  cb' = cb /\ lq.at \notin Waits
  BY <1>2 DEF EncodeCreates, EncodeDown, EncodeStandby, EncodeWithoutStandby, EncodeSame, Encode
<1>3. CASE EncodeSame
  BY <1>3 DEF EncodeSame, Encode
<1>4. ASSUME NEW d \in BOOLEAN, ReleaseClears(d) PROVE lq'.at \in Waits
  BY <1>t, <1>4, QueueMoves DEF ReleaseClears, QueuePoints
<1>5. CASE CancelDeferredRelease \/ InitStopsWorker \/ WorkerJoined \/ InitReuses \/ InitCreates
           \/ DestroySessions
  BY <1>5 DEF CancelDeferredRelease, InitStopsWorker, WorkerJoined, InitReuses, InitCreates,
     DestroySessions
<1>6. CASE RegisterEncodeCompleteCallback \/ ReleaseReturns \/ DestroyStopsWorker
  BY <1>6 DEF RegisterEncodeCompleteCallback, ReleaseReturns, DestroyStopsWorker, CallbackLeft
<1>7. CASE StandbyWorker \/ GracePasses
  <2>1. cb' = cb /\ lq' = lq
    BY <1>7 DEF StandbyWorker, GracePasses, WorkerWakes, WorkerDestroyed, WorkerFrees, WorkerFreed,
       WorkerLooks, WorkerWarms, WorkerPublishes
  <2> QED BY <2>1
<1> QED BY <1>1, <1>2, <1>3, <1>4, <1>5, <1>6, <1>7 DEF OwnersStep, QueueGoesOn

LEMMA OwnersKeepTypes ==
    ASSUME LifeTypes, Unthreaded, OwnersStep, UNCHANGED mainStream
    PROVE  LifeTypes' /\ Unthreaded' /\ SameThreads /\ inflight' = inflight
<1>1. SameThreads /\ inflight' = inflight
  BY OwnersLeaveThreads
<1>2. RestTypes'
  BY QueueTypes, WorkerTypes DEF OwnersStep, QueueStep
<1>3. LifeTypes'
  BY <1>1, <1>2 DEF LifeTypes, RestTypes, SameThreads
<1>4. Unthreaded'
  BY <1>1 DEF Unthreaded, SameThreads
<1> QED BY <1>1, <1>3, <1>4

LEMMA OwnersKeepLease ==
    ASSUME Lease, OwnersStep, UNCHANGED mainStream
    PROVE  Lease'
<1>1. LifeTypes' /\ Unthreaded' /\ SameThreads /\ inflight' = inflight
  BY OwnersKeepTypes DEF Lease
<1>2. \A h \in HwSessions : Inside(h)' = Inside(h) /\ (Inside(h) => sess'[h].dq = sess[h].dq)
  <2> SUFFICES ASSUME NEW h \in HwSessions
               PROVE  Inside(h)' = Inside(h) /\ (Inside(h) => sess'[h].dq = sess[h].dq)
    OBVIOUS
  <2>1. CASE sess'[h].dq = sess[h].dq
    BY <2>1 DEF Inside
  <2>2. CASE sess[h].st = "none" /\ sess'[h].dq.at = "idle"
    BY <2>2 DEF Inside, Lease, Unthreaded
  <2> QED BY <1>1, <2>1, <2>2 DEF SameThreads
<1>3. \A h \in HwSessions : Inside(h)' => sess'[h].dq.cb = cb' \/ lq'.at \in Waits
  BY <1>2, OwnersKeepCallback DEF Lease
<1> QED BY <1>1, <1>2, <1>3 DEF Lease

LEMMA ThreadsKeepLease ==
    ASSUME Lease, NEW h \in HwSessions, CaptureThreads(h), UNCHANGED mainStream
    PROVE  Lease'
<1>1. /\ ThreadStep(h)
      /\ UNCHANGED <<lq, lives, encodes, cb, cbEpoch, gen, epoch, releaseState, encoderState, workerState>>
  BY CaptureStep DEF Lease
<1>2. /\ sess' \in [HwSessions -> Sessions] /\ inflight' \in Nat
      /\ \A k \in HwSessions \ {h} : sess'[k].dq = sess[k].dq /\ sess'[k].st = sess[k].st
  BY <1>1, ThreadsAfter DEF Lease
<1>3. LifeTypes'
  BY <1>1, <1>2 DEF Lease, LifeTypes, releaseState, encoderState, workerState
<1>s. sess \in [HwSessions -> Sessions] /\ sess[h] \in Sessions /\ inflight \in Nat
  BY DEF Lease, LifeTypes
<1>4. \A k \in HwSessions \ {h} : Inside(k)' = Inside(k)
  BY <1>2 DEF Inside
<1>5. ASSUME NEW y \in Threads, ThreadOf(h, y)
      PROVE  sess'[h].dq = y /\ sess'[h].st = sess[h].st
  BY <1>5, <1>s, OneThread
<1>6. Lease /\ cb' = cb /\ lq' = lq
  BY <1>1
<1>q. Quiet \in Threads /\ Quiet.at = "idle"
  BY LifeConstants
\* Nobody goes in and nobody leaves.
<1>7. ASSUME UNCHANGED inflight, sess'[h].dq.at # "in", ~Inside(h), sess'[h].st = "none" => sess'[h].dq.at = "idle"
      PROVE  Lease'
  <2>1. \A k \in HwSessions : /\ Inside(k)' = Inside(k)
                              /\ Inside(k) => sess'[k].dq = sess[k].dq
    BY <1>2, <1>4, <1>7 DEF Inside
  <2>2. Unthreaded'
    BY <1>2, <1>6, <1>7 DEF Lease, Unthreaded
  <2> QED BY <1>3, <1>6, <1>7, <2>1, <2>2 DEF Lease
\* One goes in where nobody was.
<1>8. ASSUME inflight = 0, inflight' = 1, sess'[h].dq.at = "in", sess'[h].dq.cb = cb, sess'[h].st # "none"
      PROVE  Lease'
  <2>1. \A k \in HwSessions : Inside(k)' => k = h
    BY <1>4, <1>6, <1>8 DEF Lease
  <2>2. Inside(h)'
    BY <1>8 DEF Inside
  <2>3. Unthreaded'
    BY <1>2, <1>6, <1>8 DEF Lease, Unthreaded
  <2>4. \A k \in HwSessions : Inside(k)' => sess'[k].dq.cb = cb'
    BY <1>6, <1>8, <2>1
  <2>5. \A j, k \in HwSessions : Inside(j)' /\ Inside(k)' => j = k
    BY <2>1
  <2>6. LifeTypes' /\ Unthreaded' /\ inflight' = 1
    BY <1>3, <1>8, <2>3
  <2> QED BY <2>2, <2>4, <2>5, <2>6 DEF Lease
\* The one who was in leaves.
<1>9. ASSUME Inside(h), inflight' = IF inflight > 0 THEN inflight - 1 ELSE inflight, sess'[h].dq.at = "idle"
      PROVE  Lease'
  <2>1. inflight = 1 /\ inflight' = 0
    BY <1>6, <1>9, <1>s DEF Lease
  <2>2. \A k \in HwSessions : ~Inside(k)'
    BY <1>4, <1>6, <1>9 DEF Lease, Inside
  <2>3. Unthreaded'
    BY <1>2, <1>6, <1>9 DEF Lease, Unthreaded
  <2> QED BY <1>3, <1>6, <2>1, <2>2, <2>3 DEF Lease
<1>10. CASE /\ UNCHANGED inflight /\ sess[h].dq.at # "in" /\ sess[h].dq.at # "idle"
            /\ \E y \in Threads : ThreadOf(h, y) /\ y.at \in {"idle", "send", "wait"}
  <2>1. sess'[h].dq.at # "in" /\ sess'[h].st = sess[h].st
    BY <1>5, <1>10
  <2>2. sess[h].st # "none"
    BY <1>6, <1>10 DEF Lease, Unthreaded
  <2> QED BY <1>7, <1>10, <2>1, <2>2 DEF Inside
<1>11. CASE /\ UNCHANGED inflight /\ sess[h].dq.at # "in" /\ sess[h].st = "live"
            /\ sess' = [sess EXCEPT ![h].dq = [Quiet EXCEPT !.at = "check", !.f = sess[h].pend],
                                    ![h].pend = NoFrame]
  <2>1. [Quiet EXCEPT !.at = "check", !.f = sess[h].pend].at = "check"
    BY LifeConstants DEF Threads
  <2>2. sess'[h].dq.at = "check" /\ sess'[h].st = "live"
    BY <1>11, <1>s, <2>1 DEF Sessions
  <2> QED BY <1>7, <1>11, <2>2 DEF Inside
<1>12. CASE UNCHANGED inflight /\ sess[h].dq.at = "idle" /\ sess' = [sess EXCEPT ![h] = NoSess]
  <2>1. sess'[h].dq.at = "idle"
    BY <1>12, <1>s, LifeConstants
  <2> QED BY <1>7, <1>12, <2>1 DEF Inside
<1>13. CASE /\ inflight = 0 /\ inflight' = 1 /\ sess[h].dq.at # "idle"
            /\ \E y \in Threads : ThreadOf(h, y) /\ y.at = "in" /\ y.cb = cb
  <2>1. sess'[h].dq.at = "in" /\ sess'[h].dq.cb = cb /\ sess'[h].st = sess[h].st
    BY <1>5, <1>13
  <2>2. sess[h].st # "none"
    BY <1>6, <1>13 DEF Lease, Unthreaded
  <2> QED BY <1>8, <1>13, <2>1, <2>2
<1>14. CASE /\ sess[h].dq.at = "in"
            /\ inflight' = IF inflight > 0 THEN inflight - 1 ELSE inflight
            /\ ThreadOf(h, Quiet)
  <2>1. sess'[h].dq.at = "idle"
    BY <1>5, <1>q, <1>14
  <2> QED BY <1>9, <1>14, <2>1 DEF Inside
<1> QED BY <1>1, <1>10, <1>11, <1>12, <1>13, <1>14 DEF ThreadStep

LEMMA ReleasingKeepsLease ==
    ASSUME Lease, NEW h \in HwSessions, CallbackReleases(h), UNCHANGED mainStream
    PROVE  Lease'
<1>1. /\ RestTypes' /\ sess' \in [HwSessions -> Sessions] /\ cb' = 0 /\ inflight' = inflight
      /\ sess[h].dq.at = "in" /\ sess'[h].dq.at = "in" /\ sess'[h].dq.cb = 0
      /\ sess'[h].st = sess[h].st
      /\ \A k \in HwSessions \ {h} : sess'[k] = sess[k]
  BY CallbackReleasesOf DEF Lease
<1>2. LifeTypes'
  BY <1>1 DEF LifeTypes, RestTypes
<1>3. Lease
  OBVIOUS
<1>4. \A k \in HwSessions : Inside(k)' = Inside(k) /\ (Inside(k) => k = h)
  BY <1>1, <1>3 DEF Lease, Inside
<1>5. \A k \in HwSessions : Inside(k)' => sess'[k].dq.cb = cb'
  BY <1>1, <1>4
<1>6. Unthreaded'
  BY <1>1, <1>3 DEF Lease, Unthreaded
<1> QED BY <1>1, <1>2, <1>3, <1>4, <1>5, <1>6 DEF Lease

LEMMA LeaseInit == LifeInit => Lease
<1> SUFFICES ASSUME LifeInit PROVE Lease
  OBVIOUS
<1>1. sess = [h \in HwSessions |-> NoSess]
  BY DEF LifeInit
<1>2. \A h \in HwSessions : sess[h].dq.at = "idle"
  BY <1>1, LifeConstants
<1>3. sess \in [HwSessions -> Sessions]
  BY <1>1, LifeConstants
<1>4. RestTypes
  BY LifeConstants DEF LifeInit, RestTypes, QueuePoints
<1>5. LifeTypes /\ inflight = 0
  BY <1>3, <1>4 DEF LifeInit, LifeTypes, RestTypes
<1>6. Unthreaded /\ \A h \in HwSessions : ~Inside(h)
  BY <1>2 DEF Unthreaded, Inside
<1> QED BY <1>5, <1>6 DEF Lease

LEMMA LeaseStep == Lease /\ [LifeNext]_<<mainStream, lifeVars>> => Lease'
<1> SUFFICES ASSUME Lease, [LifeNext]_<<mainStream, lifeVars>> PROVE Lease'
  OBVIOUS
<1>1. CASE UNCHANGED <<mainStream, lifeVars>>
  BY <1>1 DEF Lease, LifeTypes, Unthreaded, Inside, lifeVars
<1>2. CASE LifeNext
  <2>1. \/ OwnersStep
        \/ \E h \in HwSessions : CaptureThreads(h) \/ CallbackReleases(h)
    BY <1>2 DEF LifeNext, OwnersStep
  <2>2. UNCHANGED mainStream
    BY <1>2 DEF LifeNext
  <2> QED BY <2>1, <2>2, OwnersKeepLease, ThreadsKeepLease, ReleasingKeepsLease
<1> QED BY <1>1, <1>2

LEMMA Leased == LifeSpec => []Lease
BY LeaseInit, LeaseStep, PTL DEF LifeSpec

\* JetsonH264EncoderImpl::BeginEncodeCallback, EndEncodeCallback and
\* ClearEncodeCallbackAndWait: however many sessions, retired and standby ones
\* among them, are about to deliver a frame, one of their threads at a time is
\* in WebRTC's callback, and it is the callback registered now, or Release or
\* the destructor still waits for that thread.
THEOREM OneInTheCallback == LifeSpec => []CallbackLease
<1>1. Lease => CallbackLease
  <2> SUFFICES ASSUME Lease PROVE CallbackLease
    OBVIOUS
  <2>1. \A h, k \in In : h = k
    BY DEF Lease, In, Inside
  <2>2. In = {} \/ \E h \in In : In = {h}
    BY <2>1
  <2>3. Cardinality(In) =< 1
    <3>1. Cardinality({}) = 0 /\ \A h : Cardinality({h}) = 1
      BY FS_EmptySet, FS_Singleton
    <3>2. Cardinality(In) = 0 \/ Cardinality(In) = 1
      BY <2>2, <3>1, Zenon
    <3> QED BY <3>2
  <2> QED BY <2>3 DEF CallbackLease, Lease, In, Inside, Waits
<1> QED BY <1>1, Leased, PTL

-----------------------------------------------------------------------------
(* What the worker may free.                                                *)

\* The order of a release comes with its number, which nothing exceeds; what the
\* worker has taken it took when the grace period had passed, so that while the
\* number has not moved on no other Release has begun another one.
Graced ==
    /\ LifeTypes /\ Unthreaded
    /\ defer.seq =< relSeq
    /\ defer.on /\ defer.due /\ defer.seq = relSeq => grace
    /\ wk.seq =< relSeq
    /\ wk.rel /\ wk.seq = relSeq => grace
    /\ wk.at = "free" => wk.rel

\* A step that leaves the release's state and the worker alone.
Apart == UNCHANGED <<relSeq, defer, grace, wk>>

LEMMA ApartKeepsGraced ==
    ASSUME Graced, LifeTypes', Unthreaded', Apart
    PROVE  Graced'
BY DEF Graced, Apart

LEMMA OwnersKeepGraced ==
    ASSUME Graced, OwnersStep, UNCHANGED mainStream
    PROVE  Graced'
<1>1. LifeTypes' /\ Unthreaded'
  BY OwnersKeepTypes DEF Graced
<1>t. /\ relSeq \in Nat /\ wk \in Work /\ defer \in [on : BOOLEAN, seq : Nat, due : BOOLEAN]
      /\ NoWork \in Work /\ NoWork.seq = 0 /\ ~NoWork.rel /\ NoWork.at = "none"
  BY LifeConstants DEF Graced, LifeTypes
<1>i. Graced
  OBVIOUS
<1>w. /\ [NoWork EXCEPT !.at = "wait"].seq = 0 /\ ~[NoWork EXCEPT !.at = "wait"].rel
      /\ [NoWork EXCEPT !.at = "wait"].at = "wait"
  BY <1>t DEF Work
<1> USE DEF callbackState, releaseState, encoderState, workerState
\* The steps that leave it alone.
<1>2. ASSUME NEW s \in 1 .. MaxSize,
             InitEncode(s) \/ EncodeCreates(s) \/ EncodeDown(s) \/ EncodeStandby(s) \/ EncodeWithoutStandby(s)
      PROVE  Graced'
  <2>1. Apart
    BY <1>2 DEF InitEncode, EncodeCreates, EncodeDown, EncodeStandby, EncodeWithoutStandby, Apart
  <2> QED BY <1>1, <2>1, ApartKeepsGraced
<1>3. CASE EncodeSame \/ WorkerJoined \/ InitReuses \/ RegisterEncodeCompleteCallback \/ DestroySessions
  <2>1. Apart
    BY <1>3 DEF EncodeSame, WorkerJoined, InitReuses, RegisterEncodeCompleteCallback, DestroySessions,
       Apart
  <2> QED BY <1>1, <2>1, ApartKeepsGraced
\* The steps that move the number on.
<1>4. ASSUME relSeq' = relSeq + 1, UNCHANGED wk, defer'.seq = defer.seq \/ ~defer'.due, defer'.seq =< relSeq + 1,
             defer'.on /\ defer'.due /\ defer'.seq = relSeq' => grace'
      PROVE  Graced'
  <2>1. wk.seq \in Nat /\ wk.seq =< relSeq
    BY <1>t, <1>i DEF Graced, Work
  <2>2. wk.seq # relSeq' /\ wk.seq =< relSeq'
    BY <1>4, <1>t, <2>1
  <2> QED BY <1>1, <1>4, <1>i, <2>2 DEF Graced
<1>5. ASSUME relSeq' = relSeq + 1, UNCHANGED wk, defer'.seq = defer.seq PROVE Graced'
  <2>1. defer.seq \in Nat /\ defer.seq =< relSeq
    BY <1>t, <1>i DEF Graced
  <2>2. defer'.seq =< relSeq + 1 /\ defer'.seq # relSeq'
    BY <1>5, <1>t, <2>1
  <2> QED BY <1>4, <1>5, <2>2
<1>6. ASSUME ScheduleDeferredRelease, UNCHANGED wk PROVE Graced'
  <2>1. relSeq' = relSeq + 1 /\ defer' = [on |-> TRUE, seq |-> relSeq + 1, due |-> FALSE]
    BY <1>6 DEF ScheduleDeferredRelease
  <2>2. ~defer'.due /\ defer'.seq = relSeq + 1
    BY <2>1
  <2> QED BY <1>t, <1>4, <1>6, <2>1, <2>2
<1>7. CASE CancelDeferredRelease
  <2>1. relSeq' = relSeq + 1 /\ UNCHANGED wk /\ defer'.seq = defer.seq
    BY <1>7, <1>t DEF CancelDeferredRelease
  <2> QED BY <1>5, <2>1
<1>8. CASE ReleaseReturns
  BY <1>6, <1>8 DEF ReleaseReturns
<1>9. ASSUME NEW d \in BOOLEAN, ReleaseClears(d) PROVE Graced'
  <2>1. Apart \/ (relSeq' = relSeq + 1 /\ UNCHANGED wk /\ defer'.seq = defer.seq)
    BY <1>9 DEF ReleaseClears, Apart
  <2> QED BY <1>1, <1>5, <2>1, ApartKeepsGraced
\* The steps that withdraw the request.
<1>10. CASE InitStopsWorker \/ DestroyStopsWorker
  <2>1. UNCHANGED <<relSeq, grace, wk>> /\ defer'.seq = defer.seq /\ ~defer'.on
    BY <1>10, <1>t DEF InitStopsWorker, DestroyStopsWorker
  <2> QED BY <1>1, <1>i, <2>1 DEF Graced
<1>11. CASE GracePasses
  <2>1. UNCHANGED <<relSeq, wk>> /\ grace' = TRUE /\ defer'.seq = defer.seq
    BY <1>11, <1>t DEF GracePasses
  <2> QED BY <1>1, <1>i, <2>1 DEF Graced
\* The worker begins anew.
<1>12. ASSUME wk' = [NoWork EXCEPT !.at = "wait"], UNCHANGED <<relSeq, defer, grace>>
       PROVE  Graced'
  <2>1. wk'.seq = 0 /\ ~wk'.rel /\ wk'.at = "wait"
    BY <1>12, <1>w
  <2> QED BY <1>1, <1>i, <1>t, <1>12, <2>1 DEF Graced
<1>13. CASE InitCreates
  <2>1. Apart \/ (wk' = [NoWork EXCEPT !.at = "wait"] /\ UNCHANGED <<relSeq, defer, grace>>)
    BY <1>13 DEF InitCreates, Apart
  <2> QED BY <1>1, <1>12, <2>1, ApartKeepsGraced
\* It goes on with what it has taken.
<1>14. ASSUME wk'.rel = wk.rel, wk'.seq = wk.seq, wk'.at = "free" => wk.rel, UNCHANGED <<relSeq, defer, grace>>
       PROVE  Graced'
  BY <1>1, <1>i, <1>14 DEF Graced
<1>15. CASE WorkerWakes
  <2> DEFINE r == ~wstop /\ defer.on /\ defer.due
  <2>1. wk'.at = "destroy" /\ wk'.rel = r /\ wk'.seq = IF r THEN defer.seq ELSE 0
    BY <1>15, <1>t DEF WorkerWakes, Work
  <2>2. UNCHANGED <<relSeq, grace>> /\ defer'.seq = defer.seq /\ (defer' = defer \/ ~defer'.on)
    BY <1>15, <1>t DEF WorkerWakes
  <2> QED BY <1>1, <1>i, <1>t, <2>1, <2>2 DEF Graced
<1>16. CASE WorkerDestroyed
  <2>1. UNCHANGED <<relSeq, defer, grace>>
    BY <1>16 DEF WorkerDestroyed
  <2>2. CASE wk' = NoWork
    BY <1>1, <1>i, <1>t, <2>1, <2>2 DEF Graced
  <2>3. CASE wk' = [wk EXCEPT !.at = IF wk.rel /\ StillReleased THEN "free" ELSE "look", !.kill = {}]
    <3>1. wk'.rel = wk.rel /\ wk'.seq = wk.seq /\ (wk'.at = "free" => wk.rel)
      BY <2>3, <1>t DEF Work
    <3> QED BY <1>14, <2>1, <3>1
  <2> QED BY <1>16, <2>2, <2>3 DEF WorkerDestroyed
<1>17. CASE WorkerFrees \/ WorkerFreed
  <2>1. UNCHANGED <<relSeq, defer, grace>>
    BY <1>17 DEF WorkerFrees, WorkerFreed
  <2>2. \E K : \/ wk' = [wk EXCEPT !.at = "freeing", !.kill = K]
               \/ wk' = [wk EXCEPT !.at = "freeing"]
               \/ wk' = [wk EXCEPT !.at = "look", !.kill = K]
    BY <1>17 DEF WorkerFrees, WorkerFreed, FreeIfReleased
  <2>3. wk'.rel = wk.rel /\ wk'.seq = wk.seq /\ wk'.at # "free"
    BY <2>2, <1>t DEF Work
  <2> QED BY <1>14, <2>1, <2>3
<1>18. CASE WorkerLooks \/ WorkerWarms \/ WorkerPublishes
  <2>1. UNCHANGED <<relSeq, defer, grace>>
    BY <1>18 DEF WorkerLooks, WorkerWarms, WorkerPublishes
  <2>2. \/ wk' = [NoWork EXCEPT !.at = "wait"]
        \/ wk' = [wk EXCEPT !.at = "warm", !.size = maxed, !.epoch = epoch]
        \/ \E h : wk' = [wk EXCEPT !.at = "publish", !.made = h]
    BY <1>18 DEF WorkerLooks, WorkerWarms, WorkerPublishes
  <2>3. CASE wk' = [NoWork EXCEPT !.at = "wait"]
    BY <1>12, <2>1, <2>3
  <2>4. CASE \/ wk' = [wk EXCEPT !.at = "warm", !.size = maxed, !.epoch = epoch]
             \/ \E h : wk' = [wk EXCEPT !.at = "publish", !.made = h]
    <3>1. wk'.rel = wk.rel /\ wk'.seq = wk.seq /\ wk'.at # "free"
      BY <2>4, <1>t DEF Work
    <3> QED BY <1>14, <2>1, <3>1
  <2> QED BY <2>2, <2>3, <2>4
<1> QED BY <1>2, <1>3, <1>7, <1>8, <1>9, <1>10, <1>11, <1>13, <1>15, <1>16, <1>17, <1>18
    DEF OwnersStep, QueueGoesOn, StandbyWorker

LEMMA GracedInit == LifeInit => Graced
<1>1. LifeInit => Lease
  BY LeaseInit
<1> QED BY <1>1, LifeConstants DEF Lease, Graced, LifeInit

LEMMA GracedStep == Lease /\ Lease' /\ Graced /\ [LifeNext]_<<mainStream, lifeVars>> => Graced'
<1> SUFFICES ASSUME Lease, Lease', Graced, [LifeNext]_<<mainStream, lifeVars>> PROVE Graced'
  OBVIOUS
<1>t. LifeTypes' /\ Unthreaded'
  BY DEF Lease
<1>1. CASE UNCHANGED <<mainStream, lifeVars>>
  <2>1. Apart
    BY <1>1 DEF lifeVars, Apart
  <2> QED BY <1>t, <2>1, ApartKeepsGraced
<1>2. CASE LifeNext
  <2>1. CASE OwnersStep
    BY <1>2, <2>1, OwnersKeepGraced DEF LifeNext
  <2>2. ASSUME NEW h \in HwSessions, CaptureThreads(h) PROVE Graced'
    <3>1. Apart
      BY <2>2, CaptureStep DEF Apart, Graced, releaseState, workerState
    <3> QED BY <1>t, <3>1, ApartKeepsGraced
  <2>3. ASSUME NEW h \in HwSessions, CallbackReleases(h) PROVE Graced'
    <3>1. /\ relSeq' = relSeq + 1 /\ defer' = [on |-> TRUE, seq |-> relSeq + 1, due |-> FALSE]
          /\ UNCHANGED wk
      BY <2>3 DEF CallbackReleases, ScheduleDeferredRelease
    <3>2. ~defer'.due /\ defer'.seq = relSeq + 1
      BY <3>1
    <3>3. Graced /\ relSeq \in Nat /\ wk.seq \in Nat
      BY DEF Graced, LifeTypes, Work
    <3>4. wk.seq # relSeq' /\ wk.seq =< relSeq' /\ defer'.seq =< relSeq'
      BY <3>1, <3>2, <3>3 DEF Graced
    <3> QED BY <1>t, <3>1, <3>2, <3>3, <3>4 DEF Graced
  <2> QED BY <1>2, <2>1, <2>2, <2>3 DEF LifeNext, OwnersStep
<1> QED BY <1>1, <1>2

\* JetsonH264EncoderImpl::StandbyWorkerLoop: whenever the worker frees the
\* hardware, the encoder is released and the grace period of its last Release has
\* passed, whatever InitEncode and Release calls came while the worker looked.
THEOREM HardwareOutlivesGrace == LifeSpec => GraceKept
<1>1. LifeInit => Lease /\ Graced
  BY LeaseInit, GracedInit
<1>2. Lease /\ Graced /\ [LifeNext]_<<mainStream, lifeVars>> => (Lease /\ Graced)'
  BY LeaseStep, GracedStep
<1>3. Graced /\ [LifeNext]_<<mainStream, lifeVars>>
        => [WorkerFrees /\ active' # active => released /\ grace]_lifeVars
  <2> SUFFICES ASSUME Graced, WorkerFrees, active' # active
               PROVE  released /\ grace
    BY DEF lifeVars
  <2>1. StillReleased /\ wk.at = "free"
    BY DEF WorkerFrees, FreeIfReleased
  <2> QED BY <2>1 DEF Graced, StillReleased
<1> QED BY <1>1, <1>2, <1>3, PTL DEF LifeSpec, GraceKept

-----------------------------------------------------------------------------
(* Whose the sessions are.                                                  *)

\* The sessions that run, and the one the worker has made and not published.
Alive(S) == {h \in HwSessions : S[h].st = "live"}
InHand(w) == IF w.at = "publish" THEN w.made ELSE 0

\* The sessions in L are a, s and m, as far as they are not 0, and those in r;
\* and none of them is two of these.
Owners(L, a, s, r, m) ==
    /\ L = ({a, s, m} \ {0}) \cup r
    /\ 0 \notin r /\ m \notin r
    /\ a # 0 => a # s /\ a \notin r /\ a # m
    /\ s # 0 => s \notin r /\ s # m

\* What the steps do to the owners.
LEMMA OwnersTake ==
    ASSUME NEW L, NEW a, NEW s, NEW r, NEW m, NEW h, Owners(L, a, s, r, m), h \notin L, h # 0
    PROVE  /\ Owners(L \cup {h}, h, s, r \cup ({a} \ {0}), m)
           /\ Owners(L \cup {h}, h, 0, r \cup ({a, s} \ {0}), m)
           /\ m = 0 => Owners(L \cup {h}, a, s, r, h)
BY DEF Owners

LEMMA OwnersRetire ==
    ASSUME NEW L, NEW a, NEW s, NEW r, NEW m, Owners(L, a, s, r, m)
    PROVE  /\ Owners(L, 0, s, r \cup ({a} \ {0}), m)
           /\ Owners(L, 0, 0, r \cup ({a, s} \ {0}), m)
           /\ Owners(L, a, 0, r \cup ({s} \ {0}), m)
           /\ s # 0 => Owners(L, s, 0, r \cup ({a} \ {0}), m)
           /\ s = 0 => Owners(L, a, m, r, 0)
BY DEF Owners

LEMMA OwnersDestroy ==
    ASSUME NEW L, NEW a, NEW s, NEW r, NEW m, Owners(L, a, s, r, m)
    PROVE  /\ Owners(L \ r, a, s, {}, m)
           /\ Owners(L \ {m}, a, s, r, 0)
           /\ Owners(L \ ((r \cup {s}) \ {0}), a, 0, {}, m)
           /\ Owners(L \ ({a, s} \ {0}), 0, 0, r, m)
           /\ Owners(L \ ((r \cup {a, s}) \ {0}), 0, 0, {}, m)
BY DEF Owners

\* Every session that runs has one owner.  Until InitEncode has made a session
\* there is none in use and no worker, and the destructor leaves none running.
SessionsOwned ==
    /\ Owners(Alive(sess), active, standby, retired, InHand(wk))
    /\ lq.at = "destroyed" => Alive(sess) = {}

OwnedInv ==
    /\ SessionsOwned
    /\ lq.at \in {"stopWorker", "create"} => active = 0
    /\ lq.at \in {"create", "destroyed"} => wk.at = "none"

\* What the steps do to the sessions that run.
LEMMA AliveDying ==
    ASSUME NEW V, sess \in [HwSessions -> Sessions], sess' = Dying(V, sess)
    PROVE  Alive(sess') = Alive(sess) \ V
<1>1. ASSUME NEW h \in HwSessions
      PROVE  sess'[h].st = IF h \in V THEN "dying" ELSE sess[h].st
  <2>1. sess'[h] = IF h \in V THEN [sess[h] EXCEPT !.st = "dying", !.pend = NoFrame] ELSE sess[h]
    BY DEF Dying
  <2>2. [sess[h] EXCEPT !.st = "dying", !.pend = NoFrame].st = "dying"
    BY DEF Sessions
  <2> QED BY <2>1, <2>2
<1> QED BY <1>1 DEF Alive

LEMMA AliveNew ==
    ASSUME NEW h \in Unmade, NEW s \in Nat, sess \in [HwSessions -> Sessions],
           sess' = [sess EXCEPT ![h] = NewSess(s)]
    PROVE  Alive(sess') = Alive(sess) \cup {h} /\ h \notin Alive(sess) /\ h # 0
<1>1. h \in HwSessions /\ sess[h].st = "none" /\ h # 0
  BY DEF Unmade
<1>2. NewSess(s).st = "live"
  BY LifeConstants DEF NewSess, Sessions
<1>3. \A k \in HwSessions : sess'[k].st = IF k = h THEN "live" ELSE sess[k].st
  BY <1>1, <1>2
<1> QED BY <1>1, <1>3 DEF Alive

LEMMA AliveTakes ==
    ASSUME NEW h \in HwSessions, NEW s \in Nat, NEW old, Takes(h, s, old),
           sess \in [HwSessions -> Sessions]
    PROVE  /\ h \in Unmade => Alive(sess') = Alive(sess) \cup {h} /\ h \notin Alive(sess) /\ h # 0
           /\ h \in Alive(sess) => Alive(sess') = Alive(sess)
<1> DEFINE p == [gen |-> gen', life |-> lives]
           b == IF sess[h].st = "none" THEN NewSess(s) ELSE sess[h]
           x == [b EXCEPT !.size = s, !.pend = p]
<1>1. sess' = [sess EXCEPT ![h] = x]
  BY DEF Takes
<1>2. b \in Sessions /\ b.st = IF sess[h].st = "none" THEN "live" ELSE sess[h].st
  BY LifeConstants DEF NewSess, Sessions
<1> HIDE DEF b, p
<1>3. x.st = b.st
  BY <1>2 DEF Sessions
<1> HIDE DEF x
<1>4. \A k \in HwSessions : sess'[k].st = IF k = h THEN b.st ELSE sess[k].st
  BY <1>1, <1>3
<1>5. h \in Unmade => sess[h].st = "none" /\ h # 0
  BY DEF Unmade
<1> QED BY <1>2, <1>4, <1>5 DEF Alive

LEMMA AliveKept ==
    ASSUME \A h \in HwSessions : sess'[h].st = "live" <=> sess[h].st = "live"
    PROVE  Alive(sess') = Alive(sess)
BY DEF Alive

\* A step that changes neither owners nor sessions.
OwnersRest == UNCHANGED <<sess, active, standby, retired, wk>>

LEMMA OwnersKeepOwned ==
    ASSUME LifeTypes, OwnedInv, OwnersStep
    PROVE  OwnedInv'
<1>t. /\ sess \in [HwSessions -> Sessions] /\ lq \in [at : QueuePoints, size : Nat] /\ wk \in Work
      /\ lq.size \in Nat /\ wk.size \in Nat /\ active \in Nat /\ standby \in Nat
  BY DEF LifeTypes, Work
<1>o. Owners(Alive(sess), active, standby, retired, InHand(wk))
  BY DEF OwnedInv, SessionsOwned
<1>n. /\ [NoWork EXCEPT !.at = "wait"].at = "wait" /\ NoWork.at = "none"
      /\ InHand([NoWork EXCEPT !.at = "wait"]) = 0
  BY LifeConstants DEF Work, InHand
<1>a. active # 0 => active \in Alive(sess) /\ active \in HwSessions
  BY <1>o DEF Owners, Alive
<1>s. standby # 0 => standby \in Alive(sess) /\ standby \in HwSessions
  BY <1>o DEF Owners, Alive
<1>d. \A V : sess' = Dying(V, sess) => Alive(sess') = Alive(sess) \ V
  BY <1>t, AliveDying
<1>e. /\ Owners(Alive(sess), 0, standby, retired \cup ({active} \ {0}), InHand(wk))
      /\ Owners(Alive(sess), 0, 0, retired \cup ({active, standby} \ {0}), InHand(wk))
      /\ Owners(Alive(sess), active, 0, retired \cup ({standby} \ {0}), InHand(wk))
      /\ standby = 0 => Owners(Alive(sess), active, InHand(wk), retired, 0)
  BY <1>o, OwnersRetire
<1>f. /\ Owners(Alive(sess) \ retired, active, standby, {}, InHand(wk))
      /\ Owners(Alive(sess) \ {InHand(wk)}, active, standby, retired, 0)
      /\ Owners(Alive(sess) \ ((retired \cup {standby}) \ {0}), active, 0, {}, InHand(wk))
      /\ Owners(Alive(sess) \ ({active, standby} \ {0}), 0, 0, retired, InHand(wk))
      /\ Owners(Alive(sess) \ ((retired \cup {active, standby}) \ {0}), 0, 0, {}, InHand(wk))
  BY <1>o, OwnersDestroy
\* While the queue is neither at the making of a session nor at the end.
<1>q. ASSUME Owners(Alive(sess'), active', standby', retired', InHand(wk')),
             lq'.at \notin {"stopWorker", "create", "destroyed"}
      PROVE  OwnedInv'
  BY <1>q DEF OwnedInv, SessionsOwned
<1>r. ASSUME lq.at = "ready", lq' = lq,
             Owners(Alive(sess'), active', standby', retired', InHand(wk'))
      PROVE  OwnedInv'
  BY <1>r, <1>q
<1> USE DEF callbackState, releaseState, encoderState, workerState
\* The steps of the queue that leave the sessions as they are.
<1>1. ASSUME OwnersRest, NEW p \in QueuePoints, lq'.at = p,
             p \notin {"stopWorker", "create", "destroyed"}
      PROVE  OwnedInv'
  BY <1>o, <1>q, <1>1 DEF OwnersRest
<1>2. ASSUME NEW s \in 1 .. MaxSize, InitEncode(s) PROVE OwnedInv'
  <2>1. OwnersRest /\ lq'.at = "cancel"
    BY <1>2 DEF InitEncode, OwnersRest
  <2> QED BY <1>1, <2>1 DEF QueuePoints
<1>3. ASSUME NEW d \in BOOLEAN, ReleaseClears(d) PROVE OwnedInv'
  <2>1. OwnersRest
    BY <1>3 DEF ReleaseClears, Cleared, OwnersRest
  <2>2. At(IF d THEN "destroyWait" ELSE "releaseWait")
    BY <1>3 DEF ReleaseClears
  <2>3. lq'.at \in {"destroyWait", "releaseWait"}
    BY <1>t, <2>2 DEF At
  <2> QED BY <1>1, <2>1, <2>3 DEF QueuePoints
<1>4. CASE CancelDeferredRelease \/ RegisterEncodeCompleteCallback \/ ReleaseReturns \/ DestroyStopsWorker
  <2>1. OwnersRest
    BY <1>4 DEF CancelDeferredRelease, RegisterEncodeCompleteCallback, ReleaseReturns,
       ScheduleDeferredRelease, DestroyStopsWorker, OwnersRest
  <2>2. \E p \in {"reuse", "ready", "off", "destroyJoin"} : At(p)
    BY <1>4 DEF CancelDeferredRelease, RegisterEncodeCompleteCallback, ReleaseReturns, DestroyStopsWorker
  <2>3. lq'.at \in {"reuse", "ready", "off", "destroyJoin"}
    BY <1>t, <2>2 DEF At
  <2> QED BY <1>1, <2>1, <2>3 DEF QueuePoints
<1>5. CASE InitStopsWorker
  <2>1. OwnersRest /\ active = 0 /\ At("stopWorker")
    BY <1>5 DEF InitStopsWorker, OwnersRest
  <2>2. lq'.at = "stopWorker"
    BY <1>t, <2>1 DEF At
  <2> QED BY <1>o, <2>1, <2>2 DEF OwnersRest, OwnedInv, SessionsOwned
<1>6. CASE GracePasses
  <2>1. OwnersRest /\ lq' = lq
    BY <1>6 DEF GracePasses, OwnersRest
  <2> QED BY <1>o, <2>1 DEF OwnersRest, OwnedInv, SessionsOwned
\* InitEncode.
<1>7. CASE InitReuses
  <2>1. /\ active' = active /\ UNCHANGED <<sess, wk>> /\ At("register")
        /\ \/ standby' = 0 /\ retired' = retired \cup ({standby} \ {0})
           \/ UNCHANGED <<standby, retired>>
    BY <1>7 DEF InitReuses, Grown
  <2>2. lq'.at = "register"
    BY <1>t, <2>1 DEF At
  <2>3. Owners(Alive(sess'), active', standby', retired', InHand(wk'))
    BY <1>o, <1>e, <2>1
  <2> QED BY <1>q, <2>2, <2>3
<1>8. CASE WorkerJoined
  <2>1. /\ sess' = Dying((retired \cup {standby}) \ {0}, sess) /\ retired' = {} /\ standby' = 0
        /\ UNCHANGED <<active, wk>> /\ lq.at = "stopWorker" /\ wk.at = "none" /\ At("create")
    BY <1>8 DEF WorkerJoined
  <2>2. lq'.at = "create"
    BY <1>t, <2>1 DEF At
  <2>3. Owners(Alive(sess'), active', standby', retired', InHand(wk'))
    BY <1>d, <1>f, <2>1
  <2> QED BY <2>1, <2>2, <2>3 DEF OwnedInv, SessionsOwned
<1>9. CASE InitCreates
  <2>1. active = 0 /\ wk.at = "none" /\ InHand(wk) = 0 /\ UNCHANGED <<standby, retired>>
    BY <1>9 DEF InitCreates, OwnedInv, InHand
  <2>2. \/ UNCHANGED <<active, sess, wk>> /\ At("ready")
        \/ /\ wk' = [NoWork EXCEPT !.at = "wait"] /\ At("register")
           /\ \E h \in Unmade : active' = h /\ sess' = [sess EXCEPT ![h] = NewSess(lq.size)]
    BY <1>9 DEF InitCreates
  <2>3. lq'.at \in {"ready", "register"}
    BY <1>t, <2>2 DEF At
  <2>4. ASSUME NEW h \in Unmade, active' = h, sess' = [sess EXCEPT ![h] = NewSess(lq.size)],
               wk' = [NoWork EXCEPT !.at = "wait"]
        PROVE  Owners(Alive(sess'), active', standby', retired', InHand(wk'))
    <3>1. Alive(sess') = Alive(sess) \cup {h} /\ h \notin Alive(sess) /\ h # 0
      BY <1>t, <2>4, AliveNew
    <3>2. Owners(Alive(sess) \cup {h}, h, standby, retired \cup ({active} \ {0}), InHand(wk))
      BY <1>o, <3>1, OwnersTake
    <3>3. retired \cup ({active} \ {0}) = retired /\ InHand(wk') = InHand(wk)
      BY <1>n, <2>1, <2>4
    <3> QED BY <2>1, <2>4, <3>1, <3>2, <3>3
  <2>5. Owners(Alive(sess'), active', standby', retired', InHand(wk'))
    BY <1>o, <2>1, <2>2, <2>4
  <2> QED BY <1>q, <2>3, <2>5
\* Encode.
<1>10. ASSUME NEW s \in Nat, NEW old,
              \/ old = {active} /\ standby' = standby
              \/ old = {active, standby} /\ standby' = 0,
              \E h \in Unmade : Takes(h, s, old), wk' = wk
       PROVE  Owners(Alive(sess'), active', standby', retired', InHand(wk'))
  <2>1. PICK h \in Unmade : Takes(h, s, old)
    BY <1>10
  <2>2. h \in HwSessions /\ active' = h /\ retired' = retired \cup (old \ {0})
    BY <2>1 DEF Takes, Unmade
  <2>3. Alive(sess') = Alive(sess) \cup {h} /\ h \notin Alive(sess) /\ h # 0
    BY <1>t, <2>1, <2>2, AliveTakes
  <2>4. /\ Owners(Alive(sess) \cup {h}, h, standby, retired \cup ({active} \ {0}), InHand(wk))
        /\ Owners(Alive(sess) \cup {h}, h, 0, retired \cup ({active, standby} \ {0}), InHand(wk))
    BY <1>o, <2>3, OwnersTake
  <2> QED BY <1>10, <2>2, <2>3, <2>4
<1>11. CASE EncodeSame
  <2>1. UNCHANGED <<lq, active, standby, retired, wk>> /\ lq.at = "ready" /\ Emplaces(active)
        /\ active \in HwSessions
    BY <1>11, <1>a DEF EncodeSame, Encode
  <2>2. \A h \in HwSessions : sess'[h].st = sess[h].st
    <3> DEFINE p == [gen |-> gen, life |-> lives]
    <3>1. sess' = sess \/ sess' = [sess EXCEPT ![active].pend = p]
      BY <2>1 DEF Emplaces
    <3> HIDE DEF p
    <3> QED BY <1>t, <3>1 DEF Sessions
  <2>3. Alive(sess') = Alive(sess)
    BY <2>2, AliveKept
  <2> QED BY <1>o, <1>r, <2>1, <2>3
<1>12. ASSUME NEW s \in 1 .. MaxSize, EncodeCreates(s) PROVE OwnedInv'
  <2> DEFINE old == {active} \cup (IF active # 0 /\ Growth(s) THEN {standby} ELSE {})
  <2>1. /\ lq' = lq /\ lq.at = "ready" /\ wk' = wk
        /\ standby' = IF active # 0 /\ Growth(s) THEN 0 ELSE standby
        /\ \/ \E h \in Unmade : Takes(h, s, old)
           \/ active' = 0 /\ retired' = retired \cup (old \ {0}) /\ UNCHANGED sess
    BY <1>12 DEF EncodeCreates, Encode, Grown
  <2>2. \/ old = {active} /\ standby' = standby
        \/ old = {active, standby} /\ standby' = 0
    BY <2>1
  <2> HIDE DEF old
  <2>3. CASE \E h \in Unmade : Takes(h, s, old)
    <3>1. s \in Nat
      OBVIOUS
    <3> QED BY <1>10, <1>r, <2>1, <2>2, <2>3, <3>1
  <2>4. CASE active' = 0 /\ retired' = retired \cup (old \ {0}) /\ UNCHANGED sess
    <3>1. Owners(Alive(sess'), active', standby', retired', InHand(wk'))
      BY <1>e, <2>1, <2>2, <2>4
    <3> QED BY <1>r, <2>1, <3>1
  <2> QED BY <2>1, <2>3, <2>4
<1>13. ASSUME NEW s \in 1 .. MaxSize, EncodeDown(s) PROVE OwnedInv'
  <2>1. lq' = lq /\ lq.at = "ready" /\ UNCHANGED <<wk, standby>> /\ Takes(active, s, {}) /\ active # 0
        /\ s \in Nat
    BY <1>13 DEF EncodeDown, Encode
  <2>2. active' = active /\ retired' = retired
    BY <2>1 DEF Takes
  <2>3. Alive(sess') = Alive(sess)
    BY <1>t, <1>a, <2>1, AliveTakes
  <2> QED BY <1>o, <1>r, <2>1, <2>2, <2>3
<1>14. ASSUME NEW s \in 1 .. MaxSize, EncodeStandby(s) PROVE OwnedInv'
  <2>1. /\ lq' = lq /\ lq.at = "ready" /\ wk' = wk /\ Takes(standby, s, {active}) /\ standby # 0
        /\ standby' = 0 /\ s \in Nat
    BY <1>14 DEF EncodeStandby, Encode
  <2>2. active' = standby /\ retired' = retired \cup ({active} \ {0})
    BY <2>1 DEF Takes
  <2>3. Alive(sess') = Alive(sess)
    BY <1>t, <1>s, <2>1, AliveTakes
  <2>4. Owners(Alive(sess), standby, 0, retired \cup ({active} \ {0}), InHand(wk))
    BY <1>o, <2>1, OwnersRetire
  <2> QED BY <1>r, <2>1, <2>2, <2>3, <2>4
<1>15. ASSUME NEW s \in 1 .. MaxSize, EncodeWithoutStandby(s) PROVE OwnedInv'
  <2>1. /\ lq' = lq /\ lq.at = "ready" /\ wk' = wk /\ standby' = 0 /\ s \in Nat
        /\ \/ \E h \in Unmade : Takes(h, s, {active, standby})
           \/ retired' = retired \cup ({standby} \ {0}) /\ UNCHANGED <<active, sess>>
    BY <1>15 DEF EncodeWithoutStandby, Encode, Grown
  <2>2. CASE \E h \in Unmade : Takes(h, s, {active, standby})
    BY <1>10, <1>r, <2>1, <2>2
  <2>3. CASE retired' = retired \cup ({standby} \ {0}) /\ UNCHANGED <<active, sess>>
    <3>1. Owners(Alive(sess'), active', standby', retired', InHand(wk'))
      BY <1>e, <2>1, <2>3
    <3> QED BY <1>r, <2>1, <3>1
  <2> QED BY <2>1, <2>2, <2>3
\* The end, and the worker.
<1>16. CASE DestroySessions
  <2>1. /\ sess' = Dying((retired \cup {active, standby}) \ {0}, sess) /\ wk.at = "none" /\ wk' = wk
        /\ retired' = {} /\ active' = 0 /\ standby' = 0 /\ At("destroyed")
    BY <1>16 DEF DestroySessions
  <2>2. lq'.at = "destroyed" /\ InHand(wk') = 0
    BY <1>t, <2>1 DEF At, InHand
  <2>3. Owners(Alive(sess'), active', standby', retired', InHand(wk'))
    BY <1>d, <1>f, <2>1
  <2>4. Alive(sess') = {}
    BY <2>1, <2>2, <2>3 DEF Owners
  <2> QED BY <2>1, <2>2, <2>3, <2>4 DEF OwnedInv, SessionsOwned
\* The worker runs only where a session has been made and the end has not come.
<1>17. ASSUME lq' = lq, wk.at # "none", active' = active \/ active' = 0,
              Owners(Alive(sess'), active', standby', retired', InHand(wk'))
       PROVE  OwnedInv'
  BY <1>17 DEF OwnedInv, SessionsOwned
<1>18. CASE WorkerWakes
  <2>1. /\ lq' = lq /\ wk.at = "wait" /\ UNCHANGED <<active, standby>> /\ retired' = {}
        /\ sess' = Dying(retired, sess)
    BY <1>18 DEF WorkerWakes
  <2>2. wk'.at = "destroy"
    BY <1>18, <1>t, LifeConstants DEF WorkerWakes, Work
  <2>3. InHand(wk) = 0 /\ InHand(wk') = 0
    BY <2>1, <2>2 DEF InHand
  <2>4. Owners(Alive(sess'), active', standby', retired', InHand(wk'))
    BY <1>d, <1>f, <2>1, <2>3
  <2> QED BY <1>17, <2>1, <2>4
<1>19. CASE WorkerDestroyed \/ WorkerFreed \/ WorkerLooks
  <2>1. lq' = lq /\ wk.at \in {"destroy", "freeing", "look"} /\ UNCHANGED <<sess, active, standby, retired>>
    BY <1>19 DEF WorkerDestroyed, WorkerFreed, WorkerLooks
  <2>2. \/ wk' = NoWork \/ wk' = [NoWork EXCEPT !.at = "wait"]
        \/ \E p \in {"free", "look"} : wk' = [wk EXCEPT !.at = p, !.kill = {}]
        \/ wk' = [wk EXCEPT !.at = "warm", !.size = maxed, !.epoch = epoch]
    BY <1>19 DEF WorkerDestroyed, WorkerFreed, WorkerLooks
  <2>3. wk'.at # "publish"
    BY <1>t, <1>n, <2>2 DEF Work
  <2>4. InHand(wk) = 0 /\ InHand(wk') = 0
    BY <2>1, <2>3 DEF InHand
  <2> QED BY <1>o, <1>17, <2>1, <2>4
<1>20. CASE WorkerFrees
  <2>1. /\ lq' = lq /\ wk.at = "free" /\ retired' = retired
        /\ \/ sess' = Dying({active, standby} \ {0}, sess) /\ active' = 0 /\ standby' = 0
           \/ UNCHANGED <<sess, active, standby>>
    BY <1>20 DEF WorkerFrees, FreeIfReleased
  <2>2. \E K : wk' = [wk EXCEPT !.at = "freeing", !.kill = K] \/ wk' = [wk EXCEPT !.at = "freeing"]
    BY <1>20 DEF WorkerFrees, FreeIfReleased
  <2>3. wk'.at = "freeing"
    BY <1>t, <2>2 DEF Work
  <2>4. InHand(wk) = 0 /\ InHand(wk') = 0
    BY <2>1, <2>3 DEF InHand
  <2>5. Owners(Alive(sess'), active', standby', retired', InHand(wk'))
    BY <1>d, <1>f, <1>o, <2>1, <2>4
  <2> QED BY <1>17, <2>1, <2>5
<1>21. CASE WorkerWarms
  <2>1. /\ lq' = lq /\ wk.at = "warm" /\ UNCHANGED <<active, standby, retired>>
        /\ \/ \E h \in Unmade : /\ sess' = [sess EXCEPT ![h] = NewSess(wk.size)]
                                /\ wk' = [wk EXCEPT !.at = "publish", !.made = h]
           \/ wk' = [NoWork EXCEPT !.at = "wait"] /\ UNCHANGED sess
    BY <1>21 DEF WorkerWarms
  <2>2. InHand(wk) = 0
    BY <2>1 DEF InHand
  <2>3. ASSUME NEW h \in Unmade, sess' = [sess EXCEPT ![h] = NewSess(wk.size)],
               wk' = [wk EXCEPT !.at = "publish", !.made = h]
        PROVE  Owners(Alive(sess'), active', standby', retired', InHand(wk'))
    <3>1. Alive(sess') = Alive(sess) \cup {h} /\ h \notin Alive(sess) /\ h # 0
      BY <1>t, <2>3, AliveNew
    <3>2. InHand(wk') = h
      BY <1>t, <2>3 DEF InHand, Work
    <3>3. Owners(Alive(sess) \cup {h}, active, standby, retired, h)
      BY <1>o, <2>2, <3>1, OwnersTake
    <3> QED BY <2>1, <3>1, <3>2, <3>3
  <2>4. CASE wk' = [NoWork EXCEPT !.at = "wait"] /\ UNCHANGED sess
    BY <1>o, <1>n, <1>17, <2>1, <2>2, <2>4
  <2> QED BY <1>17, <2>1, <2>3, <2>4
<1>22. CASE WorkerPublishes
  <2>1. /\ lq' = lq /\ wk.at = "publish" /\ UNCHANGED <<active, retired>>
        /\ wk' = [NoWork EXCEPT !.at = "wait"]
        /\ \/ sess' = Dying({wk.made}, sess) /\ UNCHANGED standby
           \/ standby = 0 /\ standby' = wk.made /\ UNCHANGED sess
    BY <1>22 DEF WorkerPublishes
  <2>2. InHand(wk) = wk.made /\ InHand(wk') = 0
    BY <1>n, <2>1 DEF InHand
  <2>3. Owners(Alive(sess'), active', standby', retired', InHand(wk'))
    BY <1>d, <1>e, <1>f, <2>1, <2>2
  <2> QED BY <1>17, <2>1, <2>3
<1> QED BY <1>2, <1>3, <1>4, <1>5, <1>6, <1>7, <1>8, <1>9, <1>11, <1>12, <1>13, <1>14, <1>15,
           <1>16, <1>18, <1>19, <1>20, <1>21, <1>22 DEF OwnersStep, QueueGoesOn, StandbyWorker

\* A thread of its own, or the callback that releases, changes no owner.
LEMMA ThreadsKeepOwned ==
    ASSUME LifeTypes, Unthreaded, OwnedInv, NEW h \in HwSessions, CaptureThreads(h) \/ CallbackReleases(h)
    PROVE  OwnedInv'
<1>t. sess \in [HwSessions -> Sessions] /\ lq \in [at : QueuePoints, size : Nat] /\ sess[h] \in Sessions
  BY DEF LifeTypes
<1>1. CASE CaptureThreads(h)
  <2>1. ThreadStep(h) /\ UNCHANGED <<lq, active, standby, retired, wk>>
    BY <1>1, CaptureStep DEF encoderState, workerState
  <2>2. \A k \in HwSessions \ {h} : sess'[k].st = sess[k].st
    BY <2>1, ThreadsAfter
  <2>3. sess'[h].st = "live" <=> sess[h].st = "live"
    <3>1. CASE SessionGone(h)
      <4>1. sess' = [sess EXCEPT ![h] = NoSess] /\ sess[h].st = "dying"
        BY <3>1 DEF SessionGone
      <4> QED BY <1>t, <4>1, LifeConstants
    <3>2. CASE ~SessionGone(h)
      <4>1. CASE FrameCoded(h)
        <5>1. sess[h].st = "live" /\ sess' = [sess EXCEPT ![h] =
                 [sess[h] EXCEPT !.dq = [Quiet EXCEPT !.at = "check", !.f = sess[h].pend], !.pend = NoFrame]]
          BY <4>1 DEF FrameCoded
        <5>2. PICK y : y = [Quiet EXCEPT !.at = "check", !.f = sess[h].pend]
          OBVIOUS
        <5>3. [sess[h] EXCEPT !.dq = y, !.pend = NoFrame].st = sess[h].st
          BY <1>t DEF Sessions
        <5> QED BY <1>t, <5>1, <5>2, <5>3
      <4>2. CASE ~FrameCoded(h)
        <5>1. \E y : ThreadOf(h, y)
          BY <1>1, <3>2, <4>2 DEF CaptureThreads, GenerationChecked, SendFrame, BeginEncodeCallback,
             CallbackWaited, EndEncodeCallback, Enter, ThreadOf
        <5>2. PICK y : ThreadOf(h, y)
          BY <5>1
        <5>3. sess' = [sess EXCEPT ![h] = [sess[h] EXCEPT !.dq = y]]
          BY <5>2 DEF ThreadOf
        <5>4. [sess[h] EXCEPT !.dq = y].st = sess[h].st
          BY <1>t DEF Sessions
        <5> QED BY <1>t, <5>3, <5>4
      <4> QED BY <4>1, <4>2
    <3> QED BY <3>1, <3>2
  <2>4. Alive(sess') = Alive(sess)
    BY <2>2, <2>3, AliveKept
  <2> QED BY <2>1, <2>4 DEF OwnedInv, SessionsOwned
<1>2. CASE CallbackReleases(h)
  <2>1. UNCHANGED <<active, standby, retired, wk>> /\ At("off")
    BY <1>2 DEF CallbackReleases
  <2>2. lq'.at = "off"
    BY <1>t, <2>1 DEF At
  <2>3. sess' = [sess EXCEPT ![h].dq.cb = 0]
    BY <1>2 DEF CallbackReleases
  <2>4. \A k \in HwSessions : sess'[k].st = sess[k].st
    BY <1>t, <2>3 DEF Sessions
  <2>5. Alive(sess') = Alive(sess)
    BY <2>4, AliveKept
  <2> QED BY <2>1, <2>2, <2>5 DEF OwnedInv, SessionsOwned
<1> QED BY <1>1, <1>2

\* JetsonH264EncoderImpl: however InitEncode, Encode and Release, the standby
\* worker's publishing and the switches of resolution fall together, every session
\* that runs is held exactly once, in encoder_, standby_encoder_,
\* retired_encoders_ or the worker's hands: none is lost and goes on holding its
\* hardware, and none is destroyed that is still held.  The destructor leaves none
\* running.
THEOREM SessionsHaveOneOwner == LifeSpec => []SessionsOwned
<1>1. LifeInit => Lease /\ OwnedInv
  <2> SUFFICES ASSUME LifeInit PROVE OwnedInv
    BY LeaseInit
  <2>1. \A h \in HwSessions : sess[h] = NoSess
    BY DEF LifeInit
  <2>2. Alive(sess) = {}
    BY <2>1, LifeConstants DEF Alive
  <2>3. active = 0 /\ standby = 0 /\ retired = {} /\ wk.at = "none" /\ lq.at = "off"
    BY LifeConstants DEF LifeInit
  <2>4. InHand(wk) = 0
    BY <2>3 DEF InHand
  <2>5. Owners(Alive(sess), active, standby, retired, InHand(wk))
    BY <2>2, <2>3, <2>4 DEF Owners
  <2> QED BY <2>3, <2>5 DEF OwnedInv, SessionsOwned
<1>2. Lease /\ OwnedInv /\ [LifeNext]_<<mainStream, lifeVars>> => (Lease /\ OwnedInv)'
  <2> SUFFICES ASSUME Lease, OwnedInv, [LifeNext]_<<mainStream, lifeVars>> PROVE OwnedInv'
    BY LeaseStep
  <2>1. CASE UNCHANGED <<mainStream, lifeVars>>
    BY <2>1 DEF OwnedInv, SessionsOwned, lifeVars
  <2>2. CASE LifeNext
    <3>1. \/ OwnersStep
          \/ \E h \in HwSessions : CaptureThreads(h) \/ CallbackReleases(h)
      BY <2>2 DEF LifeNext, OwnersStep
    <3> QED BY <3>1, OwnersKeepOwned, ThreadsKeepOwned DEF Lease
  <2> QED BY <2>1, <2>2
<1>3. OwnedInv => SessionsOwned
  BY DEF OwnedInv
<1> QED BY <1>1, <1>2, <1>3, PTL DEF LifeSpec
-----------------------------------------------------------------------------
(* The rates.  A refused rate leaves a pause behind, and a frame asks the    *)
(* session in use for whatever it does not run at, so that after a frame     *)
(* without a pause only a frame rate that is not yet steady is missing; that *)
(* the session in use exists, and no session was ever asked for more than    *)
(* the limit, is kept by every step.                                         *)

HwSession == [made : BOOLEAN, rate : 0 .. RateCap, peak : 0 .. RateCap, fps : Nat,
              ratePause : BOOLEAN, fpsPause : BOOLEAN]

\* Neither encoder is asked for more than the limit, nor keeps a session that was
\* prepared with more.
RatesLimited ==
    /\ bitrate \in 0 .. RateCap
    /\ \A s \in {"active", "standby"} : hw[s].rate =< RateCap /\ hw[s].peak =< RateCap
    /\ snap.rate =< RateCap /\ snap.peak =< RateCap

JetRatesInv ==
    /\ bitrate \in 0 .. RateCap /\ fps \in Nat /\ hwFps \in Nat /\ settled \in BOOLEAN
    /\ hw \in [{"active", "standby"} -> HwSession] /\ snap \in HwSession
    /\ hw["active"].made

JetsonFrame == \E no \in Refusals : EncodeFrame(no) \/ StandbyTakesOver(no)
Unrefused(e) == ~e.ratePause /\ ~e.fpsPause

\* A frame leaves the session in use at the rates asked for, unless the hardware
\* has just refused one of them or the frame rate is not steady.
FramesBringRates == JetsonFrame /\ settled /\ Unrefused(hw'["active"]) => JetsonAtRate'

JetRatesSpec == RatesInit /\ [][JetsonRates]_rateVars
RaspRatesSpec == RatesInit /\ [][RaspRates]_rateVars

LEMMA CapsAreRates == ASSUME NEW b \in 1 .. Rates PROVE b \in Nat /\ Capped(b) \in 0 .. RateCap
BY EncoderRatesConstants DEF Capped

\* What SetBitrate and SetFramerate can make of a session.
LEMMA SetBitrateGives == ASSUME NEW e \in HwSession, NEW b \in 0 .. RateCap, NEW no PROVE
    \/ SetBitrate(e, b, no) = e
    \/ SetBitrate(e, b, no) = [e EXCEPT !.ratePause = TRUE]
    \/ SetBitrate(e, b, no) = [e EXCEPT !.rate = b, !.ratePause = TRUE]
    \/ SetBitrate(e, b, no) = [e EXCEPT !.rate = b, !.peak = b]
BY DEF SetBitrate

LEMMA SetFramerateGives == ASSUME NEW e \in HwSession, NEW f \in Nat, NEW no PROVE
    \/ SetFramerate(e, f, no) = e
    \/ SetFramerate(e, f, no) = [e EXCEPT !.fpsPause = TRUE]
    \/ SetFramerate(e, f, no) = [e EXCEPT !.fps = f]
BY DEF SetFramerate

LEMMA BitratesTyped == ASSUME NEW e \in HwSession, NEW b \in 0 .. RateCap, NEW no
                       PROVE SetBitrate(e, b, no) \in HwSession
<1>1. [e EXCEPT !.ratePause = TRUE] \in HwSession
  BY DEF HwSession
<1>2. [e EXCEPT !.rate = b, !.ratePause = TRUE] \in HwSession
  BY DEF HwSession
<1>3. [e EXCEPT !.rate = b, !.peak = b] \in HwSession
  BY DEF HwSession
<1> QED BY <1>1, <1>2, <1>3, SetBitrateGives, Zenon

LEMMA FrameratesTyped == ASSUME NEW e \in HwSession, NEW f \in Nat, NEW no
                         PROVE SetFramerate(e, f, no) \in HwSession
<1>1. [e EXCEPT !.fpsPause = TRUE] \in HwSession
  BY DEF HwSession
<1>2. [e EXCEPT !.fps = f] \in HwSession
  BY DEF HwSession
<1> QED BY <1>1, <1>2, SetFramerateGives, Zenon

\* A session that was asked runs at the rate or is in the pause.
LEMMA BitratesAsked == ASSUME NEW e \in HwSession, NEW b \in 0 .. RateCap, NEW no PROVE
    /\ SetBitrate(e, b, no).made = e.made
    /\ \/ SetBitrate(e, b, no).ratePause
       \/ SetBitrate(e, b, no).rate = b /\ SetBitrate(e, b, no).peak = b
BY DEF SetBitrate, HwSession

LEMMA FrameratesAsked == ASSUME NEW e \in HwSession, NEW f \in Nat, NEW no PROVE
    /\ SetFramerate(e, f, no).made = e.made
    /\ SetFramerate(e, f, no).rate = e.rate /\ SetFramerate(e, f, no).peak = e.peak
    /\ SetFramerate(e, f, no).ratePause = e.ratePause
    /\ SetFramerate(e, f, no).fpsPause \/ SetFramerate(e, f, no).fps = f
BY DEF SetFramerate, HwSession

LEMMA RatesApplied == ASSUME NEW e \in HwSession, NEW b \in 0 .. RateCap, NEW f \in Nat, NEW no, SteadyFps(f) \in Nat PROVE
    /\ Applied(e, b, f, no) \in HwSession
    /\ Applied(e, b, f, no).made = e.made
    /\ e.made /\ Unrefused(Applied(e, b, f, no)) =>
          /\ Applied(e, b, f, no).rate = b /\ Applied(e, b, f, no).peak = b
          /\ Applied(e, b, f, no).fps = SteadyFps(f)
<1> DEFINE r == SetBitrate(e, b, no)
           a == SetFramerate(r, SteadyFps(f), no)
<1>1. r \in HwSession /\ r.made = e.made /\ (r.ratePause \/ (r.rate = b /\ r.peak = b))
  BY BitratesTyped, BitratesAsked
<1> HIDE DEF r
<1>2. /\ a \in HwSession /\ a.made = r.made /\ a.rate = r.rate /\ a.peak = r.peak
      /\ a.ratePause = r.ratePause /\ (a.fpsPause \/ a.fps = SteadyFps(f))
  BY <1>1, FrameratesTyped, FrameratesAsked
<1>3. Applied(e, b, f, no) = IF e.made THEN a ELSE e
  BY DEF Applied, r
<1> HIDE DEF a
<1> QED BY <1>1, <1>2, <1>3 DEF Unrefused

LEMMA FpsSteady == ASSUME NEW f \in Nat, hwFps \in Nat, settled' \in BOOLEAN PROVE SteadyFps(f) \in Nat
BY DEF SteadyFps

LEMMA SessionsBegin == ASSUME NEW r \in 0 .. RateCap, NEW f \in Nat PROVE Session(r, f) \in HwSession
BY DEF Session, HwSession

LEMMA NoneIsSession == NoHwSession \in HwSession
<1>1. Session(1, 1) \in HwSession
  BY SessionsBegin, EncoderRatesConstants
<1> HIDE DEF Session
<1>2. [Session(1, 1) EXCEPT !.made = FALSE] \in HwSession
  BY <1>1 DEF HwSession
<1> QED BY <1>2 DEF NoHwSession

LEMMA JetRatesBegin == RatesInit => JetRatesInv
<1> SUFFICES ASSUME RatesInit PROVE JetRatesInv
  OBVIOUS
<1>1. hw["active"] = Session(1, 1) /\ hw["active"].made
  BY DEF RatesInit, Session
<1>2. Session(1, 1) \in HwSession /\ NoHwSession \in HwSession
  BY SessionsBegin, NoneIsSession, EncoderRatesConstants
<1>3. hw \in [{"active", "standby"} -> HwSession] /\ snap \in HwSession
  BY <1>2 DEF RatesInit
<1> QED BY <1>1, <1>3, EncoderRatesConstants DEF RatesInit, JetRatesInv

\* A frame: the session in use, or the one that takes over, is asked.
LEMMA FramesAsk == ASSUME JetRatesInv, NEW e \in HwSession, e.made, NEW no, UNCHANGED <<settled, bitrate, fps>>,
                          hw'["active"] = Applied(e, bitrate, fps, no), hwFps' = SteadyFps(fps)
                   PROVE /\ hw'["active"] \in HwSession /\ hw'["active"].made /\ hwFps' \in Nat
                         /\ settled /\ Unrefused(hw'["active"]) => JetsonAtRate'
<1>1. SteadyFps(fps) \in Nat /\ (settled => SteadyFps(fps) = fps)
  BY FpsSteady DEF JetRatesInv, SteadyFps
<1>2. /\ Applied(e, bitrate, fps, no) \in HwSession
      /\ Applied(e, bitrate, fps, no).made
      /\ Unrefused(Applied(e, bitrate, fps, no)) =>
            /\ Applied(e, bitrate, fps, no).rate = bitrate /\ Applied(e, bitrate, fps, no).peak = bitrate
            /\ Applied(e, bitrate, fps, no).fps = SteadyFps(fps)
  BY <1>1, RatesApplied DEF JetRatesInv
<1> HIDE DEF Applied, SteadyFps
<1> QED BY <1>1, <1>2 DEF JetsonAtRate

LEMMA JetRatesKept == ASSUME JetRatesInv, JetsonRates PROVE JetRatesInv' /\ FramesBringRates
<1>0. /\ bitrate \in 0 .. RateCap /\ fps \in Nat /\ hwFps \in Nat /\ settled \in BOOLEAN
      /\ hw \in [{"active", "standby"} -> HwSession] /\ snap \in HwSession /\ hw["active"].made
  BY DEF JetRatesInv
<1>1. ASSUME NEW b \in 1 .. Rates, NEW f \in 1 .. Rates, NEW no \in Refusals, SetRates(b, f, no) PROVE JetRatesInv'
  <2>1. b \in Nat /\ f \in Nat /\ Capped(b) \in 0 .. RateCap
    BY CapsAreRates
  <2>2. bitrate' \in 0 .. RateCap /\ fps' \in Nat /\ settled' \in BOOLEAN /\ snap' = snap
    BY <1>0, <1>1, <2>1 DEF SetRates
  <2>3. SteadyFps(f) \in Nat
    BY <1>0, <2>1, <2>2, FpsSteady
  <2>4. \A s \in {"active", "standby"} :
            Applied(hw[s], Capped(b), f, no) \in HwSession /\ Applied(hw[s], Capped(b), f, no).made = hw[s].made
    BY <1>0, <2>1, <2>3, RatesApplied
  <2>5. \/ hw' = hw /\ hwFps' = hwFps
        \/ /\ hw' = [s \in {"active", "standby"} |-> Applied(hw[s], Capped(b), f, no)]
           /\ hwFps' = SteadyFps(f)
    BY <1>0, <1>1 DEF SetRates
  <2> HIDE DEF Applied, SteadyFps
  <2>6. hw' \in [{"active", "standby"} -> HwSession] /\ hw'["active"].made /\ hwFps' \in Nat
    BY <1>0, <2>3, <2>4, <2>5
  <2> QED BY <1>0, <2>2, <2>6 DEF JetRatesInv
<1>2. ASSUME NEW no \in Refusals, EncodeFrame(no) PROVE JetRatesInv' /\ FramesBringRates
  <2>1. /\ hw' = [hw EXCEPT !["active"] = Applied(hw["active"], bitrate, fps, no)]
        /\ UNCHANGED <<settled, bitrate, fps, snap>> /\ hwFps' = SteadyFps(fps)
    BY <1>2 DEF EncodeFrame
  <2> HIDE DEF Applied, SteadyFps
  <2>2. hw'["active"] = Applied(hw["active"], bitrate, fps, no) /\ hw'["standby"] = hw["standby"]
    BY <1>0, <2>1
  <2>3. hw["active"] \in HwSession
    BY <1>0
  <2>4. /\ hw'["active"] \in HwSession /\ hw'["active"].made /\ hwFps' \in Nat
        /\ settled /\ Unrefused(hw'["active"]) => JetsonAtRate'
    BY <1>0, <2>1, <2>2, <2>3, FramesAsk
  <2>5. hw' \in [{"active", "standby"} -> HwSession]
    BY <1>0, <2>1, <2>2, <2>4
  <2> QED BY <1>0, <2>1, <2>4, <2>5 DEF JetRatesInv, FramesBringRates
<1>3. ASSUME NEW no \in Refusals, StandbyTakesOver(no) PROVE JetRatesInv' /\ FramesBringRates
  <2>1. /\ hw' = [active |-> Applied(hw["standby"], bitrate, fps, no), standby |-> NoHwSession]
        /\ UNCHANGED <<settled, bitrate, fps, snap>> /\ hwFps' = SteadyFps(fps)
        /\ hw["standby"].made
    BY <1>3 DEF StandbyTakesOver
  <2> HIDE DEF Applied, SteadyFps, NoHwSession
  <2>2. hw'["active"] = Applied(hw["standby"], bitrate, fps, no) /\ hw'["standby"] = NoHwSession
    BY <2>1
  <2>3. hw["standby"] \in HwSession
    BY <1>0
  <2>4. /\ hw'["active"] \in HwSession /\ hw'["active"].made /\ hwFps' \in Nat
        /\ settled /\ Unrefused(hw'["active"]) => JetsonAtRate'
    BY <1>0, <2>1, <2>2, <2>3, FramesAsk
  <2>5. hw' \in [{"active", "standby"} -> HwSession]
    BY <2>1, <2>2, <2>4, NoneIsSession
  <2> QED BY <1>0, <2>1, <2>4, <2>5 DEF JetRatesInv, FramesBringRates
<1>4. ASSUME StandbyBegins PROVE JetRatesInv'
  <2>1. snap' = Session(bitrate, hwFps) /\ UNCHANGED <<bitrate, fps, settled, hwFps, hw>>
    BY <1>4 DEF StandbyBegins
  <2>2. Session(bitrate, hwFps) \in HwSession
    BY <1>0, SessionsBegin
  <2>3. bitrate' \in 0 .. RateCap /\ fps' \in Nat /\ hwFps' \in Nat /\ settled' \in BOOLEAN
    BY <1>0, <2>1
  <2>4. hw' \in [{"active", "standby"} -> HwSession] /\ hw'["active"].made
    BY <1>0, <2>1
  <2> QED BY <2>1, <2>2, <2>3, <2>4, Zenon DEF JetRatesInv
<1>5. ASSUME StandbyPublished PROVE JetRatesInv'
  <2>1. hw' = [hw EXCEPT !["standby"] = snap] /\ snap' = NoHwSession /\ UNCHANGED <<bitrate, fps, settled, hwFps>>
    BY <1>5 DEF StandbyPublished
  <2>2. NoHwSession \in HwSession
    BY NoneIsSession
  <2> HIDE DEF NoHwSession
  <2>3. hw' \in [{"active", "standby"} -> HwSession] /\ hw'["active"] = hw["active"]
    BY <1>0, <2>1
  <2>4. bitrate' \in 0 .. RateCap /\ fps' \in Nat /\ hwFps' \in Nat /\ settled' \in BOOLEAN
    BY <1>0, <2>1
  <2> QED BY <1>0, <2>1, <2>2, <2>3, <2>4, Zenon DEF JetRatesInv
<1>6. ASSUME NEW s \in {"active", "standby"}, PauseEnds(s) PROVE JetRatesInv'
  <2>1. /\ hw' = [hw EXCEPT ![s] = [@ EXCEPT !.ratePause = FALSE, !.fpsPause = FALSE]]
        /\ UNCHANGED <<bitrate, fps, settled, hwFps, snap>>
    BY <1>0, <1>6 DEF PauseEnds
  <2>2. /\ [hw[s] EXCEPT !.ratePause = FALSE, !.fpsPause = FALSE] \in HwSession
        /\ [hw[s] EXCEPT !.ratePause = FALSE, !.fpsPause = FALSE].made = hw[s].made
    BY <1>0 DEF HwSession
  <2>3. hw' \in [{"active", "standby"} -> HwSession] /\ hw'["active"].made
    BY <1>0, <2>1, <2>2
  <2> QED BY <1>0, <2>1, <2>3 DEF JetRatesInv
<1>7. ASSUME FpsSettles PROVE JetRatesInv'
  <2>1. UNCHANGED <<bitrate, fps, hwFps, hw, snap>> /\ settled' = TRUE
    BY <1>7 DEF FpsSettles
  <2>2. bitrate' \in 0 .. RateCap /\ fps' \in Nat /\ hwFps' \in Nat
    BY <1>0, <2>1
  <2> QED BY <1>0, <2>1, <2>2, Zenon DEF JetRatesInv
<1>8. ASSUME ~JetsonFrame PROVE FramesBringRates
  BY <1>8 DEF FramesBringRates
<1>9. DOMAIN hw = {"active", "standby"}
  BY <1>0
<1>10. JetRatesInv'
  BY <1>1, <1>2, <1>3, <1>4, <1>5, <1>6, <1>7, <1>9 DEF JetsonRates, JetsonFrames, TimePasses
<1>11. FramesBringRates
  BY <1>2, <1>3, <1>8 DEF JetsonFrame
<1> QED BY <1>10, <1>11

LEMMA JetRatesStep == JetRatesInv /\ [JetsonRates]_rateVars => JetRatesInv' /\ [FramesBringRates]_rateVars
<1>1. ASSUME JetRatesInv, UNCHANGED rateVars PROVE JetRatesInv'
  BY <1>1 DEF JetRatesInv, rateVars
<1> QED BY <1>1, JetRatesKept

LEMMA LimitsHold == ASSUME JetRatesInv PROVE RatesLimited
<1>1. \A e \in HwSession : e.rate =< RateCap /\ e.peak =< RateCap
  BY EncoderRatesConstants DEF HwSession
<1> QED BY <1>1 DEF JetRatesInv, RatesLimited

\* Whatever rates WebRTC asks for and the hardware refuses, no session of the Jetson
\* encoder, in use, standing by or being made, has more than the configured limit.
THEOREM RatesStayLimited == JetRatesSpec => []RatesLimited
<1>1. RatesInit => JetRatesInv
  BY JetRatesBegin
<1>2. JetRatesInv /\ [JetsonRates]_rateVars => JetRatesInv'
  BY JetRatesStep
<1>3. JetRatesInv => RatesLimited
  BY LimitsHold
<1> QED BY <1>1, <1>2, <1>3, PTL DEF JetRatesSpec

\* A rate refused once is asked for again by the next frame, and a standby session
\* made for old rates gets the present ones as it takes over: after a frame whose
\* session is in no pause, that session runs at the rates WebRTC asked for last.
THEOREM FramesRepairRates == JetRatesSpec => [][FramesBringRates]_rateVars
<1>1. RatesInit => JetRatesInv
  BY JetRatesBegin
<1>2. JetRatesInv /\ [JetsonRates]_rateVars => JetRatesInv' /\ [FramesBringRates]_rateVars
  BY JetRatesStep
<1> QED BY <1>1, <1>2, PTL DEF JetRatesSpec

RaspRatesInv == RaspAtRate /\ bitrate \in Nat /\ pipe \in [up : BOOLEAN, rate : Nat]

LEMMA RaspRatesStep == RaspRatesInv /\ [RaspRates]_rateVars => RaspRatesInv'
<1>1. ASSUME RaspRatesInv, NEW b \in 1 .. Rates, NEW f \in 1 .. Rates, RaspSetRates(b, f) PROVE RaspRatesInv'
  <2>1. bitrate' \in Nat
    BY <1>1, CapsAreRates, EncoderRatesConstants DEF RaspSetRates
  <2>2. pipe' = (IF pipe.up /\ bitrate' # bitrate THEN [pipe EXCEPT !.rate = bitrate'] ELSE pipe)
    BY <1>1 DEF RaspSetRates
  <2>3. pipe \in [up : BOOLEAN, rate : Nat] /\ (pipe.up => pipe.rate = bitrate)
    BY <1>1 DEF RaspRatesInv, RaspAtRate
  <2>4. pipe' \in [up : BOOLEAN, rate : Nat] /\ (pipe'.up => pipe'.rate = bitrate')
    BY <2>1, <2>2, <2>3
  <2> QED BY <2>1, <2>4 DEF RaspRatesInv, RaspAtRate
<1>2. ASSUME RaspRatesInv, PipelineLaunched PROVE RaspRatesInv'
  <2>1. bitrate' = bitrate /\ (pipe' = pipe \/ pipe' = [up |-> TRUE, rate |-> bitrate])
    BY <1>2 DEF PipelineLaunched
  <2>2. ASSUME NEW r \in Nat PROVE [up |-> TRUE, rate |-> r] \in [up : BOOLEAN, rate : Nat]
    OBVIOUS
  <2>3. pipe' = [up |-> TRUE, rate |-> bitrate] => pipe'.rate = bitrate /\ pipe' \in [up : BOOLEAN, rate : Nat]
    BY <1>2, <2>2 DEF RaspRatesInv
  <2> QED BY <1>2, <2>1, <2>3 DEF RaspRatesInv, RaspAtRate
<1>3. ASSUME RaspRatesInv, PipelineDestroyed PROVE RaspRatesInv'
  <2>1. bitrate' = bitrate /\ pipe' = [pipe EXCEPT !.up = FALSE]
    BY <1>3 DEF PipelineDestroyed
  <2>2. pipe' \in [up : BOOLEAN, rate : Nat] /\ ~pipe'.up
    BY <1>3, <2>1 DEF RaspRatesInv
  <2> QED BY <1>3, <2>1, <2>2 DEF RaspRatesInv, RaspAtRate
<1>4. ASSUME RaspRatesInv, UNCHANGED rateVars PROVE RaspRatesInv'
  BY <1>4 DEF RaspRatesInv, RaspAtRate, rateVars
<1> QED BY <1>1, <1>2, <1>3, <1>4 DEF RaspRates

\* The running GStreamer pipeline has the bit rate WebRTC asked for last, also if it
\* was asked for while no pipeline ran or one was being replaced.
THEOREM PipelineAtRate == RaspRatesSpec => []RaspAtRate
<1>1. RatesInit => RaspRatesInv
  <2>1. [up |-> FALSE, rate |-> 1] \in [up : BOOLEAN, rate : Nat] /\ ~[up |-> FALSE, rate |-> 1].up
    OBVIOUS
  <2> QED BY <2>1 DEF RatesInit, RaspRatesInv, RaspAtRate
<1>2. RaspRatesInv => RaspAtRate
  BY DEF RaspRatesInv
<1> QED BY <1>1, <1>2, RaspRatesStep, PTL DEF RaspRatesSpec
=============================================================================
