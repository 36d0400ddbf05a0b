---------------------------- MODULE LatestFrames ----------------------------
(***************************************************************************)
(* What a frame subscription promises its consumer, whatever the threads    *)
(* behind it do: of the depth newest frames put into it, the consumer gets  *)
(* the oldest it has not had; it never gets a frame twice, an older frame   *)
(* after a newer one, or any frame once the subscription is closed.         *)
(***************************************************************************)
EXTENDS Naturals

VARIABLES
    depth,     \* frames kept
    sent,      \* number of the last frame put in
    got,       \* number of the last frame taken
    closed

lfVars == <<depth, sent, got, closed>>

LFInit ==
    /\ depth \in Nat \ {0}
    /\ sent = 0
    /\ got = 0
    /\ closed \in BOOLEAN

\* The last frame the consumer has lost or had.
Gone == IF sent > got + depth THEN sent - depth ELSE got

Put ==
    /\ ~closed
    /\ sent' = sent + 1
    /\ UNCHANGED <<depth, got, closed>>

Take ==
    /\ ~closed
    /\ Gone < sent
    /\ got' = Gone + 1
    /\ UNCHANGED <<depth, sent, closed>>

Shut ==
    /\ closed' = TRUE
    /\ UNCHANGED <<depth, sent, got>>

LFNext == Put \/ Take \/ Shut

LFSpec == LFInit /\ [][LFNext]_lfVars
=============================================================================
