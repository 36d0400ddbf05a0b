-------------------------- MODULE MCVehicleControl --------------------------
(* Instances of VehicleControl for TLC. *)
EXTENDS VehicleControl, TLC

CONSTANTS MCSeqs, MCRequests, MCActions, MCKinds

\* The messages of a run: drive numbers and request ids from small sets, the
\* kinds restricted to what the run is about.  The ids of a gear request and of
\* a lateral motion are only echoed.
MCMessages == {m \in
         [kind : {"drive"}, seq : MCSeqs, motion : DecodedMotions]
    \cup [kind : {"gear"}, req : {1}, gear : {"forward"}]
    \cup [kind : {"dog"}, req : MCRequests, action : MCActions \cap {"goal"}]
    \cup [kind : {"dog"}, req : {1}, action : MCActions \ {"goal"}]
    \cup [kind : {"malformed"}] : m.kind \in MCKinds}

\* Sessions are only compared with each other.
MCSymmetry == Permutations(Sessions)
=============================================================================
