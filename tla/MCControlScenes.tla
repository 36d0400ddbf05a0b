--------------------------- MODULE MCControlScenes ---------------------------
(***************************************************************************)
(* VehicleControl with the messages of a behaviour all taken from one      *)
(* scene: a set of message kinds chosen in the first state.  Kinds that    *)
(* meet in no scene of a run do not meet in that run.                      *)
(***************************************************************************)
EXTENDS MCVehicleControl

CONSTANT MCScenes

VARIABLE scene

\* What a scene may call a message: by its kind, a dog's by its action, and a
\* drive frame with the number 1 apart from the others.
Names(m) ==
    CASE m.kind = "dog" -> {"dog", m.action}
      [] m.kind = "drive" /\ m.seq = 1 -> {"drive", "firstDrive"}
      [] OTHER -> {m.kind}

\* What waits was sent within the scene.
InScene(queue) == \A i \in DOMAIN queue :
    queue[i].type = "message" => Names(queue[i].msg) \cap scene # {}

ScenesInit == Init /\ scene \in MCScenes

ScenesNext ==
    /\ Next
    /\ InScene(pendingEvents')
    /\ UNCHANGED scene

ScenesSpec == ScenesInit /\ [][ScenesNext]_<<vars, scene>>

\* A Tick sends no message: the scene does not hinder it.
ScenesFairSpec == ScenesSpec /\ WF_vars(Tick)
==============================================================================
