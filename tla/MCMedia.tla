------------------------------- MODULE MCMedia -------------------------------
(***************************************************************************)
(* The edge's media components: the camera pipeline, the workers of the    *)
(* cameras, the life of the Jetson encoder and the rates of the encoders.  *)
(* They share no state; a behaviour picks one of them in its first state   *)
(* and is a behaviour of that one, the others resting.                     *)
(***************************************************************************)
EXTENDS CameraPipeline, EdgeCameras, JetsonLifecycle, EncoderRates

VARIABLE running

encoderVars == <<mainStream, lifeVars>>
mediaVars == <<running, camVars, edgeVars, encoderVars, rateVars>>

MediaInit ==
  /\ running \in {"camera", "edge", "encoder", "jetsonRates", "raspRates"}
  /\ CamInit /\ EdgeInit /\ LifeInit /\ RatesInit
  /\ running # "camera" => kind = "single"
  /\ running # "encoder" => mainStream

MediaNext ==
  /\ \/ running = "camera" /\ CamNext /\ UNCHANGED <<edgeVars, encoderVars, rateVars>>
     \/ running = "edge" /\ EdgeNext /\ UNCHANGED <<camVars, encoderVars, rateVars>>
     \/ running = "encoder" /\ LifeNext /\ UNCHANGED <<camVars, edgeVars, rateVars>>
     \/ /\ \/ running = "jetsonRates" /\ JetsonRates
           \/ running = "raspRates" /\ RaspRates
        /\ UNCHANGED <<camVars, edgeVars, encoderVars>>
  /\ UNCHANGED running

\* The fairness of the component that runs, as its module states it.
On(component, A) == running = component /\ A

MediaSpec ==
  /\ MediaInit /\ [][MediaNext]_mediaVars
  /\ WF_camVars(On("camera", CaptureThread)) /\ WF_camVars(On("camera", Worker))
  /\ WF_camVars(On("camera", YoloThread)) /\ WF_camVars(On("camera", Stopping))
  /\ WF_edgeVars(On("edge", EdgeTick)) /\ WF_edgeVars(On("edge", SecondPasses))
  /\ \A t \in Refreshers : WF_edgeVars(On("edge", ComputePlan(t) \/ ApplyPlan(t)))
  /\ \A w \in Workers : WF_edgeVars(On("edge", WorkerGoes(w) \/ WorkerTicks(w)))
  /\ WF_edgeVars(On("edge", EdgeStop)) /\ WF_edgeVars(On("edge", EdgeStopped))
  /\ WF_edgeVars(On("edge", ShutdownApplication))
  /\ \A h \in HwSessions : WF_lifeVars(On("encoder", CaptureThreads(h)))
  /\ WF_lifeVars(On("encoder", StandbyWorker)) /\ WF_lifeVars(On("encoder", GracePasses))
  /\ WF_lifeVars(On("encoder", QueueGoesOn))
  /\ WF_rateVars(On("jetsonRates", JetsonFrames)) /\ WF_rateVars(On("jetsonRates", TimePasses))

\* Whoever stops a camera or the camera workers of the edge gets back, whatever
\* the threads to be joined were waiting for, and closes the session only when
\* none of them can send through it any more.
MediaStops == StopReturns /\ EdgeStops /\ []SessionOutlivesWorkers

\* Whatever the hardware refuses and whichever session takes over, once WebRTC
\* asks for no other rates the encoder comes to run at the ones it asked for
\* last: a rate refused once is not lost, though the same rates are not
\* applied again.
RatesReachHardware == <>[](RaspAtRate /\ (running # "raspRates" => JetsonAtRate))
==============================================================================
