---------------------------- MODULE EdgeCameras ----------------------------
(***************************************************************************)
(* EdgeCameraModules (client/apps/rtc_edge/edge_application.cpp): which     *)
(* cameras of the edge program send, and what.  The console selects a view; *)
(* the selection arrives on the logic thread, the main thread refreshes the *)
(* send plan once a second, and one worker per camera sends while its plan  *)
(* says so.  A refresh reads the view under one lock and gives the plan to  *)
(* the workers under another, so two refreshes can overtake each other.     *)
(*                                                                          *)
(* What a worker does with a frame before it is submitted is the module     *)
(* CameraPipeline; here a Tick either has a frame or fails.                 *)
(***************************************************************************)
EXTENDS Naturals, FiniteSets

CONSTANTS
    Surround,      \* enabled surround cameras, a subset of SurroundCameras
    Consoles,      \* sessions that select views
    MaxSelects     \* bound: selections and channel closings

SurroundCameras == {"front", "rear", "left", "right"}

ASSUME EdgeConstants == Surround \subseteq SurroundCameras /\ MaxSelects \in Nat

VARIABLES
    vsel,      \* enabled_view_
    vseq,      \* view_sequences_; 0 for no entry
    dirty,     \* send_plan_dirty_
    due,       \* next_send_plan_update_ has passed
    refresh,   \* RefreshVideoSendPlan on the main and on the logic thread
    plan,      \* the plan each of them computed
    cont,      \* continuous of each worker
    worker,    \* where each worker is
    grid,      \* grid_updated_
    halt,      \* stop_requested_ and worker_error_
    app,       \* the application: where RunEdgeApplication is
    parts,     \* control module, session and audio module that run
    selects

edgeVars == <<vsel, vseq, dirty, due, refresh, plan, cont, worker, grid, halt, app, parts,
              selects>>
camerasAlone == <<vsel, vseq, dirty, due, refresh, plan, cont, worker, grid, halt, selects>>

Workers == {"stereo"} \cup Surround
Views == {"Binocular", "Surround"} \cup SurroundCameras
GridViews == {"Binocular", "Surround"}
Refreshers == {"main", "logic"}

EdgeInit ==
    /\ vsel = "Binocular"
    /\ vseq = [s \in Consoles |-> 0]
    /\ dirty = TRUE
    /\ due = TRUE
    /\ refresh = [t \in Refreshers |-> "idle"]
    /\ plan = [t \in Refreshers |-> {}]
    /\ cont = {}
    /\ worker = [w \in Workers |-> "none"]
    /\ grid = {}
    /\ halt = [stop |-> TRUE, error |-> FALSE]
    /\ app = "new"
    /\ parts = {}
    /\ selects = 0

----------------------------------------------------------------------------

\* VideoSendPlanner::Next, and the grid that makes every surround camera send.
PlanFor(v) ==
    {w \in Workers : \/ w = "stereo" /\ v = "Binocular"
                     \/ w \in Surround /\ (v = w \/ v \in GridViews)}

\* RunEdgeApplication: the control module, the session, the audio and the
\* cameras are started in this order; one that fails closes the program.
PartStarts(part, from, to) ==
    /\ app = from
    /\ \/ app' = to /\ parts' = parts \cup {part}
       \/ app' = "closing" /\ UNCHANGED parts
    /\ UNCHANGED camerasAlone

ControlStarts == PartStarts("control", "new", "session")
SessionInits == PartStarts("session", "session", "audio")
AudioStarts == PartStarts("audio", "audio", "cameras")

\* EdgeCameraModules::Start: the cameras one after the other; one that does not
\* start takes the others down again.
EdgeStart ==
    /\ app = "cameras"
    /\ \/ /\ app' = "running"
          /\ halt' = [stop |-> FALSE, error |-> FALSE]
          /\ worker' = [w \in Workers |-> "wait"]
          /\ dirty' = TRUE
          /\ due' = TRUE
          /\ refresh' = [refresh EXCEPT !["main"] = "forced"]
       \/ /\ app' = "closing"
          /\ UNCHANGED <<halt, worker, dirty, due, refresh>>
    /\ UNCHANGED <<vsel, vseq, plan, cont, grid, selects, parts>>

\* SetEnabledView, up to its refresh.
Enabled(v) ==
    IF v = vsel
    THEN UNCHANGED <<vsel, grid, dirty, refresh>>
    ELSE /\ vsel' = v
         /\ grid' = {}
         /\ dirty' = TRUE
         /\ refresh' = [refresh EXCEPT !["logic"] = "forced"]

\* HandleReceivedMessage: a view selection of a console, taken if its number
\* is higher than the last one of that console.
SelectView(s, v, n) ==
    /\ "session" \in parts /\ selects < MaxSelects /\ refresh["logic"] = "idle"
    /\ selects' = selects + 1
    /\ IF vseq[s] > 0 /\ n =< vseq[s]
       THEN UNCHANGED <<vsel, vseq, grid, dirty, refresh>>
       ELSE vseq' = [vseq EXCEPT ![s] = n] /\ Enabled(v)
    /\ UNCHANGED <<due, plan, cont, worker, halt, app, parts>>

\* ResetViewSession: the channel of a console closes.
CloseViewChannel(s) ==
    /\ "session" \in parts /\ selects < MaxSelects /\ refresh["logic"] = "idle"
    /\ selects' = selects + 1
    /\ vseq' = [vseq EXCEPT ![s] = 0]
    /\ Enabled("Binocular")
    /\ UNCHANGED <<due, plan, cont, worker, halt, app, parts>>

\* EdgeCameraModules::Tick; a worker's error ends the main loop.
EdgeTick ==
    /\ app = "running" /\ refresh["main"] = "idle"
    /\ IF halt.error
       THEN app' = "closing" /\ UNCHANGED refresh
       ELSE refresh' = [refresh EXCEPT !["main"] = "timed"] /\ UNCHANGED app
    /\ UNCHANGED <<vsel, vseq, dirty, due, plan, cont, worker, grid, halt, selects, parts>>

\* Mutant: only a changed view makes the main thread refresh the plan.
ComputeIfDirty(t) ==
    /\ IF refresh[t] = "forced" \/ dirty
       THEN /\ plan' = [plan EXCEPT ![t] = PlanFor(vsel)]
            /\ dirty' = FALSE
            /\ due' = FALSE
            /\ refresh' = [refresh EXCEPT ![t] = "apply"]
       ELSE /\ refresh' = [refresh EXCEPT ![t] = "idle"]
            /\ UNCHANGED <<plan, dirty, due>>

\* RefreshVideoSendPlan, the part under video_view_mutex_.
Compute(t) ==
    /\ IF refresh[t] = "forced" \/ dirty \/ due
       THEN /\ plan' = [plan EXCEPT ![t] = PlanFor(vsel)]
            /\ dirty' = FALSE
            /\ due' = FALSE
            /\ refresh' = [refresh EXCEPT ![t] = "apply"]
       ELSE /\ refresh' = [refresh EXCEPT ![t] = "idle"]
            /\ UNCHANGED <<plan, dirty, due>>

ComputePlan(t) ==
    /\ refresh[t] \in {"forced", "timed"}
    /\ Compute(t)
    /\ UNCHANGED <<vsel, vseq, cont, worker, grid, halt, app, selects, parts>>

\* The part under worker_mutex_: UpdateWorkerPlan for each worker, and the
\* workers are woken.
ApplyPlan(t) ==
    /\ refresh[t] = "apply"
    /\ cont' = IF halt.stop THEN cont ELSE plan[t]
    /\ refresh' = [refresh EXCEPT ![t] = "idle"]
    /\ UNCHANGED <<vsel, vseq, dirty, due, plan, worker, grid, halt, app, selects, parts>>

\* A second has passed since the last refresh.
SecondPasses ==
    /\ ~due /\ app = "running"
    /\ due' = TRUE
    /\ UNCHANGED <<vsel, vseq, dirty, refresh, plan, cont, worker, grid, halt, app, selects, parts>>

----------------------------------------------------------------------------

\* WaitForWorker: the worker goes on when it is told to send, or to stop.
WorkerGoes(w) ==
    /\ worker[w] = "wait" /\ (halt.stop \/ w \in cont)
    /\ worker' = [worker EXCEPT ![w] = IF halt.stop THEN "done" ELSE "tick"]
    /\ UNCHANGED <<vsel, vseq, dirty, due, refresh, plan, cont, grid, halt, app, selects, parts>>

\* SubmitSurround: the view decides, when the frame comes, whether it goes into
\* the grid, out on its own, or nowhere; a grid goes out when it has a new frame
\* of every camera.
Submit(w) ==
    grid' = IF vsel \notin GridViews THEN grid
            ELSE IF grid \cup {w} = Surround THEN {} ELSE grid \cup {w}

\* Tick of a camera module, with a frame or without; the stereo frame is sent
\* as it is.
WorkerTicks(w) ==
    /\ worker[w] = "tick"
    /\ worker' = [worker EXCEPT ![w] = "wait"]
    /\ IF w = "stereo" THEN UNCHANGED grid ELSE Submit(w) \/ UNCHANGED grid
    /\ UNCHANGED <<vsel, vseq, dirty, due, refresh, plan, cont, halt, app, selects, parts>>

\* Tick fails: ReportWorkerError stops the other workers too.
WorkerFails(w) ==
    /\ worker[w] = "tick"
    /\ worker' = [worker EXCEPT ![w] = "done"]
    /\ halt' = [stop |-> TRUE, error |-> TRUE]
    /\ UNCHANGED <<vsel, vseq, dirty, due, refresh, plan, cont, grid, app, selects, parts>>

\* The end of the main loop: a signal, or the frame limit.
MainLoopEnds ==
    /\ app = "running" /\ refresh["main"] = "idle"
    /\ app' = "closing"
    /\ UNCHANGED <<vsel, vseq, dirty, due, refresh, plan, cont, worker, grid, halt, selects, parts>>

\* ShutdownApplication: the control module first, then the audio, the cameras
\* and the session.
PartStops(part, from, to) ==
    /\ app = from
    /\ app' = to /\ parts' = parts \ {part}
    /\ UNCHANGED camerasAlone

\* RtcSession::Shutdown waits for the callback it is in.
SessionShutsDown == refresh["logic"] = "idle" /\ PartStops("session", "joined", "stopped")

ShutdownApplication ==
    \/ PartStops("control", "closing", "muting")
    \/ PartStops("audio", "muting", "stopping")
    \/ SessionShutsDown

\* EdgeCameraModules::Stop, up to the joins.
EdgeStop ==
    /\ app = "stopping"
    /\ halt' = [halt EXCEPT !.stop = TRUE]
    /\ app' = "joining"
    /\ UNCHANGED <<vsel, vseq, dirty, due, refresh, plan, cont, worker, grid, selects, parts>>

EdgeStopped ==
    /\ app = "joining" /\ \A w \in Workers : worker[w] \in {"none", "done"}
    /\ app' = "joined"
    /\ UNCHANGED <<vsel, vseq, dirty, due, refresh, plan, cont, worker, grid, halt, selects, parts>>

----------------------------------------------------------------------------

EdgeNext ==
    \/ ControlStarts \/ SessionInits \/ AudioStarts \/ ShutdownApplication
    \/ EdgeStart \/ EdgeTick \/ SecondPasses \/ MainLoopEnds \/ EdgeStop \/ EdgeStopped
    \/ \E s \in Consoles :
          CloseViewChannel(s) \/ \E v \in Views, n \in 1 .. MaxSelects : SelectView(s, v, n)
    \/ \E t \in Refreshers : ComputePlan(t) \/ ApplyPlan(t)
    \/ \E w \in Workers : WorkerGoes(w) \/ WorkerTicks(w) \/ WorkerFails(w)

EdgeSpec == EdgeInit /\ [][EdgeNext]_edgeVars

\* The main loop goes round and seconds pass; a thread inside a refresh goes
\* on, and so does a worker that is not waiting.
EdgeFairness ==
    /\ WF_edgeVars(EdgeTick) /\ WF_edgeVars(SecondPasses)
    /\ \A t \in Refreshers : WF_edgeVars(ComputePlan(t) \/ ApplyPlan(t))
    /\ \A w \in Workers : WF_edgeVars(WorkerGoes(w) \/ WorkerTicks(w))
    /\ WF_edgeVars(EdgeStop) /\ WF_edgeVars(EdgeStopped) /\ WF_edgeVars(ShutdownApplication)

EdgeFairSpec == EdgeSpec /\ EdgeFairness

----------------------------------------------------------------------------

\* Whichever refresh wins the race for the workers, a view that stays selected
\* is in the end what the cameras send: the main thread's periodic refresh
\* repairs a plan applied too late.
PlanCatchesUp ==
    \A v \in Views : <>[](vsel = v /\ app = "running" /\ ~halt.stop) => <>[](cont = PlanFor(v))

\* Stop returns whatever the workers were doing; a worker that failed takes
\* the program with it.
EdgeStops == (app = "closing" \/ halt.error) ~> app = "stopped"

\* The session outlives every camera worker that may send through it.
SessionOutlivesWorkers ==
    "session" \notin parts => \A w \in Workers : worker[w] \in {"none", "done"}
=============================================================================
