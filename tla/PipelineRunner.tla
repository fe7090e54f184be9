----------------------------- MODULE PipelineRunner ----------------------------
(* A program that runs pipelines in subprocesses: how they are launched, and  *)
(* how they are ended when the program exits, is interrupted or is killed.    *)
(* Signals arrive at any time: while a pipeline is launched, while another    *)
(* signal is handled, and while the program exits.                            *)
EXTENDS Integers, Sequences, FiniteSets, SequencesExt

CONSTANTS Launches,     \* number of calls of start_pipeline_subprocess
          max_signals   \* bound on the signals that are handled

ASSUME RunnerAssumption == Launches \in Nat /\ max_signals \in Nat

VARIABLES program,      \* "running" | "exiting" | "ended"
          frames,       \* what the main thread is in, the innermost last
          launched,     \* number of launches begun
          leader,       \* leader[p]: "none" | "forked" | "running" | "told" | "dead"
          port,         \* the pipeline that listens on port 7671, or 0
          registered,   \* atexit callbacks that are still to be run, in order of registration
          handler,      \* the pipeline that the signal handlers terminate, or 0
          signals,
          disturbed,    \* history: a signal arrived while the program was exiting
          killed        \* history: the program ended without running its callbacks

runnerVars == <<program, frames, launched, leader, port, registered, handler, signals, disturbed, killed>>

Pipelines == 1..Launches
Top == Last(frames)
In(do, step) == frames # <<>> /\ Top.do = do /\ Top.step = step
Goto(step) == frames' = [frames EXCEPT ![Len(frames)].step = step]
Leave == frames' = Front(frames)
Frame(do, p, step) == [do |-> do, p |-> p, step |-> step]

RunnerInit ==
  /\ program = "running" /\ frames = <<>> /\ launched = 0 /\ leader = [p \in Pipelines |-> "none"]
  /\ port = 0 /\ registered = <<>> /\ handler = 0 /\ signals = 0 /\ disturbed = FALSE /\ killed = FALSE

-----------------------------------------------------------------------------
(* start_pipeline_subprocess.                                                 *)

is_port_in_use == port # 0

\* The call raises when a pipeline listens already; one that was launched and
\* does not listen yet is not noticed.
Start ==
  /\ program = "running" /\ frames = <<>> /\ launched < Launches /\ ~is_port_in_use
  /\ launched' = launched + 1 /\ leader' = [leader EXCEPT ![launched + 1] = "forked"]
  /\ frames' = <<Frame("start", launched + 1, "popen")>>
  /\ UNCHANGED <<program, port, registered, handler, signals, disturbed, killed>>

\* combined_preexec_fn, in the child: a session of its own, and the wish to be
\* told of the end of the program.  Popen returns after that.
Exec(p) ==
  /\ leader[p] = "forked" /\ leader' = [leader EXCEPT ![p] = "running"]
  /\ UNCHANGED <<program, frames, launched, port, registered, handler, signals, disturbed, killed>>
Popen ==
  /\ In("start", "popen") /\ leader[Top.p] # "forked" /\ Goto("atexit")
  /\ UNCHANGED <<program, launched, leader, port, registered, handler, signals, disturbed, killed>>
RegisterAtexit ==
  /\ In("start", "atexit") /\ registered' = Append(registered, Top.p) /\ Goto("signals")
  /\ UNCHANGED <<program, launched, leader, port, handler, signals, disturbed, killed>>
RegisterSignals ==
  /\ In("start", "signals") /\ handler' = Top.p /\ Leave
  /\ UNCHANGED <<program, launched, leader, port, registered, signals, disturbed, killed>>

\* The source of the pipeline binds the port; a second one cannot, and fails.
Listen(p) ==
  /\ leader[p] = "running"
  /\ IF port = 0 THEN port' = p /\ UNCHANGED leader
     ELSE port # p /\ leader' = [leader EXCEPT ![p] = "dead"] /\ UNCHANGED port
  /\ UNCHANGED <<program, frames, launched, registered, handler, signals, disturbed, killed>>

\* A pipeline ends: of itself, or some time after it was told to.
Die(p) ==
  /\ leader[p] \in {"running", "told"} /\ leader' = [leader EXCEPT ![p] = "dead"]
  /\ port' = IF port = p THEN 0 ELSE port
  /\ UNCHANGED <<program, frames, launched, registered, handler, signals, disturbed, killed>>

-----------------------------------------------------------------------------
(* _terminate_subprocess.                                                     *)

\* The whole group is told; one that has ended is left alone.
Tell ==
  /\ In("terminate", "poll")
  /\ IF leader[Top.p] = "dead" THEN Leave /\ UNCHANGED leader
     ELSE Goto("sleep") /\ leader' = [leader EXCEPT ![Top.p] = "told"]
  /\ UNCHANGED <<program, launched, port, registered, handler, signals, disturbed, killed>>

\* What has not ended within five seconds is killed.
AfterGrace_patient(p) == leader[p]
AfterGrace(p) == "dead"

Kill ==
  /\ In("terminate", "sleep") /\ Leave
  /\ leader' = [leader EXCEPT ![Top.p] = AfterGrace(Top.p)]
  /\ port' = IF port = Top.p /\ AfterGrace(Top.p) = "dead" THEN 0 ELSE port
  /\ UNCHANGED <<program, launched, registered, handler, signals, disturbed, killed>>

-----------------------------------------------------------------------------
(* Signals and the end of the program.                                        *)

\* signal_handler, on top of whatever the main thread does.
Signal ==
  /\ program # "ended" /\ handler # 0 /\ signals < max_signals /\ signals' = signals + 1
  /\ frames' = frames \o <<Frame("handler", handler, "exit"), Frame("terminate", handler, "poll")>>
  /\ disturbed' = (disturbed \/ program = "exiting")
  /\ UNCHANGED <<program, launched, leader, port, registered, handler, killed>>

\* sys.exit in a signal handler: SystemExit passes through all the frames below,
\* a launch or a five-second wait among them, and ends the program or, while it
\* exits, the atexit callback.
SysExit ==
  /\ In("handler", "exit") /\ frames' = <<>> /\ program' = "exiting"
  /\ UNCHANGED <<launched, leader, port, registered, handler, signals, disturbed, killed>>

\* Without a handler an interrupt raises KeyboardInterrupt; or the program comes to its end.
Exit ==
  /\ program = "running" /\ (frames = <<>> \/ handler = 0)
  /\ program' = "exiting" /\ frames' = <<>>
  /\ UNCHANGED <<launched, leader, port, registered, handler, signals, disturbed, killed>>

\* The callbacks registered with atexit, the last one first.
Atexit ==
  /\ program = "exiting" /\ frames = <<>> /\ registered # <<>>
  /\ frames' = <<Frame("terminate", Last(registered), "poll")>> /\ registered' = Front(registered)
  /\ UNCHANGED <<program, launched, leader, port, handler, signals, disturbed, killed>>

\* _set_pdeathsig: the kernel sends SIGTERM to each child that asked for it.
Told == [p \in Pipelines |-> IF leader[p] = "running" THEN "told" ELSE leader[p]]
End ==
  /\ program = "exiting" /\ frames = <<>> /\ registered = <<>>
  /\ program' = "ended" /\ leader' = Told
  /\ UNCHANGED <<frames, launched, port, registered, handler, signals, disturbed, killed>>

\* SIGKILL, or SIGTERM before there is a handler.
Killed ==
  /\ program # "ended" /\ program' = "ended" /\ leader' = Told /\ killed' = TRUE /\ frames' = <<>>
  /\ UNCHANGED <<launched, port, registered, handler, signals, disturbed>>

RunnerNext ==
  \/ Start \/ Popen \/ RegisterAtexit \/ RegisterSignals \/ Tell \/ Kill
  \/ Signal \/ SysExit \/ Exit \/ Atexit \/ End \/ Killed
  \/ \E p \in Pipelines : Exec(p) \/ Listen(p) \/ Die(p)

RunnerSpec == RunnerInit /\ [][RunnerNext]_runnerVars

-----------------------------------------------------------------------------
\* When the program has ended, however it did and whatever signals arrived on
\* the way, a pipeline whose call had come to its end was at least told to end.
\* It is dead, even if it ignores being told, when the program ran its callbacks:
\* every pipeline if no signal disturbed them, and the one launched last in any
\* case.  At most one pipeline listens, and only one that lives.
NoneOutlives ==
  /\ program = "ended" => \A p \in Pipelines :
       /\ handler >= p => leader[p] \in {"told", "dead"}
       /\ handler >= p /\ ~killed /\ (~disturbed \/ p = handler) => leader[p] = "dead"
  /\ port # 0 => leader[port] \in {"running", "told"}
=============================================================================
