----------------------------- MODULE SessionRunner -----------------------------
(***************************************************************************)
(* The process that a worker runs for a session with its own display       *)
(* server: scdm-x-session (daemon/scdm-x-session.c) or scdm-wayland-session*)
(* (daemon/scdm-wayland-session.c).  It starts an X server (X only), a     *)
(* message bus and the session, registers the display with the daemon, and *)
(* runs a main loop until one of its processes ends or SIGTERM arrives;    *)
(* then it terminates and awaits the others.                               *)
(***************************************************************************)
EXTENDS Naturals, Sequences

VARIABLES
    runner,      \* the process: its State, where it is and its exit status
    child,       \* its processes: "none", "running" or "ended"
    signalled,   \* the processes that were sent SIGTERM or SIGHUP
    term         \* is a SIGTERM for the runner pending?

runnerVars == <<runner, child, signalled, term>>

Children == {"x", "bus", "session"}

(* What main does before it runs the main loop, in order.                  *)
Program ==
    [x       |-> <<"x", "bus", "environment", "connect", "register", "session">>,
     wayland |-> <<"bus", "session", "connect", "register">>]

(* The phase is "starting" before the SIGTERM handler is installed,        *)
(* "program" at step pc of the Program, "loop" in the main loop, "calling" *)
(* in the synchronous call of RegisterSession, "out" at the label, and     *)
(* "waiting" in wait_on_subprocesses.  subprocess: those the State has.    *)
RunnerInit ==
    /\ \E k \in {"x", "wayland"}, delayed \in BOOLEAN :
         runner = [kind |-> k, delayed |-> delayed, phase |-> "unborn", pc |-> 1,
                   subprocess |-> {}, quit |-> FALSE, status |-> "ok"]
    /\ child = [c \in Children |-> "none"]
    /\ signalled = {} /\ term = FALSE

In(phase) == runner.phase = phase
At(op)    == In("program") /\ Program[runner.kind][runner.pc] = op
Alive     == ~In("unborn") /\ ~In("exited")
Running   == {c \in Children : child[c] = "running"}

(* The worker executes the program.                                        *)
Exec == In("unborn") /\ runner' = [runner EXCEPT !.phase = "starting"]

(* Options and settings; the handler of SIGTERM.                           *)
StartUp ==
    /\ In("starting")
    /\ \/ runner' = [runner EXCEPT !.phase = "program"]
       \/ runner' = [runner EXCEPT !.phase = "out", !.status = "error"]
    /\ UNCHANGED <<child, signalled, term>>

SigtermKills ==
    /\ In("starting") /\ term
    /\ runner' = [runner EXCEPT !.phase = "exited", !.status = "error"]
    /\ UNCHANGED <<child, signalled, term>>

(* One step of the program has been done; the display was registered in    *)
(* the last one (Wayland) or the session started (X).                      *)
Advanced(R) ==
    IF R.pc = Len(Program[R.kind]) THEN [R EXCEPT !.phase = "loop"]
    ELSE [R EXCEPT !.pc = @ + 1]

(* A step that starts a process and keeps it.                              *)
Spawns(c) ==
    /\ At(c)
    /\ child' = [child EXCEPT ![c] = "running"]
    /\ runner' = Advanced([runner EXCEPT !.subprocess = @ \cup {c}])
    /\ UNCHANGED <<signalled, term>>

SpawnX       == Spawns("x")
SpawnBus     == Spawns("bus")
SpawnSession == Spawns("session")

(* Steps that start nothing: the bus is there already, or is told where    *)
(* the display is, or the daemon's proxy is made.                          *)
Proceeds(op) ==
    /\ At(op)
    /\ runner' = Advanced(runner)
    /\ UNCHANGED <<child, signalled, term>>

UseBus                  == Proceeds("bus")
UpdateBusEnvironment    == Proceeds("environment")
ConnectToDisplayManager == Proceeds("connect")
RegisterDisplay         == Proceeds("register")

(* A step fails, RegisterDisplay also by its timeout.  A server that ends  *)
(* its pipe without an answer has exited.  A daemon that cannot be         *)
(* contacted is no error for the exit status.                              *)
Fails ==
    /\ In("program")
    /\ runner' = [runner EXCEPT !.phase = "out", !.status = IF At("connect") THEN "ok" ELSE "error"]
    /\ UNCHANGED <<child, signalled, term>>

(* The bus was started and cannot be connected to.                         *)
BusUnusable ==
    /\ At("bus")
    /\ child' = [child EXCEPT !["bus"] = "running"]
    /\ runner' = [runner EXCEPT !.phase = "out", !.status = "error", !.subprocess = @ \cup {"bus"}]
    /\ UNCHANGED <<signalled, term>>

(* on_sigterm: the pending waits are cancelled and leave everything as it  *)
(* is; the loop is to end.                                                 *)
OnSigterm ==
    /\ In("loop") /\ term
    /\ runner' = [runner EXCEPT !.quit = TRUE] /\ term' = FALSE
    /\ UNCHANGED <<child, signalled>>

(* Mutant: the runner forgets all its processes.                           *)
OnFinishedForgets(c) ==
    /\ In("loop") /\ c \in runner.subprocess /\ child[c] = "ended"
    /\ runner' = [runner EXCEPT !.subprocess = {}, !.quit = TRUE]
    /\ UNCHANGED <<child, signalled, term>>

(* A process has ended: it is forgotten, and the loop is to end.           *)
OnFinished(c) ==
    /\ In("loop") /\ c \in runner.subprocess /\ child[c] = "ended"
    /\ runner' = [runner EXCEPT !.subprocess = @ \ {c}, !.quit = TRUE]
    /\ UNCHANGED <<child, signalled, term>>

OnXServerFinished == OnFinished("x")
OnBusFinished     == OnFinished("bus")
OnSessionFinished == OnFinished("session")

(* register_session_timeout_cb, a synchronous call from the main loop, for *)
(* a session that does not register itself.                                *)
RegisterSessionCalls ==
    /\ In("loop") /\ runner.delayed
    /\ runner' = [runner EXCEPT !.phase = "calling", !.delayed = FALSE]
    /\ UNCHANGED <<child, signalled, term>>

RegisterSessionReturns ==
    /\ In("calling")
    /\ runner' = [runner EXCEPT !.phase = "loop"]
    /\ UNCHANGED <<child, signalled, term>>

(* The loop ends with the sources that were ready, or some of them.        *)
LoopEnds ==
    /\ In("loop") /\ runner.quit
    /\ runner' = [runner EXCEPT !.phase = "out",
                                !.status = IF "session" \in runner.subprocess THEN "ok" ELSE "session"]
    /\ UNCHANGED <<child, signalled, term>>

SignalSubprocesses ==
    /\ In("out")
    /\ signalled' = signalled \cup (Running \cap runner.subprocess)
    /\ runner' = [runner EXCEPT !.phase = "waiting"]
    /\ UNCHANGED <<child, term>>

(* wait_on_subprocesses and clear_state                                    *)
WaitOnSubprocesses ==
    /\ In("waiting") /\ \A c \in runner.subprocess : child[c] # "running"
    /\ runner' = [runner EXCEPT !.phase = "exited", !.subprocess = {}]
    /\ UNCHANGED <<child, signalled, term>>

ChildEnds(c) ==
    /\ child[c] = "running"
    /\ child' = [child EXCEPT ![c] = "ended"]
    /\ UNCHANGED <<runner, signalled, term>>

RunnerStep ==
    \/ StartUp \/ SigtermKills
    \/ SpawnX \/ SpawnBus \/ SpawnSession \/ UseBus \/ Fails \/ BusUnusable
    \/ UpdateBusEnvironment \/ ConnectToDisplayManager
    \/ OnSigterm \/ RegisterSessionCalls
    \/ OnXServerFinished \/ OnBusFinished \/ OnSessionFinished
    \/ LoopEnds \/ SignalSubprocesses \/ WaitOnSubprocesses

(* Nothing that the runner started outlives it, at whatever step it gave   *)
(* up and whichever of its processes ended first.                          *)
NothingLeft == In("exited") => Running = {}
================================================================================
