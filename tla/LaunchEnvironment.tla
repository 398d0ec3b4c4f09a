--------------------------- MODULE LaunchEnvironment ---------------------------
(***************************************************************************)
(* The session that shows the login screen                                 *)
(* (daemon/scdm-launch-environment.c), with the three processes it takes:  *)
(* the daemon, which holds the ScdmSession and its one conversation        *)
(* (daemon/scdm-session.c, daemon/scdm-session-worker-job.c), the worker   *)
(* (daemon/scdm-session-worker.c), and the runner that the worker executes *)
(* (SessionRunner).  The display that owns the launch environment may stop *)
(* it at any time; the daemon's main thread then waits for the worker,     *)
(* which waits for the runner, which may be waiting for the daemon.        *)
(***************************************************************************)
EXTENDS SessionRunner

VARIABLES
    env,        \* the launch environment: is there a session, is its pid known
    told,       \* what its display was told with signals
    conv,       \* the conversation in the daemon
    wire,       \* what the worker sent and the daemon has not handled
    worker,     \* the worker process
    daemon,     \* "waiting" while the main thread waits for a worker to end
    stubborn    \* does the session ignore SIGTERM?

vars == <<runnerVars, env, told, conv, wire, worker, daemon, stubborn>>

Ended == worker.at \in {"gone", "crashed"}

(* conv.listed: the conversation is in the table and its job's child watch *)
(* is active; conv.session: it is the session_conversation of the session. *)
LEInit ==
    /\ RunnerInit
    /\ env = [stage |-> "new", session |-> FALSE, pid |-> FALSE]
    /\ told = {} /\ wire = <<>> /\ daemon = "free"
    /\ conv = [listed |-> FALSE, session |-> FALSE]
    /\ worker = [at |-> "none", child |-> FALSE, term |-> FALSE]
    /\ stubborn \in BOOLEAN

-----------------------------------------------------------------------------
(* The worker *)

Sends(m) == wire' = IF conv.listed THEN Append(wire, m) ELSE wire

WorkerHello ==
    /\ worker.at = "spawned"
    /\ worker' = [worker EXCEPT !.at = "idle"] /\ Sends("Hello")
    /\ UNCHANGED <<runnerVars, env, told, conv, daemon, stubborn>>

(* Setup, authentication, authorization, credentials and the opening of    *)
(* the PAM session, which ends with an answer (see SessionWorker).         *)
WorkerOpens ==
    /\ worker.at = "opening"
    /\ worker' = [worker EXCEPT !.at = "idle"]
    /\ \E m \in {"Opened", "Failed"} : Sends(m)
    /\ UNCHANGED <<runnerVars, env, told, conv, daemon, stubborn>>

WorkerStarts ==
    /\ worker.at = "starting"
    /\ \/ /\ worker' = [worker EXCEPT !.at = "idle", !.child = TRUE]
          /\ Exec /\ Sends("Started")
       \/ /\ worker' = [worker EXCEPT !.at = "idle"]
          /\ Sends("Failed") /\ UNCHANGED runner
    /\ UNCHANGED <<child, signalled, term, env, told, conv, daemon, stubborn>>

(* session_worker_child_watch; whatever is left of the group gets SIGHUP.  *)
WorkerChildWatch ==
    /\ worker.at = "idle" /\ worker.child /\ In("exited")
    /\ worker' = [worker EXCEPT !.child = FALSE]
    /\ signalled' = signalled \cup Running
    /\ Sends("SessionExited")
    /\ UNCHANGED <<runner, child, term, env, told, conv, daemon, stubborn>>

(* The main loop quits and finalize signals the runner; before the handler *)
(* is there, SIGTERM kills.                                                *)
WorkerOnSigterm ==
    /\ worker.term /\ worker.at \in {"spawned", "idle", "opening", "starting"}
    /\ worker' = [worker EXCEPT !.at = IF @ = "spawned" THEN "gone" ELSE "finalizing"]
    /\ term' = IF worker.child /\ Alive THEN TRUE ELSE term
    /\ UNCHANGED <<runner, child, signalled, env, told, conv, wire, daemon, stubborn>>

(* finalize waits for the runner without limit.                            *)
WorkerFinalized ==
    /\ worker.at = "finalizing" /\ (worker.child => In("exited"))
    /\ worker' = [worker EXCEPT !.at = "gone"]
    /\ UNCHANGED <<runnerVars, env, told, conv, wire, daemon, stubborn>>

WorkerCrashes ==
    /\ worker.at # "none" /\ ~Ended
    /\ worker' = [worker EXCEPT !.at = "crashed"]
    /\ UNCHANGED <<runnerVars, env, told, conv, wire, daemon, stubborn>>

-----------------------------------------------------------------------------
(* The daemon *)

Handles(m) == daemon = "free" /\ wire # <<>> /\ Head(wire) = m

(* stop_conversation: the connection is closed, the worker signalled.      *)
Stopping == [worker EXCEPT !.term = worker.at # "none" /\ ~Ended]

(* SIGTERM for the process group of the greeter, if its pid is known.      *)
SignalGroup ==
    /\ signalled' = IF env.pid THEN signalled \cup Running ELSE signalled
    /\ term' = IF env.pid /\ Alive THEN TRUE ELSE term

(* scdm_launch_environment_start; the user or a directory may be missing.  *)
Start ==
    /\ daemon = "free" /\ env.stage = "new"
    /\ \/ /\ env' = [env EXCEPT !.stage = "failed"]
          /\ UNCHANGED <<conv, worker>>
       \/ /\ env' = [env EXCEPT !.stage = "started", !.session = TRUE]
          /\ conv' = [conv EXCEPT !.listed = TRUE]
          /\ worker' = [worker EXCEPT !.at = "spawned"]
    /\ UNCHANGED <<runnerVars, told, wire, daemon, stubborn>>

(* on_conversation_started: set up for the program.                        *)
OnConversationStarted ==
    /\ Handles("Hello")
    /\ wire' = Tail(wire)
    /\ worker' = IF worker.at = "idle" THEN [worker EXCEPT !.at = "opening"] ELSE worker
    /\ UNCHANGED <<runnerVars, env, told, conv, daemon, stubborn>>

OnSessionOpened ==
    /\ Handles("Opened")
    /\ wire' = Tail(wire) /\ told' = told \cup {"opened"}
    /\ worker' = IF worker.at = "idle" THEN [worker EXCEPT !.at = "starting"] ELSE worker
    /\ UNCHANGED <<runnerVars, env, conv, daemon, stubborn>>

OnSessionStarted ==
    /\ Handles("Started")
    /\ wire' = Tail(wire) /\ told' = told \cup {"started"}
    /\ env' = [env EXCEPT !.pid = TRUE] /\ conv' = [conv EXCEPT !.session = TRUE]
    /\ UNCHANGED <<runnerVars, worker, daemon, stubborn>>

(* A step of the conversation failed: it is stopped, nothing is told.      *)
OnFailed ==
    /\ Handles("Failed")
    /\ wire' = <<>> /\ worker' = Stopping
    /\ UNCHANGED <<runnerVars, env, told, conv, daemon, stubborn>>

(* worker_on_session_exited with the handlers of session-exited and -died  *)
OnSessionExited ==
    /\ Handles("SessionExited")
    /\ wire' = <<>> /\ worker' = Stopping
    /\ conv' = [conv EXCEPT !.session = FALSE]
    /\ told' = told \cup {"ended"}
    /\ UNCHANGED <<runnerVars, env, daemon, stubborn>>

(* Mutant: a session whose worker ends is not reported.                    *)
OnConversationStoppedSilent ==
    /\ daemon = "free" /\ conv.listed /\ Ended
    /\ conv' = [listed |-> FALSE, session |-> FALSE] /\ wire' = <<>>
    /\ env' = [env EXCEPT !.session = FALSE]
    /\ SignalGroup
    /\ UNCHANGED <<runner, child, told, worker, daemon, stubborn>>

(* The child watch: worker_exited or worker_died emit session-exited or    *)
(* -died for the session's conversation, then conversation-stopped, whose  *)
(* handler signals a greeter that was started and emits stopped.           *)
OnConversationStopped ==
    /\ daemon = "free" /\ conv.listed /\ Ended
    /\ conv' = [listed |-> FALSE, session |-> FALSE] /\ wire' = <<>>
    /\ env' = [env EXCEPT !.session = FALSE]
    /\ told' = IF conv.session \/ env.pid THEN told \cup {"ended"} ELSE told
    /\ SignalGroup
    /\ UNCHANGED <<runner, child, worker, daemon, stubborn>>

(* Mutant: only a greeter whose pid is known is stopped.                   *)
StopByPid ==
    /\ daemon = "free" /\ env.stage \in {"started", "failed"}
    /\ env' = [env EXCEPT !.stage = "stopped", !.session = FALSE]
    /\ SignalGroup
    /\ IF env.session /\ conv.listed /\ env.pid
       THEN /\ worker' = Stopping /\ wire' = <<>>
            /\ conv' = [listed |-> FALSE, session |-> FALSE]
            /\ daemon' = "waiting"
       ELSE UNCHANGED <<worker, wire, conv, daemon>>
    /\ UNCHANGED <<runner, child, told, stubborn>>

(* scdm_launch_environment_stop, called by the display after it has        *)
(* disconnected its handlers: scdm_session_close stops the conversation    *)
(* now, which removes the child watch and waits for the worker.            *)
Stop ==
    /\ daemon = "free" /\ env.stage \in {"started", "failed"}
    /\ env' = [env EXCEPT !.stage = "stopped", !.session = FALSE]
    /\ SignalGroup
    /\ IF env.session /\ conv.listed
       THEN /\ worker' = Stopping /\ wire' = <<>>
            /\ conv' = [listed |-> FALSE, session |-> FALSE]
            /\ daemon' = "waiting"
       ELSE UNCHANGED <<worker, wire, conv, daemon>>
    /\ UNCHANGED <<runner, child, told, stubborn>>

(* scdm_wait_on_and_disown_pid: the worker ended, or 5 seconds passed.     *)
WaitOnAndDisownPid ==
    /\ daemon = "waiting" /\ daemon' = "free"
    /\ UNCHANGED <<runnerVars, env, told, conv, wire, worker, stubborn>>

-----------------------------------------------------------------------------
(* The runner's calls of the daemon are answered by a free daemon; a call  *)
(* of RegisterSession may also run into its timeout (for RegisterDisplay   *)
(* that is Fails).                                                         *)
RunnerCalls ==
    /\ (daemon = "free" /\ RegisterDisplay) \/ RegisterSessionReturns
    /\ UNCHANGED <<env, told, conv, wire, worker, daemon, stubborn>>

Runs ==
    /\ RunnerStep
    /\ UNCHANGED <<env, told, conv, wire, worker, daemon, stubborn>>

ProcessEnds(c) ==
    /\ ChildEnds(c)
    /\ UNCHANGED <<env, told, conv, wire, worker, daemon, stubborn>>

(* Every process ends on SIGTERM but a stubborn session.                   *)
Obeys(c) == c \in signalled /\ ~(c = "session" /\ stubborn) /\ ProcessEnds(c)

WorkerStep ==
    WorkerHello \/ WorkerOpens \/ WorkerStarts \/ WorkerChildWatch \/ WorkerOnSigterm \/ WorkerFinalized

Dispatch ==
    \/ OnConversationStarted \/ OnSessionOpened \/ OnSessionStarted
    \/ OnFailed \/ OnSessionExited \/ OnConversationStopped

(* Nothing is left to do.                                                  *)
Done ==
    /\ env.stage = "stopped" /\ daemon = "free" /\ (worker.at = "none" \/ Ended) /\ ~Alive
    /\ UNCHANGED vars

LENext ==
    \/ Start \/ Stop \/ WaitOnAndDisownPid \/ Dispatch
    \/ WorkerStep \/ WorkerCrashes
    \/ RunnerCalls \/ Runs \/ (\E c \in Children : ProcessEnds(c))
    \/ Done

LESpec == LEInit /\ [][LENext]_vars

(* The daemon's main loop dispatches, the worker and the runner are        *)
(* scheduled, timeouts expire.  No one has to stop or to start a greeter,  *)
(* and no process has to end before it is asked to.                        *)
FairLESpec ==
    /\ LESpec
    /\ WF_vars(WaitOnAndDisownPid) /\ WF_vars(Dispatch)
    /\ WF_vars(WorkerStep) /\ WF_vars(Runs) /\ WF_vars(RunnerCalls)
    /\ \A c \in Children : WF_vars(Obeys(c))

-----------------------------------------------------------------------------
(* A display that was told of its login screen's start is told of its end, *)
(* however the processes end and even if the worker crashes, unless it has *)
(* stopped the login screen itself.                                        *)
EndIsTold ==
    ("started" \in told /\ In("exited")) ~> ("ended" \in told \/ env.stage = "stopped")

(* A stopped login screen goes away, at whatever step of its start it was  *)
(* stopped: no process of it is left, unless the session ignores SIGTERM   *)
(* or the worker crashed before the daemon knew the pid.                   *)
Unreachable == stubborn \/ (worker.at = "crashed" /\ ~env.pid)
StopEndsGreeter == (env.stage = "stopped") ~> (Unreachable \/ (~Alive /\ Running = {}))
================================================================================
