------------------------ MODULE LaunchEnvironmentProofs ------------------------
(***************************************************************************)
(* NothingLeft of SessionRunner, proved for the runner among the worker,   *)
(* the daemon and the display (LaunchEnvironment), however they signal it  *)
(* and in whatever order its processes end.  It is inductive together with *)
(* "what runs is in the State" and "before main has started anything the   *)
(* State is empty", which is what makes an early SIGTERM harmless.         *)
(***************************************************************************)
EXTENDS LaunchEnvironment, TLAPS

Phases == {"unborn", "starting", "program", "loop", "calling", "out", "waiting", "exited"}

RunnerType ==
    [kind : {"x", "wayland"}, delayed : BOOLEAN, phase : Phases, pc : Nat,
     subprocess : SUBSET Children, quit : BOOLEAN, status : {"ok", "error", "session"}]

RunnerTypeOK ==
    /\ runner \in RunnerType
    /\ child \in [Children -> {"none", "running", "ended"}]

(* A process that runs is one the State has.                               *)
Kept ==
    /\ Running \subseteq runner.subprocess
    /\ runner.phase \in {"unborn", "starting", "exited"} => runner.subprocess = {}

RunnerInv == RunnerTypeOK /\ Kept

(* The runner goes on as R, and its processes stay as they are.            *)
LEMMA GoesOnAs ==
    ASSUME RunnerInv, NEW R \in RunnerType, runner' = R, UNCHANGED child,
           runner.subprocess \ R.subprocess \subseteq Children \ Running,
           R.phase \in {"unborn", "starting", "exited"} => R.subprocess = {}
    PROVE  RunnerInv'
  BY DEF RunnerInv, RunnerTypeOK, Kept, Running

LEMMA AdvancedType ==
    ASSUME NEW R \in RunnerType, R.phase = "program"
    PROVE  /\ Advanced(R) \in RunnerType
           /\ Advanced(R).subprocess = R.subprocess
           /\ Advanced(R).phase \in {"program", "loop"}
<1>1. R.pc + 1 \in Nat
  BY DEF RunnerType
<1>2. [R EXCEPT !.phase = "loop"] \in RunnerType
  BY DEF RunnerType, Phases
<1>3. [R EXCEPT !.pc = @ + 1] \in RunnerType
  BY <1>1 DEF RunnerType
<1> QED  BY <1>2, <1>3 DEF Advanced, RunnerType

(* A process is started and kept; R is what becomes of the runner.         *)
LEMMA SpawnKeeps ==
    ASSUME RunnerInv, NEW c \in Children, NEW R \in RunnerType, runner' = R,
           child' = [child EXCEPT ![c] = "running"],
           R.subprocess = runner.subprocess \cup {c},
           R.phase \notin {"unborn", "starting", "exited"}
    PROVE  RunnerInv'
<1>1. child' \in [Children -> {"none", "running", "ended"}]
  BY DEF RunnerInv, RunnerTypeOK
<1>2. Running' \subseteq Running \cup {c}
  BY DEF RunnerInv, RunnerTypeOK, Running
<1> QED  BY <1>1, <1>2 DEF RunnerInv, RunnerTypeOK, Kept

LEMMA SpawnsKeeps ==
    ASSUME RunnerInv, NEW c \in Children, Spawns(c)
    PROVE  RunnerInv'
<1> DEFINE R == [runner EXCEPT !.subprocess = @ \cup {c}]
<1>1. R \in RunnerType /\ R.subprocess = runner.subprocess \cup {c} /\ R.phase = "program"
  BY DEF RunnerInv, RunnerTypeOK, RunnerType, Spawns, At, In
<1>2. runner' = Advanced(R) /\ child' = [child EXCEPT ![c] = "running"]
  BY DEF Spawns
<1> HIDE DEF R
<1> QED  BY <1>1, <1>2, AdvancedType, SpawnKeeps

LEMMA BusUnusableKeeps == ASSUME RunnerInv, BusUnusable PROVE RunnerInv'
<1> DEFINE R == [runner EXCEPT !.phase = "out", !.status = "error", !.subprocess = @ \cup {"bus"}]
<1>1. R \in RunnerType /\ R.subprocess = runner.subprocess \cup {"bus"} /\ R.phase = "out"
  BY DEF RunnerInv, RunnerTypeOK, RunnerType, Phases, Children
<1>2. runner' = R /\ child' = [child EXCEPT !["bus"] = "running"] /\ "bus" \in Children
  BY DEF BusUnusable, Children
<1> HIDE DEF R
<1> QED  BY <1>1, <1>2, SpawnKeeps

LEMMA ProceedsKeeps ==
    ASSUME RunnerInv, NEW op, Proceeds(op)
    PROVE  RunnerInv'
<1>1. runner \in RunnerType /\ runner.phase = "program"
  BY DEF RunnerInv, RunnerTypeOK, Proceeds, At, In
<1>2. runner' = Advanced(runner) /\ UNCHANGED child
  BY DEF Proceeds
<1> QED  BY <1>1, <1>2, AdvancedType, GoesOnAs

LEMMA FinishedKeeps ==
    ASSUME RunnerInv, NEW c \in Children, OnFinished(c)
    PROVE  RunnerInv'
<1> DEFINE R == [runner EXCEPT !.subprocess = @ \ {c}, !.quit = TRUE]
<1>1. R \in RunnerType /\ R.subprocess = runner.subprocess \ {c} /\ R.phase = "loop"
  BY DEF RunnerInv, RunnerTypeOK, RunnerType, OnFinished, In
<1>2. runner' = R /\ UNCHANGED child /\ c \notin Running
  BY DEF OnFinished, Running
<1> HIDE DEF R
<1> QED  BY <1>1, <1>2, GoesOnAs

(* Steps that leave the processes and the State's list of them.            *)
LEMMA PhaseKeeps ==
    ASSUME RunnerInv,
           \/ Exec /\ UNCHANGED child
           \/ StartUp \/ SigtermKills \/ Fails \/ OnSigterm \/ RegisterSessionCalls
           \/ RegisterSessionReturns \/ LoopEnds \/ SignalSubprocesses
    PROVE  RunnerInv'
<1>0. runner \in RunnerType
  BY DEF RunnerInv, RunnerTypeOK
<1>1. /\ runner' \in RunnerType /\ UNCHANGED child
      /\ runner'.subprocess = runner.subprocess
      /\ runner'.phase \in {"unborn", "starting", "exited"} =>
            runner.phase \in {"unborn", "starting", "exited"}
  <2>1. CASE Exec /\ UNCHANGED child
    BY <1>0, <2>1 DEF Exec, In, RunnerType, Phases
  <2>2. CASE StartUp
    BY <1>0, <2>2 DEF StartUp, In, RunnerType, Phases
  <2>3. CASE SigtermKills
    BY <1>0, <2>3 DEF SigtermKills, In, RunnerType, Phases
  <2>4. CASE Fails
    BY <1>0, <2>4 DEF Fails, In, RunnerType, Phases
  <2>5. CASE OnSigterm
    BY <1>0, <2>5 DEF OnSigterm, In, RunnerType, Phases
  <2>6. CASE RegisterSessionCalls
    BY <1>0, <2>6 DEF RegisterSessionCalls, In, RunnerType, Phases
  <2>7. CASE RegisterSessionReturns
    BY <1>0, <2>7 DEF RegisterSessionReturns, In, RunnerType, Phases
  <2>8. CASE LoopEnds
    BY <1>0, <2>8 DEF LoopEnds, In, RunnerType, Phases
  <2>9. CASE SignalSubprocesses
    BY <1>0, <2>9 DEF SignalSubprocesses, In, RunnerType, Phases
  <2> QED  BY <2>1, <2>2, <2>3, <2>4, <2>5, <2>6, <2>7, <2>8, <2>9
<1>2. runner'.phase \in {"unborn", "starting", "exited"} => runner'.subprocess = {}
  BY <1>1 DEF RunnerInv, Kept
<1> QED  BY <1>1, <1>2, GoesOnAs

LEMMA WaitKeeps == ASSUME RunnerInv, WaitOnSubprocesses PROVE RunnerInv'
<1> DEFINE R == [runner EXCEPT !.phase = "exited", !.subprocess = {}]
<1>1. R \in RunnerType /\ R.subprocess = {}
  BY DEF RunnerInv, RunnerTypeOK, RunnerType, Phases
<1>2. runner' = R /\ UNCHANGED child /\ runner.subprocess \subseteq Children \ Running
  BY DEF WaitOnSubprocesses, Running, RunnerInv, RunnerTypeOK, RunnerType
<1> HIDE DEF R
<1> QED  BY <1>1, <1>2, GoesOnAs

LEMMA ChildEndsKeeps ==
    ASSUME RunnerInv, NEW c \in Children, ChildEnds(c)
    PROVE  RunnerInv'
<1>1. child' = [child EXCEPT ![c] = "ended"] /\ UNCHANGED runner
  BY DEF ChildEnds
<1>2. child' \in [Children -> {"none", "running", "ended"}] /\ Running' \subseteq Running
  BY <1>1 DEF RunnerInv, RunnerTypeOK, Running
<1> QED  BY <1>1, <1>2 DEF RunnerInv, RunnerTypeOK, Kept

LEMMA RunnerKeeps == ASSUME RunnerInv, RunnerStep PROVE RunnerInv'
<1>0. {"x", "bus", "session"} = Children
  BY DEF Children
<1>1. CASE SpawnX \/ SpawnBus \/ SpawnSession
  BY <1>0, <1>1, SpawnsKeeps DEF SpawnX, SpawnBus, SpawnSession
<1>2. CASE UseBus \/ UpdateBusEnvironment \/ ConnectToDisplayManager
  BY <1>2, ProceedsKeeps DEF UseBus, UpdateBusEnvironment, ConnectToDisplayManager
<1>3. CASE OnXServerFinished \/ OnBusFinished \/ OnSessionFinished
  BY <1>0, <1>3, FinishedKeeps DEF OnXServerFinished, OnBusFinished, OnSessionFinished
<1>4. CASE \/ StartUp \/ SigtermKills \/ Fails \/ OnSigterm \/ RegisterSessionCalls
           \/ LoopEnds \/ SignalSubprocesses
  BY <1>4, PhaseKeeps
<1> QED  BY <1>1, <1>2, <1>3, <1>4, BusUnusableKeeps, WaitKeeps DEF RunnerStep

LEMMA StepKeeps == RunnerInv /\ [LENext]_vars => RunnerInv'
<1> SUFFICES ASSUME RunnerInv, [LENext]_vars PROVE RunnerInv'
  OBVIOUS
<1>1. ASSUME UNCHANGED <<runner, child>> PROVE RunnerInv'
  BY <1>1 DEF RunnerInv, RunnerTypeOK, Kept, Running
<1>2. CASE WorkerStarts
  <2>1. UNCHANGED child /\ (Exec \/ UNCHANGED runner)
    BY <1>2 DEF WorkerStarts
  <2> QED  BY <1>1, <2>1, PhaseKeeps
<1>3. CASE Start \/ Stop \/ WaitOnAndDisownPid \/ Dispatch
  <2>1. UNCHANGED <<runner, child>>
    BY <1>3 DEF Start, Stop, WaitOnAndDisownPid, Dispatch, OnConversationStarted, OnSessionOpened,
                OnSessionStarted, OnFailed, OnSessionExited, OnConversationStopped, runnerVars
  <2> QED  BY <1>1, <2>1
<1>4. CASE \/ WorkerHello \/ WorkerOpens \/ WorkerChildWatch \/ WorkerOnSigterm
           \/ WorkerFinalized \/ WorkerCrashes
  <2>1. UNCHANGED <<runner, child>>
    BY <1>4 DEF WorkerHello, WorkerOpens, WorkerChildWatch, WorkerOnSigterm, WorkerFinalized,
                WorkerCrashes, runnerVars
  <2> QED  BY <1>1, <2>1
<1>5. CASE RunnerCalls
  BY <1>5, ProceedsKeeps, PhaseKeeps DEF RunnerCalls, RegisterDisplay
<1>6. CASE Runs
  BY <1>6, RunnerKeeps DEF Runs
<1>7. ASSUME NEW c \in Children, ProcessEnds(c) PROVE RunnerInv'
  BY <1>7, ChildEndsKeeps DEF ProcessEnds
<1>8. CASE Done \/ UNCHANGED vars
  BY <1>1, <1>8 DEF Done, vars, runnerVars
<1> QED  BY <1>2, <1>3, <1>4, <1>5, <1>6, <1>7, <1>8 DEF LENext, WorkerStep

(* Whatever happened before, a runner that has exited has left no process  *)
(* of its own running.                                                     *)
THEOREM RunnerLeavesNothing == LESpec => []NothingLeft
<1>1. LEInit => RunnerInv
  BY DEF LEInit, RunnerInit, RunnerInv, RunnerTypeOK, RunnerType, Phases, Kept, Running, Children
<1>2. RunnerInv => NothingLeft
  BY DEF RunnerInv, Kept, NothingLeft, In
<1> QED  BY <1>1, <1>2, StepKeeps, PTL DEF LESpec
================================================================================
