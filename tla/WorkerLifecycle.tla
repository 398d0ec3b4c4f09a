--------------------------- MODULE WorkerLifecycle ---------------------------
(***************************************************************************)
(* What a session worker promises whoever uses it, without requests,       *)
(* queues, queries or connections: it climbs the stages of                 *)
(* ScdmSessionWorkerState one at a time, each adding what PAM holds, runs  *)
(* a session process only at the top, and gives everything back when a     *)
(* stage fails, when the session ends and when it is terminated after      *)
(* having started a session.  SessionWorker implements this.               *)
(***************************************************************************)
EXTENDS Naturals, TLAPS

CONSTANT Workers

VARIABLES
    proc,       \* "unborn", "running", "exited" or "died"
    state,      \* the stage
    pam,        \* what PAM holds
    child,      \* the session process: "none", "running" or "zombie"
    graceful    \* termination is handled, not immediate

lifecycle == <<proc, state, pam, child, graceful>>

Bottom == 0     \* GDM_SESSION_WORKER_STATE_NONE
Opened == 6     \* GDM_SESSION_WORKER_STATE_SESSION_OPENED
Top    == 7     \* GDM_SESSION_WORKER_STATE_SESSION_STARTED

Items == {"handle", "authenticated", "authorized", "cred", "session"}

(* What PAM holds in a stage: a handle from SETUP_COMPLETE on, verified    *)
(* user and account from AUTHENTICATED and AUTHORIZED on, credentials from *)
(* ACCREDITED and a session from SESSION_OPENED on.                        *)
Holdings(s) ==
    (IF s >= 1 THEN {"handle"} ELSE {})
        \cup (IF s >= 2 THEN {"authenticated"} ELSE {})
        \cup (IF s >= 3 THEN {"authorized"} ELSE {})
        \cup (IF s >= 4 THEN {"cred"} ELSE {})
        \cup (IF s >= Opened THEN {"session"} ELSE {})

Enter(w, s) ==
    /\ state' = [state EXCEPT ![w] = s]
    /\ pam'   = [pam EXCEPT ![w] = Holdings(s)]

Init ==
    /\ proc     = [w \in Workers |-> "unborn"]
    /\ state    = [w \in Workers |-> Bottom]
    /\ pam      = [w \in Workers |-> {}]
    /\ child    = [w \in Workers |-> "none"]
    /\ graceful = [w \in Workers |-> FALSE]

Spawn(w) ==
    /\ proc[w] = "unborn"
    /\ proc' = [proc EXCEPT ![w] = "running"]
    /\ UNCHANGED <<state, pam, child, graceful>>

(* A stage succeeds.                                                       *)
Advance(w) ==
    /\ proc[w] = "running" /\ state[w] < Opened
    /\ Enter(w, state[w] + 1)
    /\ UNCHANGED <<proc, child, graceful>>

(* A stage fails: everything is given back.                                *)
Fail(w) ==
    /\ proc[w] = "running" /\ state[w] < Top
    /\ Enter(w, Bottom)
    /\ UNCHANGED <<proc, child, graceful>>

(* The last stage starts the session process.                              *)
Launch(w) ==
    /\ proc[w] = "running" /\ state[w] = Opened
    /\ Enter(w, Top)
    /\ child'    = [child EXCEPT ![w] = "running"]
    /\ graceful' = [graceful EXCEPT ![w] = TRUE]
    /\ UNCHANGED proc

(* The session process ends, and the worker takes note.                    *)
SessionEnds(w) ==
    /\ child[w] = "running"
    /\ child' = [child EXCEPT ![w] = "zombie"]
    /\ UNCHANGED <<proc, state, pam, graceful>>

SessionReaped(w) ==
    /\ proc[w] = "running" /\ child[w] = "zombie"
    /\ child' = [child EXCEPT ![w] = "none"]
    /\ Enter(w, Bottom)
    /\ UNCHANGED <<proc, graceful>>

(* Termination: orderly after a session was started, on the spot before;   *)
(* and a process may always die.                                           *)
Terminate(w) ==
    /\ proc[w] = "running" /\ graceful[w]
    /\ proc'  = [proc EXCEPT ![w] = "exited"]
    /\ child' = [child EXCEPT ![w] = "none"]
    /\ Enter(w, Bottom)
    /\ UNCHANGED graceful

Die(w) ==
    /\ proc[w] = "running"
    /\ \/ ~graceful[w] /\ proc' = [proc EXCEPT ![w] = "exited"]
       \/ proc' = [proc EXCEPT ![w] = "died"]
    /\ UNCHANGED <<state, pam, child, graceful>>

Step(w) ==
    \/ Spawn(w) \/ Advance(w) \/ Fail(w) \/ Launch(w) \/ SessionEnds(w) \/ SessionReaped(w)
    \/ Terminate(w) \/ Die(w)

Next == \E w \in Workers : Step(w)

Spec == Init /\ [][Next]_lifecycle
-----------------------------------------------------------------------------
LifecycleType ==
    /\ proc     \in [Workers -> {"unborn", "running", "exited", "died"}]
    /\ state    \in [Workers -> Bottom..Top]
    /\ pam      \in [Workers -> SUBSET Items]
    /\ child    \in [Workers -> {"none", "running", "zombie"}]
    /\ graceful \in [Workers -> BOOLEAN]

(* What is true of every worker at all times: PAM holds what the stage     *)
(* says, a running worker has a session process exactly in the last stage, *)
(* one that was terminated after starting a session left nothing behind,   *)
(* and one that is not born yet has nothing.                               *)
Kept(w) ==
    /\ pam[w] = Holdings(state[w])
    /\ proc[w] = "running" => (child[w] # "none" <=> state[w] = Top)
    /\ proc[w] = "exited" /\ graceful[w] => pam[w] = {} /\ child[w] = "none"
    /\ proc[w] = "unborn" => state[w] = Bottom /\ child[w] = "none" /\ ~graceful[w]

LifecycleInv == LifecycleType /\ \A w \in Workers : Kept(w)

(* The holdings of the lowest and of the highest stage.                    *)
LEMMA HoldingsEnds ==
    /\ \A s : Holdings(s) \in SUBSET Items
    /\ Holdings(Bottom) = {}
    /\ Holdings(Top) = Items
BY DEF Holdings, Items, Bottom, Opened, Top

(* Entering a stage keeps the types.                                       *)
LEMMA EnterType ==
    ASSUME LifecycleType, NEW w \in Workers, NEW s \in Bottom..Top, Enter(w, s)
    PROVE  state' \in [Workers -> Bottom..Top] /\ pam' \in [Workers -> SUBSET Items]
BY HoldingsEnds DEF LifecycleType, Enter

(* No step of any worker disturbs the invariant of any worker.             *)
LEMMA StepKeeps ==
    LifecycleInv /\ [Next]_lifecycle => LifecycleInv'
<1> SUFFICES ASSUME LifecycleInv, [Next]_lifecycle PROVE LifecycleInv'
  OBVIOUS
<1>1. ASSUME NEW w \in Workers, Step(w) PROVE LifecycleInv'
  <2>0. Bottom \in Bottom..Top /\ Top \in Bottom..Top /\ \A s \in Bottom..Top : s < Opened => s + 1 \in Bottom..Top
    BY DEF Bottom, Top, Opened
  <2>1. LifecycleType'
    <3>1. CASE Spawn(w)
      BY <3>1 DEF Spawn, LifecycleInv, LifecycleType
    <3>2. CASE Advance(w)
      BY <2>0, <3>2, EnterType DEF Advance, LifecycleInv, LifecycleType
    <3>3. CASE Fail(w)
      BY <2>0, <3>3, EnterType DEF Fail, LifecycleInv, LifecycleType
    <3>4. CASE Launch(w)
      BY <2>0, <3>4, EnterType DEF Launch, LifecycleInv, LifecycleType
    <3>5. CASE SessionEnds(w)
      BY <3>5 DEF SessionEnds, LifecycleInv, LifecycleType
    <3>6. CASE SessionReaped(w)
      BY <2>0, <3>6, EnterType DEF SessionReaped, LifecycleInv, LifecycleType
    <3>7. CASE Terminate(w)
      BY <2>0, <3>7, EnterType DEF Terminate, LifecycleInv, LifecycleType
    <3>8. CASE Die(w)
      BY <3>8 DEF Die, LifecycleInv, LifecycleType
    <3> QED BY <1>1, <3>1, <3>2, <3>3, <3>4, <3>5, <3>6, <3>7, <3>8 DEF Step
  <2>2. ASSUME NEW v \in Workers, v # w PROVE Kept(v)'
    <3>1. /\ proc'[v] = proc[v] /\ state'[v] = state[v] /\ pam'[v] = pam[v]
          /\ child'[v] = child[v] /\ graceful'[v] = graceful[v]
      BY <1>1, <2>2 DEF Step, Spawn, Advance, Fail, Launch, SessionEnds, SessionReaped,
                        Terminate, Die, Enter, LifecycleInv, LifecycleType
    <3> QED BY <3>1 DEF Kept, LifecycleInv
  <2>3. Kept(w)'
    <3>0. Kept(w)
      BY DEF LifecycleInv
    <3> USE DEF Kept, LifecycleInv, LifecycleType, Bottom, Opened, Top
    <3>1. CASE Spawn(w)
      BY <3>0, <3>1 DEF Spawn
    <3>2. CASE Advance(w)
      BY <3>0, <3>2 DEF Advance, Enter
    <3>3. CASE Fail(w)
      BY <3>0, <3>3 DEF Fail, Enter
    <3>4. CASE Launch(w)
      BY <3>0, <3>4 DEF Launch, Enter
    <3>5. CASE SessionEnds(w)
      BY <3>0, <3>5 DEF SessionEnds
    <3>6. CASE SessionReaped(w)
      BY <3>0, <3>6 DEF SessionReaped, Enter
    <3>7. CASE Terminate(w)
      BY <3>0, <3>7, HoldingsEnds DEF Terminate, Enter
    <3>8. CASE Die(w)
      BY <3>0, <3>8 DEF Die
    <3> QED BY <1>1, <3>1, <3>2, <3>3, <3>4, <3>5, <3>6, <3>7, <3>8 DEF Step
  <2> QED BY <2>1, <2>2, <2>3 DEF LifecycleInv
<1>2. CASE UNCHANGED lifecycle
  BY <1>2 DEF lifecycle, LifecycleInv, LifecycleType, Kept
<1> QED BY <1>1, <1>2 DEF Next

(* The invariant holds initially.                                          *)
LEMMA InitKeeps == Init => LifecycleInv
BY HoldingsEnds DEF Init, LifecycleInv, LifecycleType, Kept, Bottom, Top
=============================================================================
