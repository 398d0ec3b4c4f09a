--------------------------- MODULE MCSessionWorker ---------------------------
(* One worker process with an arbitrary peer: any of Workers, of which     *)
(* some are spawned for a reauthentication.                                *)
EXTENDS SessionWorker

OneNext ==
    \E w \in Workers :
        /\ \A v \in Workers \ {w} : proc[v] = "unborn"
        /\ Start(w) \/ WorkerStep(w) \/ PeerStep(w)

OneSpec == WorkerInit /\ [][OneNext]_workerVars
=============================================================================
