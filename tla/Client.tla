-------------------------------- MODULE Client --------------------------------
(***************************************************************************)
(* The client library (libscdm/scdm-client.c): how a process gets a proxy  *)
(* of an interface of the daemon over a private connection.  A request is  *)
(* a task; it is asynchronous, so that the tasks of a process interleave,  *)
(* or synchronous, so that it holds up the others.  The ScdmClient object  *)
(* is shared by the whole process and keeps one proxy per interface.       *)
(*                                                                         *)
(* The part of the daemon that is asked is in Channels, which composes     *)
(* the two.                                                                *)
(***************************************************************************)
EXTENDS Naturals, FiniteSets, FiniteSetsExt, Sequences

CONSTANTS
    Procs,         \* client processes
    LoginScreens,  \* those that run as a login screen
    MaxTasks,      \* bound: requests, of all processes together
    None

ASSUME ClientAssumption ==
    /\ LoginScreens \subseteq Procs /\ MaxTasks \in Nat \ {0}
    /\ None \notin Procs \X (1..MaxTasks)

(* A connection is named after the task that opened it, and so is the      *)
(* reauthentication channel that was opened for a task.                    *)
Tasks == Procs \X (1..MaxTasks)

VARIABLES
    task,      \* [Tasks -> what the request is for and how far it is]
    client,    \* [Procs -> the ScdmClient object and the caller's proxies]
    conn       \* [Tasks -> "none", "open" or "closing", and whose server]

clientVars == <<task, client, conn>>

(* The interfaces a login screen asks for, in the order of                 *)
(* scdm_client_get_open_connection.                                        *)
Proxies    == <<"user_verifier", "greeter", "remote_greeter", "chooser">>
Interfaces == {Proxies[i] : i \in DOMAIN Proxies}

ClientInit ==
    /\ task = [q \in Tasks |-> [kind |-> "none", sync |-> FALSE, at |-> "unused",
                                address |-> None, conn |-> None]]
    /\ \E e \in [Procs -> BOOLEAN] :
         client = [p \in Procs |-> [user_verifier |-> None, greeter |-> None,
                                    remote_greeter |-> None, chooser |-> None,
                                    extensions |-> e[p], choice |-> None, reauth |-> {}]]
    /\ conn = [q \in Tasks |-> [at |-> "none", to |-> None]]

Owner(q)    == q[1]
InFlight(q) == task[q].at \notin {"unused", "done", "failed", "timeout"}

(* The main loop of the process is free to run q.                          *)
MayRun(q) == \A r \in Tasks : Owner(r) = Owner(q) /\ InFlight(r) /\ task[r].sync => r = q

(* The next request, the i-th of all, is task <<p, i>>.                    *)
Fresh(q) == q[2] = 1 + Cardinality({r \in Tasks : task[r].at # "unused"}) /\ MayRun(q)

(* A connection lives while a proxy, or a task on its way to one, holds it. *)
HeldBy(p, T, C) ==
    {C[k] : k \in Interfaces} \cup {C.choice} \cup C.reauth
      \cup {T[r].conn : r \in {r \in Tasks :
               Owner(r) = p /\ T[r].at \in {"proxy", "extensions", "choice", "incomplete", "finish"}}}

(* The step of process p that makes its tasks T and its object C.          *)
Becomes(p, T, C) ==
    /\ task' = T /\ client' = [client EXCEPT ![p] = C]
    /\ conn' = [q \in Tasks |->
                  IF Owner(q) = p /\ conn[q].at = "open" /\ q \notin HeldBy(p, T, C)
                  THEN [conn[q] EXCEPT !.at = "closing"] ELSE conn[q]]

-----------------------------------------------------------------------------
(* Mutant: the connection of the greeter proxy is not reused.              *)
OpenConnectionOfVerifier(C) == C.user_verifier

(* scdm_client_get_open_connection                                         *)
OpenConnection(C) ==
    LET there == {i \in DOMAIN Proxies : C[Proxies[i]] # None}
    IN IF there = {} THEN None ELSE C[Proxies[Min(there)]]

(* scdm_client_get_user_verifier and the other three, with                 *)
(* scdm_client_get_connection: the proxy that is there, a new proxy on the *)
(* open connection, or a new connection.                                   *)
Get(q, k, sync) ==
    /\ Owner(q) \in LoginScreens /\ Fresh(q)
    /\ LET C == client[Owner(q)]
           T == [kind |-> k, sync |-> sync, address |-> None,
                 conn |-> IF C[k] # None THEN None ELSE OpenConnection(C),
                 at   |-> IF C[k] # None THEN "finish"
                          ELSE IF OpenConnection(C) # None THEN "proxy" ELSE "asking"]
       IN task' = [task EXCEPT ![q] = T]
    /\ UNCHANGED <<client, conn>>

(* scdm_client_open_reauthentication_channel                               *)
OpenReauthenticationChannel(q, sync) ==
    /\ Fresh(q)
    /\ task' = [task EXCEPT ![q] = [@ EXCEPT !.kind = "reauth", !.sync = sync, !.at = "asking"]]
    /\ UNCHANGED <<client, conn>>

Advance(q, at) == Becomes(Owner(q), [task EXCEPT ![q].at = at], client[Owner(q)])

Verifies(q) == task[q].kind \in {"user_verifier", "reauth"}

(* A proxy of another interface; the one of a verifier without extensions. *)
(* Opening a channel synchronously enables none.                           *)
OnProxyCreated(q) ==
    /\ task[q].at = "proxy" /\ MayRun(q)
    /\ \/ Advance(q, "failed")
       \/ /\ ~Verifies(q) \/ ~client[Owner(q)].extensions \/ (task[q].kind = "reauth" /\ task[q].sync)
          /\ Advance(q, "finish")

(* on_user_verifier_proxy_created: a new table for the extensions replaces *)
(* the one that is there.                                                  *)
OnUserVerifierProxyCreated(q) ==
    /\ task[q].at = "proxy" /\ MayRun(q)
    /\ Verifies(q) /\ client[Owner(q)].extensions /\ ~(task[q].kind = "reauth" /\ task[q].sync)
    /\ Becomes(Owner(q), [task EXCEPT ![q].at = "extensions"],
               [client[Owner(q)] EXCEPT !.choice = None])

(* on_user_verifier_extensions_enabled: the entry of the choice list is    *)
(* NULL until its proxy is there.  A failed call enables none.             *)
OnUserVerifierExtensionsEnabled(q) ==
    /\ task[q].at = "extensions" /\ MayRun(q)
    /\ \/ Advance(q, "finish")
       \/ Becomes(Owner(q), [task EXCEPT ![q].at = "choice"],
                  [client[Owner(q)] EXCEPT !.choice = IF task[q].sync THEN None ELSE <<>>])

(* Mutant: the entry of a proxy that could not be made stays.              *)
OnChoiceListCreatedLeaves(q) ==
    /\ task[q].at = "choice" /\ MayRun(q)
    /\ \E c \in {task[q].conn, client[Owner(q)].choice} :
         Becomes(Owner(q), [task EXCEPT ![q].at = IF c = <<>> THEN "incomplete" ELSE "finish"],
                 [client[Owner(q)] EXCEPT !.choice = c])

(* on_user_verifier_choice_list_proxy_created, and                         *)
(* maybe_complete_user_verifier_proxy_operation: no entry is NULL.         *)
OnChoiceListCreated(q) ==
    /\ task[q].at = "choice" /\ MayRun(q)
    /\ \E c \in {task[q].conn, None} :
         Becomes(Owner(q), [task EXCEPT ![q].at = IF c = <<>> THEN "incomplete" ELSE "finish"],
                 [client[Owner(q)] EXCEPT !.choice = c])

(* scdm_client_get_user_verifier_finish and the others: the proxy that the *)
(* object keeps goes before the one just made, which is dropped.           *)
Finish(q) ==
    /\ task[q].at = "finish" /\ MayRun(q)
    /\ LET C == client[Owner(q)]
           k == task[q].kind
       IN Becomes(Owner(q), [task EXCEPT ![q].at = "done"],
            IF k = "reauth" THEN [C EXCEPT !.reauth = @ \cup {task[q].conn}]
            ELSE IF C[k] # None THEN C ELSE [C EXCEPT ![k] = task[q].conn])

(* The caller unrefs a proxy; the weak pointer of the object follows.      *)
Unref(p) ==
    /\ \A q \in Tasks : Owner(q) = p /\ InFlight(q) => ~task[q].sync
    /\ \/ \E k \in Interfaces :
            /\ client[p][k] # None
            /\ Becomes(p, task, [client[p] EXCEPT ![k] = None])
       \/ \E c \in client[p].reauth :
            Becomes(p, task, [client[p] EXCEPT !.reauth = @ \ {c}])

GetUserVerifier(q, sync)  == Get(q, "user_verifier", sync)
GetGreeter(q, sync)       == Get(q, "greeter", sync)
GetRemoteGreeter(q, sync) == Get(q, "remote_greeter", sync)
GetChooser(q, sync)       == Get(q, "chooser", sync)

(* A request is made / makes progress by itself.                           *)
Requests ==
    \E q \in Tasks, sync \in BOOLEAN :
      \/ GetUserVerifier(q, sync) \/ GetGreeter(q, sync)
      \/ GetRemoteGreeter(q, sync) \/ GetChooser(q, sync)
      \/ OpenReauthenticationChannel(q, sync)

Callbacks(q) ==
    \/ OnProxyCreated(q) \/ OnUserVerifierProxyCreated(q)
    \/ OnUserVerifierExtensionsEnabled(q) \/ OnChoiceListCreated(q) \/ Finish(q)
================================================================================
