------------------------------- MODULE Channels -------------------------------
(***************************************************************************)
(* Private channels between processes and the daemon: the login session's  *)
(* server for login screens, and reauthentication channels.  Composes the  *)
(* client library (Client) with the manager (daemon/scdm-manager.c), the   *)
(* outside server of a session (daemon/scdm-session.c), and, for processes *)
(* of a user session that the daemon runs, the worker of that session      *)
(* (daemon/scdm-session-worker.c), which serves the channel itself.        *)
(***************************************************************************)
EXTENDS Client

CONSTANTS
    Unmanaged,     \* processes of sessions the daemon does not run
    Login          \* the address of the login session's server

ASSUME ChannelsAssumption ==
    /\ Unmanaged \subseteq Procs /\ Unmanaged \cap LoginScreens = {}
    /\ Login \notin Tasks \cup {None}

VARIABLES
    exported,    \* connection on which the login session emits its signals
    requests,    \* open_reauthentication_requests: pid -> invocation
    transients,  \* transient_sessions: pid -> channel served by the daemon
    slot,        \* reauth_pid_of_caller of the session's conversation
    starts,      \* StartReauthentication calls on their way to the worker
    replies,     \* and its replies
    reauths,     \* the worker's reauthentication_requests: pid -> channel
    conversing,  \* channels with a PAM conversation (which holds a reference)
    running      \* is the user session running?

daemonVars == <<exported, requests, transients, slot, starts, replies, reauths, conversing, running>>
vars == <<clientVars, daemonVars>>

ChannelsInit ==
    /\ ClientInit
    /\ exported = None /\ slot = None /\ starts = <<>> /\ replies = <<>>
    /\ requests = [p \in Procs |-> None]
    /\ transients = [p \in Procs |-> None] /\ reauths = [p \in Procs |-> None]
    /\ conversing = {} /\ running = TRUE

(* Login screens run as the greeter's user, the others as the user.        *)
SameUser(p, r) == (p \in LoginScreens) = (r \in LoginScreens)

(* The session object of a channel lives while a table or a conversation   *)
(* refers to it, and its server and connections with it.                   *)
Served(q) == \E p \in Procs : q \in {transients[p], reauths[p]}
Live(q)   == Served(q) \/ q \in conversing

IsOpen(c) == conn[c].at = "open" /\ (conn[c].to = Login \/ Live(conn[c].to))

-----------------------------------------------------------------------------
(* The manager *)

Asks(q) == task[q].at = "asking"

Answer(q, address) ==
    task' = [task EXCEPT ![q].at = IF address = None THEN "failed" ELSE "address", ![q].address = address]

(* scdm_manager_handle_open_session                                        *)
HandleOpenSession(q) ==
    /\ Asks(q) /\ task[q].kind \in Interfaces
    /\ \E address \in {Login, None} : Answer(q, address)
    /\ UNCHANGED <<client, conn, daemonVars>>

(* scdm_manager_handle_open_reauthentication_channel, for a process whose  *)
(* session the daemon runs, or for which a login screen asks: the worker   *)
(* of the session is to open the channel.                                  *)
Mine(q) == Owner(q) \notin Unmanaged /\ running

(* Mutant: scdm_session_start_reauthentication does not note the caller.   *)
StartReauthenticationUnnoted(q) ==
    /\ Asks(q) /\ task[q].kind = "reauth" /\ Mine(q)
    /\ starts' = Append(starts, q)
    /\ requests' = [requests EXCEPT ![Owner(q)] = q]
    /\ task' = [task EXCEPT ![q].at = "asked"]
    /\ UNCHANGED <<client, conn, exported, slot, transients, replies, reauths, conversing, running>>

StartReauthentication(q) ==
    /\ Asks(q) /\ task[q].kind = "reauth" /\ Mine(q)
    /\ slot' = Owner(q) /\ starts' = Append(starts, q)
    /\ requests' = [requests EXCEPT ![Owner(q)] = q]
    /\ task' = [task EXCEPT ![q].at = "asked"]
    /\ UNCHANGED <<client, conn, exported, transients, replies, reauths, conversing, running>>

(* ... for a login screen, without a running session                       *)
DenyReauthentication(q) ==
    /\ Asks(q) /\ task[q].kind = "reauth" /\ ~Mine(q) /\ Owner(q) \in LoginScreens
    /\ Answer(q, None)
    /\ UNCHANGED <<client, conn, daemonVars>>

(* open_temporary_reauthentication_channel: the table's reference to the   *)
(* session that the same process opened before is dropped.                 *)
OpenTemporaryReauthenticationChannel(q) ==
    /\ Asks(q) /\ task[q].kind = "reauth" /\ ~Mine(q) /\ Owner(q) \notin LoginScreens
    /\ transients' = [transients EXCEPT ![Owner(q)] = q]
    /\ Answer(q, q)
    /\ UNCHANGED <<client, conn, exported, requests, slot, starts, replies, reauths, conversing, running>>

(* scdm_session_worker_handle_start_reauthentication: the request that the *)
(* same process made before is freed.                                      *)
HandleStartReauthentication ==
    /\ running /\ starts # <<>>
    /\ LET q == Head(starts) IN
         /\ reauths' = [reauths EXCEPT ![Owner(q)] = q]
         /\ replies' = Append(replies, q)
    /\ starts' = Tail(starts)
    /\ UNCHANGED <<clientVars, exported, requests, transients, slot, conversing, running>>

(* Mutant: an answered request stays in the table.                         *)
OnReauthenticationStartedKeeps ==
    /\ running /\ replies # <<>>
    /\ IF slot # None /\ requests[slot] # None
       THEN Answer(requests[slot], Head(replies))
       ELSE UNCHANGED task
    /\ replies' = Tail(replies) /\ slot' = None
    /\ UNCHANGED <<client, conn, exported, requests, transients, starts, reauths, conversing, running>>

(* on_reauthentication_started_cb and on_session_reauthentication_started: *)
(* whoever asked last is answered.                                         *)
OnReauthenticationStarted ==
    /\ running /\ replies # <<>>
    /\ IF slot # None /\ requests[slot] # None
       THEN /\ Answer(requests[slot], Head(replies))
            /\ requests' = [requests EXCEPT ![slot] = None]
       ELSE UNCHANGED <<task, requests>>
    /\ replies' = Tail(replies) /\ slot' = None
    /\ UNCHANGED <<client, conn, exported, transients, starts, reauths, conversing, running>>

(* The caller gives up.  The time is long: nothing is on its way that may  *)
(* become the answer.                                                      *)
CallTimesOut(q) ==
    /\ task[q].at = "asked" /\ starts = <<>> /\ replies = <<>>
    /\ task' = [task EXCEPT ![q].at = "timeout"]
    /\ UNCHANGED <<client, conn, daemonVars>>

-----------------------------------------------------------------------------
(* The outside server of a session *)

(* Mutant: everybody may connect.                                          *)
AllowAny(q) == TRUE

(* allow_user_function: only the user for whom the channel was opened      *)
AllowUser(q) == \/ task[q].address = Login
                \/ SameUser(Owner(q), Owner(task[q].address))

(* on_connected and handle_connection_from_outside: the interfaces are     *)
(* exported on the new connection, which takes the place of the last one.  *)
Connect(q) ==
    /\ task[q].at = "address" /\ MayRun(q)
    /\ LET a == task[q].address IN
       IF (a = Login \/ Live(a)) /\ AllowUser(q)
       THEN /\ task' = [task EXCEPT ![q].at = "proxy", ![q].conn = q]
            /\ conn' = [conn EXCEPT ![q] = [at |-> "open", to |-> a]]
            /\ exported' = IF a = Login THEN q ELSE exported
       ELSE /\ task' = [task EXCEPT ![q].at = "failed"] /\ UNCHANGED <<conn, exported>>
    /\ UNCHANGED <<client, requests, transients, slot, starts, replies, reauths, conversing, running>>

(* Mutant: the session is dropped and not closed.                          *)
CloseTransientSessionDrops(q) ==
    /\ transients' = [transients EXCEPT ![Owner(q)] = None]
    /\ UNCHANGED conversing

(* close_transient_session: the session is closed, and whatever the table  *)
(* has for the pid is removed.                                             *)
CloseTransientSession(q) ==
    /\ conversing' = conversing \ {q}
    /\ transients' = [transients EXCEPT ![Owner(q)] = None]

(* A live channel is the manager's, or that of the running session's worker. *)
Hosted(q) == Owner(q) \in Unmanaged \/ ~running

(* on_outside_connection_closed, with the handler of client-disconnected:  *)
(* the manager's closes the session, the worker's drops the request of the *)
(* client's pid.                                                           *)
OnOutsideConnectionClosed(c) ==
    /\ conn[c].at = "closing"
    /\ conn' = [conn EXCEPT ![c].at = "none"]
    /\ LET a == conn[c].to IN
       \/ (a = Login \/ ~Live(a)) /\ UNCHANGED <<transients, conversing, reauths>>
       \/ a # Login /\ Live(a) /\ Hosted(a) /\ CloseTransientSession(a) /\ UNCHANGED reauths
       \/ /\ a # Login /\ Live(a) /\ ~Hosted(a)
          /\ reauths' = IF Served(a) THEN [reauths EXCEPT ![Owner(c)] = None] ELSE reauths
          /\ UNCHANGED <<transients, conversing>>
    /\ UNCHANGED <<task, client, exported, requests, slot, starts, replies, running>>

-----------------------------------------------------------------------------
(* Reauthentication *)

(* BeginVerificationForUser on a channel starts a conversation.            *)
BeginVerification(c) ==
    /\ IsOpen(c) /\ conn[c].to # Login /\ c \in client[Owner(c)].reauth
    /\ conversing' = conversing \cup {conn[c].to}
    /\ UNCHANGED <<clientVars, exported, requests, transients, slot, starts, replies, reauths, running>>

(* The user is verified or cancels.  The manager closes the session; the   *)
(* worker resets it, if it has the request still.                          *)
EndsVerification(q) ==
    /\ q \in conversing /\ (Hosted(q) \/ Served(q))
    /\ IF Hosted(q) THEN CloseTransientSession(q)
       ELSE conversing' = conversing \ {q} /\ UNCHANGED transients
    /\ UNCHANGED <<clientVars, exported, requests, slot, starts, replies, reauths, running>>

(* The conversation ends by itself: its worker exits.                      *)
ConversationStops(q) ==
    /\ q \in conversing
    /\ conversing' = conversing \ {q}
    /\ UNCHANGED <<clientVars, exported, requests, transients, slot, starts, replies, reauths, running>>

(* The user session ends, and its worker with the channels it serves.      *)
SessionEnds ==
    /\ running /\ running' = FALSE
    /\ reauths' = [p \in Procs |-> None] /\ starts' = <<>> /\ replies' = <<>> /\ slot' = None
    /\ conversing' = {q \in conversing : Owner(q) \in Unmanaged}
    /\ UNCHANGED <<clientVars, exported, requests, transients>>

ClientStep == (Requests \/ (\E q \in Tasks : Callbacks(q)) \/ (\E p \in Procs : Unref(p))) /\ UNCHANGED daemonVars

DaemonStep(q) ==
    \/ HandleOpenSession(q) \/ StartReauthentication(q) \/ DenyReauthentication(q)
    \/ OpenTemporaryReauthenticationChannel(q) \/ CallTimesOut(q) \/ Connect(q) \/ OnOutsideConnectionClosed(q)

ChannelsNext ==
    \/ ClientStep
    \/ \E q \in Tasks : DaemonStep(q) \/ BeginVerification(q) \/ EndsVerification(q) \/ ConversationStops(q)
    \/ HandleStartReauthentication \/ OnReauthenticationStarted \/ SessionEnds

ChannelsSpec == ChannelsInit /\ [][ChannelsNext]_vars

(* Every process runs its main loop.  Nobody has to make a request, to drop *)
(* a proxy or to answer a question of PAM.                                 *)
FairChannelsSpec ==
    /\ ChannelsSpec
    /\ \A q \in Tasks : /\ WF_vars(Callbacks(q) /\ UNCHANGED daemonVars)
                         /\ WF_vars(DaemonStep(q))
    /\ WF_vars(HandleStartReauthentication) /\ WF_vars(OnReauthenticationStarted)

-----------------------------------------------------------------------------
(* The types; a task that has a connection has it in its own process, and  *)
(* the requests and channels that are kept are of processes that asked.    *)
TypeOK ==
    /\ \A q \in Tasks :
         /\ task[q].kind \in Interfaces \cup {"reauth", "none"} /\ task[q].sync \in BOOLEAN
         /\ task[q].at \in {"unused", "asking", "asked", "timeout", "address", "proxy", "extensions", "choice",
                            "incomplete", "finish", "done", "failed"}
         /\ task[q].address \in Tasks \cup {Login, None}
         /\ task[q].conn # None => Owner(task[q].conn) = Owner(q)
         /\ conn[q].at \in {"none", "open", "closing"} /\ conn[q].to \in Tasks \cup {Login, None}
    /\ exported \in Tasks \cup {None} /\ slot \in Procs \cup {None}
    /\ \A p \in Procs :
         /\ requests[p] # None => Owner(requests[p]) = p /\ task[requests[p]].at \in {"asked", "timeout"}
         /\ \A t \in {transients, reauths} : t[p] # None => Owner(t[p]) = p /\ task[t[p]].kind = "reauth"
    /\ \A s \in {starts, replies} : \A i \in DOMAIN s : s[i] \in Tasks
    /\ conversing \subseteq Tasks /\ running \in BOOLEAN

(* A reauthentication channel is only ever used by a process of the user   *)
(* it was opened for.  (Requests of two processes that overlap get their   *)
(* addresses mixed up; the server's check of the peer makes up for that.)  *)
OwnChannelOnly ==
    \A c \in Tasks :
      conn[c].at # "none" /\ conn[c].to # Login => SameUser(Owner(c), Owner(conn[c].to))

(* A request for a reauthentication channel of the running session is      *)
(* answered in time, as long as it is the only one.                        *)
Sole == running /\ Cardinality({q \in Tasks : task[q].at = "asked"}) <= 1
RequestsAnswered == []Sole => [](\A q \in Tasks : task[q].at # "timeout")

(* A client that asked for an interface is called back, whatever else its  *)
(* process asks for meanwhile and whichever step fails.                    *)
GetsComplete ==
    \A q \in Tasks : (InFlight(q) /\ task[q].kind \in Interfaces) ~> ~InFlight(q)

(* A login screen that makes one request at a time has all its proxies on  *)
(* the connection on which the login session emits its signals.            *)
OneAtATime == \A p \in Procs : Cardinality({q \in Tasks : Owner(q) = p /\ InFlight(q)}) <= 1
ProxiesHearSignals ==
    []OneAtATime => [](\A p \in LoginScreens, k \in Interfaces : client[p][k] \in {None, exported})

(* The channel that the manager serves to a process is closed, with its    *)
(* conversation, when the process closes its connection, also if the       *)
(* process has opened another channel before the daemon heard of that.     *)
TransientChannelsEnd ==
    \A q \in Tasks : (conn[q].at = "closing" /\ conn[q].to = q /\ Hosted(q)) ~> ~Live(q)
================================================================================
