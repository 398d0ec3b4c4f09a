-------------------------------- MODULE Login --------------------------------
(***************************************************************************)
(* A login: one ScdmSession with its worker processes, the greeter that is *)
(* its client, and the manager's handlers for the session's signals        *)
(* (daemon/scdm-manager.c, "user session" part).  The daemon is one        *)
(* process with one main loop: a signal's handlers run inside the action   *)
(* that emits it, while D-Bus messages, idle sources and child watches     *)
(* interleave.                                                             *)
(***************************************************************************)
EXTENDS SessionWorker

CONSTANTS
    Services,         \* PAM services conversations are started for
    AutologinService, \* "scdm-autologin"
    LoginModes,       \* how this login may be configured
    SpawnMayFail,     \* can starting a worker process fail?
    InFlight          \* events of a closed connection that may be at hand (bound)

ASSUME ModeAssumption == LoginModes \subseteq {"greeter", "timed", "automatic"}

(* A greeter's login needs no autologin service.                           *)
ASSUME AutologinAssumption ==
    LoginModes \subseteq {"greeter"} \/ AutologinService \in Services

VARIABLES
    ses,    \* the ScdmSession
    mgr,    \* the manager's notes on it and the idle sources it queued
    client  \* the greeter: "never" connected, "connected" or "gone"

INSTANCE Session

(* No process and no service is mistaken for an absent entry.              *)
ASSUME EntryAssumption == {NoEntry, NullEntry} \cap (Workers \cup Services) = {}

loginVars == <<ses, mgr, client>>
vars      == <<workerVars, loginVars>>

(* The configuration of the display, the object data "start-when-ready"    *)
(* and "waiting-to-start", how often the session is in user_sessions, and  *)
(* whether remove_user_session has finished its display.                   *)
ManagerType ==
    [mode    : LoginModes,
     ready   : BOOLEAN,
     waiting : BOOLEAN,
     idles   : Seq([op : {"reset"}] \cup [op : {"start"}, service : Services]),
     listed  : Nat,
     over    : BOOLEAN]

LoginTypeOK ==
    /\ TypeOK
    /\ ses \in SessionType
    /\ mgr \in ManagerType
    /\ client \in {"never", "connected", "gone"}

Init ==
    /\ WorkerInit
    /\ ses = NewSession
    /\ \E mode \in LoginModes :
          mgr = [mode |-> mode, ready |-> FALSE, waiting |-> FALSE, idles |-> <<>>,
                 listed |-> 0, over |-> FALSE]
    /\ client = "never"
-----------------------------------------------------------------------------
(* What a step of the daemon does to the workers.                          *)

Ended(w) == proc[w] \in {"exited", "died"}

Stopped(T, w) ==
    /\ Live(ses, w)
    /\ Live(T, w) => T.conv[w].stopping /\ ~ses.conv[w].stopping

(* close_conversation closes the connection of a registered worker;        *)
(* freeing a conversation abandons any.                                    *)
Closed(T, w) == Stopped(T, w) /\ (ses.conv[w].proxy \/ ~Live(T, w))

(* Of what a worker had sent before its connection was closed, replies and *)
(* signals that were read already are still delivered, unless the          *)
(* conversation is freed; calls are not.  How many can that be?  A worker  *)
(* sends nothing between a call and its answer, so a call comes last.      *)
AtHand(s) ==
    {n \in 0..Len(s) : \A i \in 1..n : s[i].kind \notin {"Hello", "Query"}}

(* The session becomes T: the workers of conversations stopped on the way  *)
(* get SIGTERM, one event was taken from worker "from", the calls cs are   *)
(* sent to worker x if its conversation has a proxy and is not closed.     *)
Becomes(T, from, x, cs) ==
    LET unread(w) == IF w = from THEN Tail(events[w]) ELSE events[w]
    IN /\ ses' = T
       /\ sigterm' = [w \in Workers |-> sigterm[w] \/ (Stopped(T, w) /\ ~Ended(w))]
       /\ conn' = [w \in Workers |-> conn[w] /\ ~Closed(T, w)]
       /\ calls' = [w \in Workers |->
                      IF w = x /\ conn'[w] /\ T.conv[w].proxy THEN calls[w] \o cs ELSE calls[w]]
       /\ \E n \in [{w \in Workers : Closed(T, w) /\ Live(T, w)} -> 0..InFlight] :
             /\ \A w \in DOMAIN n : n[w] \in AtHand(unread(w))
             /\ events' = [w \in Workers |->
                             IF ~Closed(T, w) THEN unread(w)
                             ELSE IF ~Live(T, w) THEN <<>>
                             ELSE SubSeq(unread(w), 1, n[w])]
       /\ UNCHANGED <<pamVars, profileVars, proc, child, graceful, reauths>>

Quietly(T) == Becomes(T, NoEntry, NoEntry, <<>>)

InitializeCall(user) == [method |-> "Initialize", user |-> user, program |-> FALSE]
-----------------------------------------------------------------------------
(* The manager's handlers.                                                 *)

StartUserSessionIfReady(M, s) ==
    IF M.ready
    THEN [M EXCEPT !.waiting = FALSE,
                   !.idles = Append(@, [op |-> "start", service |-> s])]
    ELSE [M EXCEPT !.waiting = TRUE]

(* Mutant: an automatic login waits like any other.                        *)
UserSessionOpenedWaits(M, s) ==
    StartUserSessionIfReady([M EXCEPT !.listed = @ + 1], s)

(* on_user_session_opened: with no greeter there is nobody to wait for.    *)
UserSessionOpened(M, s) ==
    LET listed == [M EXCEPT !.listed = @ + 1]
        alone  == s = AutologinService /\ client # "connected"
    IN StartUserSessionIfReady([listed EXCEPT !.ready = @ \/ alone], s)

(* Mutant: the session is taken off a list it need not be on.              *)
RemoveUserSessionUnlisted(M) == [M EXCEPT !.over = TRUE, !.listed = @ - 1]

(* remove_user_session finishes the display and, for a session that was    *)
(* opened, closes the session.                                             *)
RemoveUserSession(M) == [M EXCEPT !.over = TRUE, !.listed = IF @ > 0 THEN @ - 1 ELSE 0]
SessionRemoved(M, S) == IF M.listed > 0 THEN DoReset(S) ELSE S

(* on_session_conversation_started: the autologin conversation is set up   *)
(* for the configured user as soon as its worker is there.                 *)
ConversationStarted(s) ==
    IF s = AutologinService /\ ~mgr.over /\ mgr.mode = "automatic"
    THEN <<InitializeCall(TRUE)>> ELSE <<>>

ResetQueued(M) == \E i \in DOMAIN M.idles : M.idles[i].op = "reset"

(* on_session_cancelled queues one reset.                                  *)
QueueSessionReset(M) ==
    IF ResetQueued(M) THEN M
    ELSE [M EXCEPT !.idles = Append(@, [op |-> "reset"])]
-----------------------------------------------------------------------------
(* Starting conversations.                                                 *)

Spawned(w) == Live(ses, w) \/ sigterm[w] \/ proc[w] # "unborn"

(* scdm_session_start_conversation, for a caller with an invocation to     *)
(* answer or not.                                                          *)
BeginConversation(s, starting) ==
    /\ CanStart(ses, s)
    /\ \/ /\ \E w \in Workers : ~Spawned(w)
          /\ LET w == CHOOSE x \in Workers : ~Spawned(x)
             IN Quietly([StartConversation(ses, s, w) EXCEPT !.conv[w].starting = starting])
       \/ SpawnMayFail /\ Quietly(StartConversation(ses, s, NullEntry))
    /\ UNCHANGED answer

(* set_up_automatic_login_session: there is no greeter.                    *)
SetUpAutomaticLogin ==
    /\ mgr.mode = "automatic"
    /\ ses = NewSession /\ \A w \in Workers : ~Spawned(w)
    /\ BeginConversation(AutologinService, "no")
    /\ UNCHANGED <<mgr, client>>

WorkerStarts(w) == Spawned(w) /\ Start(w) /\ UNCHANGED loginVars
WorkerActs(w)   == WorkerStep(w) /\ UNCHANGED loginVars
-----------------------------------------------------------------------------
(* The session handles what its workers send.                              *)

Reads(w, kind) == ses.up /\ events[w] # <<>> /\ Head(events[w]).kind = kind

(* register_worker.  Looking for the conversation of the process may come  *)
(* across a NULL entry first.                                              *)
RegisterWorker(w) ==
    /\ Reads(w, "Hello") /\ Live(ses, w)
    /\ LET c == ses.conv[w]
           setup == IF c.starting = "no" THEN <<>> ELSE <<InitializeCall(c.starting = "user")>>
       IN \/ Becomes(Register(ses, w), w, w, ConversationStarted(c.service) \o setup)
          \/ HasNull(ses) /\ Becomes([ses EXCEPT !.up = FALSE], w, w, <<>>)
    /\ UNCHANGED <<mgr, client, answer>>

(* "New worker connection is from unknown source"                          *)
RefuseWorker(w) ==
    /\ Reads(w, "Hello") /\ ~Live(ses, w)
    /\ events' = [events EXCEPT ![w] = <<>>]
    /\ conn' = [conn EXCEPT ![w] = FALSE]
    /\ ses' = [ses EXCEPT !.up = ~HasNull(ses)]
    /\ UNCHANGED <<pamVars, profileVars, procVars, calls, answer, mgr, client>>

(* Information and problems are passed on; a prompt waits for the client,  *)
(* or is refused if none ever came.                                        *)
HandleQuery(w) ==
    /\ Reads(w, "Query")
    /\ \/ client # "never" /\ Becomes([ses EXCEPT !.conv[w].query = TRUE], w, w, <<>>)
                           /\ UNCHANGED answer
       \/ Becomes(ses, w, w, <<>>) /\ answer' = [answer EXCEPT ![w] = conn[w]]
    /\ UNCHANGED <<mgr, client>>

Reported(w, m, ok) == Reads(w, "reply") /\ Head(events[w]) = Reply(m, ok)

(* The callbacks of the first four stages ask for the next one.            *)
NextMethod(m) ==
    CASE m = "Initialize"           -> "Authenticate"
      [] m = "Authenticate"         -> "Authorize"
      [] m = "Authorize"            -> "EstablishCredentials"
      [] m = "EstablishCredentials" -> "Open"

StageSucceeded(w, m) ==
    /\ m \in Methods \ {"Open", "StartProgram"}
    /\ Reported(w, m, TRUE)
    /\ LET T == IF m = "Initialize" THEN [ses EXCEPT !.conv[w].starting = "no"] ELSE ses
       IN Becomes(T, w, w, <<[method |-> NextMethod(m)]>>)
    /\ UNCHANGED <<mgr, client, answer>>

(* report_and_stop_conversation                                            *)
StageFailed(w, m) ==
    /\ m \in Methods \ {"Open", "StartProgram"}
    /\ Reported(w, m, FALSE)
    /\ LET T == IF m = "Initialize" THEN [ses EXCEPT !.conv[w].starting = "no"] ELSE ses
       IN Becomes(Stop(T, w), w, w, <<>>)
    /\ UNCHANGED <<mgr, client, answer>>

OnOpened(w) ==
    /\ Reported(w, "Open", TRUE)
    /\ Becomes(ses, w, w, <<>>)
    /\ mgr' = UserSessionOpened(mgr, ses.conv[w].service)
    /\ UNCHANGED <<client, answer>>

OnStarted(w) ==
    /\ Reported(w, "StartProgram", TRUE)
    /\ Becomes([ses EXCEPT !.running = TRUE, !.session_conversation = w], w, w, <<>>)
    /\ UNCHANGED <<mgr, client, answer>>

(* Open or StartProgram failed: the conversation is stopped and the        *)
(* manager removes the session.                                            *)
OnStartFailed(w, m) ==
    /\ m \in {"Open", "StartProgram"}
    /\ Reported(w, m, FALSE)
    /\ Becomes(SessionRemoved(mgr, Stop(ses, w)), w, w, <<>>)
    /\ mgr' = RemoveUserSession(mgr)
    /\ UNCHANGED <<client, answer>>

(* worker_on_session_exited                                                *)
OnSessionExited(w) ==
    /\ Reads(w, "SessionExited")
    /\ Becomes(SessionRemoved(mgr, [ses EXCEPT !.session_conversation = NoEntry]), w, w, <<>>)
    /\ mgr' = RemoveUserSession(mgr)
    /\ UNCHANGED <<client, answer>>

(* Mutant: the end of a conversation that is being stopped is not handled. *)
WorkerEndedUnlessStopping(w) ==
    /\ ses.up /\ Live(ses, w) /\ Ended(w)
    /\ ~ses.conv[w].stopping
    /\ LET T == Remove(ses, w)
       IN IF ses.session_conversation = w
          THEN /\ Quietly(SessionRemoved(mgr, T))
               /\ mgr' = RemoveUserSession(mgr)
          ELSE Quietly(T) /\ UNCHANGED mgr
    /\ UNCHANGED <<client, answer>>

(* worker_exited and worker_died: the child watch of the worker's job.     *)
WorkerEnded(w) ==
    /\ ses.up /\ Live(ses, w) /\ Ended(w)
    /\ LET T == Remove(ses, w)
       IN IF ses.session_conversation = w
          THEN /\ Quietly(SessionRemoved(mgr, T))
               /\ mgr' = RemoveUserSession(mgr)
          ELSE Quietly(T) /\ UNCHANGED mgr
    /\ UNCHANGED <<client, answer>>
-----------------------------------------------------------------------------
(* The idle sources of the manager, in the order they were queued.         *)

IdleHead(op) == ses.up /\ mgr.idles # <<>> /\ Head(mgr.idles).op = op
IdleDone     == mgr' = [mgr EXCEPT !.idles = Tail(@)]

OnResetSession ==
    /\ IdleHead("reset") /\ IdleDone
    /\ Quietly(DoReset(ses))
    /\ UNCHANGED <<client, answer>>

(* on_start_user_session finds a session of the user to switch to ...      *)
OnStartMigrates ==
    /\ IdleHead("start") /\ IdleDone
    /\ Quietly(DoReset(ses))
    /\ UNCHANGED <<client, answer>>

(* scdm_session_start_session declines if there is a session already or    *)
(* the service does not converse.                                          *)
StartSession(s) ==
    LET w == ses.table[s]
    IN IF ses.session_conversation = NoEntry /\ Found(ses, s)
       THEN Becomes(StopOthers(ses, w), NoEntry, w, <<[method |-> "StartProgram"]>>)
       ELSE Quietly(ses)

(* ... or starts this one; on the VT of the greeter it stops the greeter   *)
(* first.                                                                  *)
OnStartUserSession ==
    /\ IdleHead("start") /\ IdleDone
    /\ StartSession(Head(mgr.idles).service)
    /\ client' \in {client, IF client = "connected" THEN "gone" ELSE client}
    /\ UNCHANGED answer
-----------------------------------------------------------------------------
(* The greeter's calls.                                                    *)

Asks == ses.up /\ client = "connected" /\ ~mgr.over

(* on_session_client_connected                                             *)
ClientConnects ==
    /\ ses.up /\ client = "never" /\ mgr.mode # "automatic"
    /\ client' = "connected"
    /\ IF mgr.mode = "timed" /\ CanStart(ses, AutologinService)
       THEN BeginConversation(AutologinService, "no")
       ELSE Quietly(ses) /\ UNCHANGED answer
    /\ UNCHANGED mgr

ClientDisconnects ==
    /\ client = "connected"
    /\ client' = "gone"
    /\ UNCHANGED <<workerVars, ses, mgr>>

BeginVerification(s, starting) ==
    /\ Asks
    /\ BeginConversation(s, starting)
    /\ UNCHANGED <<mgr, client>>

(* Mutant: the query answered stays pending.                               *)
AnswerQueryAgain(s) ==
    /\ Asks /\ Found(ses, s)
    /\ LET w == ses.table[s]
       IN /\ ses.conv[w].query
          /\ Quietly(ses)
          /\ answer' = [answer EXCEPT ![w] = conn[w]]
    /\ UNCHANGED <<mgr, client>>

AnswerQuery(s) ==
    /\ Asks /\ Found(ses, s)
    /\ LET w == ses.table[s]
       IN /\ ses.conv[w].query
          /\ Quietly([ses EXCEPT !.conv[w].query = FALSE])
          /\ answer' = [answer EXCEPT ![w] = conn[w]]
    /\ UNCHANGED <<mgr, client>>

Cancel ==
    /\ Asks
    /\ mgr' = QueueSessionReset(mgr)
    /\ UNCHANGED <<workerVars, ses, client>>

(* Mutant: the go-ahead is noted and the waiting session forgotten.        *)
StartSessionWhenReadyOnly(s, ready) ==
    /\ Asks /\ ~ses.running
    /\ mgr' = [mgr EXCEPT !.ready = ready]
    /\ UNCHANGED <<workerVars, ses, client>>

(* Refused once session_pid is set.                                        *)
StartSessionWhenReady(s, ready) ==
    /\ Asks /\ ~ses.running
    /\ LET M == [mgr EXCEPT !.ready = ready]
       IN mgr' = IF ready /\ mgr.waiting THEN StartUserSessionIfReady(M, s) ELSE M
    /\ UNCHANGED <<workerVars, ses, client>>

(* scdm_session_setup_for_user on the autologin conversation.  The greeter *)
(* is taken to ask once, when its timer fires, and not again while the     *)
(* conversation is under way; the code itself does not insist on that.     *)
BeginAutoLogin ==
    /\ Asks /\ ~ses.running /\ mgr.mode = "timed"
    /\ Found(ses, AutologinService)
    /\ LET w == ses.table[AutologinService]
       IN /\ state[w] = NONE /\ pending[w] = NoCall /\ calls[w] = <<>>
          /\ Becomes(ses, NoEntry, w, <<InitializeCall(TRUE)>>)
    /\ UNCHANGED <<mgr, client, answer>>
-----------------------------------------------------------------------------
SessionStep(w) ==
    \/ RegisterWorker(w) \/ RefuseWorker(w) \/ HandleQuery(w)
    \/ \E m \in Methods : StageSucceeded(w, m) \/ StageFailed(w, m) \/ OnStartFailed(w, m)
    \/ OnOpened(w) \/ OnStarted(w) \/ OnSessionExited(w) \/ WorkerEnded(w)

ManagerIdle == OnResetSession \/ OnStartMigrates \/ OnStartUserSession

GreeterStep ==
    \/ ClientConnects \/ ClientDisconnects \/ Cancel \/ BeginAutoLogin
    \/ \E s \in Services :
          \/ \E how \in {"anyone", "user"} : BeginVerification(s, how)
          \/ AnswerQuery(s)
          \/ \E ready \in BOOLEAN : StartSessionWhenReady(s, ready)

LoginNext ==
    \/ \E w \in Workers : WorkerStarts(w) \/ WorkerActs(w) \/ SessionStep(w)
    \/ SetUpAutomaticLogin \/ ManagerIdle \/ GreeterStep

LoginSpec == Init /\ [][LoginNext]_vars

(* Processes start and get their signals, and the daemon's main loop       *)
(* serves its child watches and idle sources.  Nothing else is owed: PAM   *)
(* may never return, the greeter never answer, the session never end.      *)
Fairness ==
    /\ \A w \in Workers :
          /\ WF_vars(WorkerStarts(w))
          /\ WF_vars((SigtermExits(w) \/ Finalize(w)) /\ UNCHANGED loginVars)
          /\ WF_vars(WorkerEnded(w))
    /\ WF_vars(ManagerIdle)

FairLoginSpec == LoginSpec /\ Fairness

(* Starting an opened session involves no PAM module that may block: the   *)
(* worker's loop serves the request and the daemon's serves the answer.    *)
StartFairness ==
    \A w \in Workers :
        /\ WF_vars((HandleStartProgram(w) \/ DoStartSession(w)) /\ UNCHANGED loginVars)
        /\ WF_vars(SessionStep(w))

FairAutomaticSpec == FairLoginSpec /\ StartFairness
-----------------------------------------------------------------------------
Sent(w, kind)   == \E i \in DOMAIN events[w] : events[w][i].kind = kind
Asked(w, m)     == \E i \in DOMAIN calls[w] : calls[w][i].method = m
Conversing(w)   == Live(ses, w) /\ ~ses.conv[w].stopping

(* The table and the conversations agree: whatever was replaced, stopped   *)
(* or removed, a conversation is allocated exactly while its service's     *)
(* entry points to it, and a worker process that is no longer a            *)
(* conversation's has been told to terminate.                              *)
NoOrphanWorker ==
    \A w \in Workers :
        /\ Live(ses, w) => ses.table[ses.conv[w].service] = w
        /\ \A s \in Services : ses.table[s] = w => Live(ses, w) /\ ses.conv[w].service = s
        /\ Running(w) /\ ~Live(ses, w) => sigterm[w]

(* Opened and ready can happen in either order, and neither waits for the  *)
(* other once both have: the session is never left waiting by a ready      *)
(* client.                                                                 *)
NoLostStart == ~(mgr.ready /\ mgr.waiting)

(* Of the conversations that are not being stopped, at most one has been   *)
(* asked to start a session or runs one.                                   *)
OneSession ==
    \A v, w \in Workers :
        LET starts(x) == /\ Conversing(x)
                         /\ \/ Asked(x, "StartProgram")
                            \/ pending[x].method = "StartProgram"
                            \/ Running(x) /\ child[x] # "none"
        IN starts(v) /\ starts(w) => v = w

(* set_pending_query's assertion: when a worker's query arrives, no        *)
(* earlier query of that conversation is pending; and a pending query is   *)
(* one its worker still waits on.                                          *)
OneQueryAtATime ==
    \A w \in Workers :
        Live(ses, w) /\ ses.conv[w].query =>
            /\ ~Sent(w, "Query")
            /\ Running(w) /\ conn[w] => busy[w] = "query" /\ ~answer[w]

(* While the worker of session_conversation can be talked to, the pointer  *)
(* is good and the session has a process or is about to hear that it is    *)
(* gone; and the pointer outlives its conversation in one case only, when  *)
(* that is being stopped and a new conversation of its service takes its   *)
(* place: no end, failure, cancellation or reset leaves it behind.         *)
SessionConversationValid ==
    /\ [](\A w \in Workers :
             ses.session_conversation = w /\ conn[w] =>
                /\ Live(ses, w)
                /\ child[w] # "none" \/ Sent(w, "SessionExited"))
    /\ [][\A w \in Workers :
             Live(ses, w) /\ ~Live(ses', w) /\ ses'.session_conversation = w =>
                /\ ses.conv[w].stopping
                /\ ses'.table[ses.conv[w].service] # NoEntry]_ses

(* A conversation that is being stopped, and every one there is when the   *)
(* greeter cancels, ends: its worker process is gone and its entry freed,  *)
(* wherever in the conversation it was, and its service can be used again  *)
(* (unless a NULL conversation took the daemon down).                      *)
StoppedConversationsEnd ==
    \A w \in Workers :
        (Live(ses, w) /\ (ses.conv[w].stopping \/ ResetQueued(mgr)))
            ~> ((~Live(ses, w) /\ Ended(w)) \/ ~ses.up)

(* With nobody at a greeter to say go, an automatic login that was opened  *)
(* does not wait: its session runs, or it is given up and its conversation *)
(* is gone.                                                                *)
OpenedLoginStarts ==
    (mgr.mode = "automatic" /\ mgr.listed > 0) ~>
        (ses.running \/ mgr.over \/ \A w \in Workers : ~Live(ses, w))

(* A request that the worker refused is not carried out.                   *)
RefusedIsNotRun == \A w \in Workers : ~pending[w].answered
=============================================================================
