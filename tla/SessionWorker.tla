---------------------------- MODULE SessionWorker ----------------------------
(***************************************************************************)
(* The session worker of daemon/scdm-session-worker.c: one process per     *)
(* conversation, driving PAM through the eight stages of                   *)
(* ScdmSessionWorkerState on behalf of a peer (a ScdmSession) that calls   *)
(* it over a private D-Bus connection.                                     *)
(*                                                                         *)
(* The process has one main loop.  A D-Bus request is validated and, if    *)
(* accepted, remembered in pending_invocation while an idle source carries *)
(* out the stage change; the PAM calls of the authentication and account   *)
(* stages block that loop and may query the user through the peer.  The    *)
(* peer of this module is unconstrained: it may call any method at any     *)
(* time and answer or refuse any query.                                    *)
(***************************************************************************)
EXTENDS Naturals, Sequences, FiniteSets

CONSTANTS
    Workers,        \* worker processes (pids)
    ReauthWorkers,  \* those spawned with GDM_SESSION_FOR_REAUTH set
    Callers,        \* processes asking a running session to reauthenticate
    ChannelBound    \* calls and events a peer lets accumulate (bound)

ASSUME ReauthAssumption == ReauthWorkers \subseteq Workers
ASSUME BoundAssumption  == ChannelBound \in Nat

VARIABLES
    proc,       \* "unborn", "running", "exited" (exit status) or "died" (signal)
    state,      \* worker->priv->state, a stage number
    pending,    \* worker->priv->pending_invocation, or NoCall
    idle,       \* worker->priv->state_change_idle_id > 0
    busy,       \* is the main loop blocked in PAM, and on a query of it?
    pam,        \* what the PAM stack holds for this process (external)
    hasUser,    \* worker->priv->username # NULL
    program,    \* worker->priv->is_program_session
    settings,   \* user_settings: no user, user being loaded, user loaded
    awaiting,   \* on_settings_is_loaded_changed is connected
    child,      \* the session process: none, running, or dead and unreaped
    graceful,   \* SIGTERM is handled by the main loop (on_state_changed ran)
    sigterm,    \* SIGTERM was sent and has not ended the process yet
    reauths,    \* callers in reauthentication_requests
    conn,       \* the connection to the peer is open
    calls,      \* D-Bus method calls on their way to the worker
    answer,     \* the peer has answered, or refused, the outstanding query
    events      \* replies, queries and signals on their way to the peer

pamVars     == <<state, pending, idle, busy, pam>>
profileVars == <<hasUser, program, settings, awaiting>>
procVars    == <<proc, child, graceful, sigterm, reauths>>
wireVars    == <<conn, calls, answer, events>>
workerVars  == <<pamVars, profileVars, procVars, wireVars>>
-----------------------------------------------------------------------------
(* Stages of ScdmSessionWorkerState, in the order of the enum.             *)
NONE             == 0
SETUP_COMPLETE   == 1
AUTHENTICATED    == 2
AUTHORIZED       == 3
ACCREDITED       == 4
ACCOUNT_DETAILS_SAVED == 5
SESSION_OPENED   == 6
SESSION_STARTED  == 7
Stages           == NONE..SESSION_STARTED

(* The stage each method asks for.  Open asks for ACCOUNT_DETAILS_SAVED;    *)
(* saving the details then queues SESSION_OPENED by itself.                *)
Methods == {"Initialize", "Authenticate", "Authorize", "EstablishCredentials",
            "Open", "StartProgram"}

Target(m) ==
    CASE m = "Initialize"           -> SETUP_COMPLETE
      [] m = "Authenticate"         -> AUTHENTICATED
      [] m = "Authorize"            -> AUTHORIZED
      [] m = "EstablishCredentials" -> ACCREDITED
      [] m = "Open"                 -> ACCOUNT_DETAILS_SAVED
      [] m = "StartProgram"         -> SESSION_STARTED

(* Call arguments that control depends on: does Initialize name a user, is *)
(* it for a program, which process asks for reauthentication.              *)
Call == [method : {"Initialize"}, user : BOOLEAN, program : BOOLEAN]
          \cup [method : Methods \ {"Initialize"}]
          \cup [method : {"StartReauthentication"}, caller : Callers]

Reply(m, ok) == [kind |-> "reply", method |-> m, ok |-> ok]
Signal(k)    == [kind |-> k]
Event == [kind : {"reply"}, method : Methods \cup {"StartReauthentication"}, ok : BOOLEAN]
           \cup [kind : {"Hello", "Query", "SessionExited", "Reauthenticated"}]

(* An invocation is "answered" once an error was returned for it.          *)
NoCall     == [method |-> "none", answered |-> FALSE]
Invocation == [method : Methods, answered : BOOLEAN] \cup {NoCall}

PamItems == {"handle", "authenticated", "authorized", "cred", "session"}

(* What is sent over a closed connection is lost.                          *)
Emit(w, e) ==
    events' = [events EXCEPT ![w] = IF conn[w] THEN Append(@, e) ELSE @]

Running(w)  == proc[w] = "running"
LoopFree(w) == Running(w) /\ busy[w] = "no"

(* The process ends and its memory goes with it.  What it had sent can     *)
(* still be read; what was sent to it, and what it was asked, is lost: the *)
(* peer's callbacks disregard a closed connection.  A session process      *)
(* survives, and so does what PAM did.                                     *)
Ends(w, how) ==
    /\ proc'     = [proc EXCEPT ![w] = how]
    /\ sigterm'  = [sigterm EXCEPT ![w] = FALSE]
    /\ pending'  = [pending EXCEPT ![w] = NoCall]
    /\ idle'     = [idle EXCEPT ![w] = FALSE]
    /\ busy'     = [busy EXCEPT ![w] = "no"]
    /\ hasUser'  = [hasUser EXCEPT ![w] = FALSE]
    /\ program'  = [program EXCEPT ![w] = FALSE]
    /\ settings' = [settings EXCEPT ![w] = "none"]
    /\ awaiting' = [awaiting EXCEPT ![w] = FALSE]
    /\ reauths'  = [reauths EXCEPT ![w] = {}]
    /\ conn'     = [conn EXCEPT ![w] = FALSE]
    /\ calls'    = [calls EXCEPT ![w] = <<>>]
    /\ answer'   = [answer EXCEPT ![w] = FALSE]
    /\ UNCHANGED <<graceful, events>>
-----------------------------------------------------------------------------
TypeOK ==
    /\ proc     \in [Workers -> {"unborn", "running", "exited", "died"}]
    /\ state    \in [Workers -> Stages]
    /\ pending  \in [Workers -> Invocation]
    /\ idle     \in [Workers -> BOOLEAN]
    /\ busy     \in [Workers -> {"no", "pam", "query"}]
    /\ pam      \in [Workers -> SUBSET PamItems]
    /\ hasUser  \in [Workers -> BOOLEAN]
    /\ program  \in [Workers -> BOOLEAN]
    /\ settings \in [Workers -> {"none", "loading", "loaded"}]
    /\ awaiting \in [Workers -> BOOLEAN]
    /\ child    \in [Workers -> {"none", "running", "zombie"}]
    /\ graceful \in [Workers -> BOOLEAN]
    /\ sigterm  \in [Workers -> BOOLEAN]
    /\ reauths  \in [Workers -> SUBSET Callers]
    /\ conn     \in [Workers -> BOOLEAN]
    /\ calls    \in [Workers -> Seq(Call)]
    /\ answer   \in [Workers -> BOOLEAN]
    /\ events   \in [Workers -> Seq(Event)]

WorkerInit ==
    /\ proc     = [w \in Workers |-> "unborn"]
    /\ state    = [w \in Workers |-> NONE]
    /\ pending  = [w \in Workers |-> NoCall]
    /\ idle     = [w \in Workers |-> FALSE]
    /\ busy     = [w \in Workers |-> "no"]
    /\ pam      = [w \in Workers |-> {}]
    /\ hasUser  = [w \in Workers |-> FALSE]
    /\ program  = [w \in Workers |-> FALSE]
    /\ settings = [w \in Workers |-> "none"]
    /\ awaiting = [w \in Workers |-> FALSE]
    /\ child    = [w \in Workers |-> "none"]
    /\ graceful = [w \in Workers |-> FALSE]
    /\ sigterm  = [w \in Workers |-> FALSE]
    /\ reauths  = [w \in Workers |-> {}]
    /\ conn     = [w \in Workers |-> FALSE]
    /\ calls    = [w \in Workers |-> <<>>]
    /\ answer   = [w \in Workers |-> FALSE]
    /\ events   = [w \in Workers |-> <<>>]

(* The process starts, connects and sends Hello before it runs its loop.   *)
Start(w) ==
    /\ proc[w] = "unborn"
    /\ proc' = [proc EXCEPT ![w] = "running"]
    /\ conn' = [conn EXCEPT ![w] = TRUE]
    /\ events' = [events EXCEPT ![w] = <<Signal("Hello")>>]
    /\ UNCHANGED <<pamVars, profileVars, child, graceful, sigterm, reauths, calls, answer>>
-----------------------------------------------------------------------------
(* The requests.                                                           *)

(* validate_state_change: the request is for the next stage and no other   *)
(* request is outstanding.                                                 *)
ValidStateChange(w, m) ==
    /\ pending[w] = NoCall
    /\ state[w] + 1 = Target(m)

Receive(w, m) ==
    /\ LoopFree(w)
    /\ calls[w] # <<>>
    /\ Head(calls[w]).method = m
    /\ calls' = [calls EXCEPT ![w] = Tail(@)]
    /\ UNCHANGED <<state, busy, pam, procVars, answer, conn>>

Refuse(w, m) ==
    /\ ~ValidStateChange(w, m)
    /\ Emit(w, Reply(m, FALSE))

Accept(w, m) ==
    /\ pending' = [pending EXCEPT ![w] = [method |-> m, answered |-> FALSE]]
    /\ UNCHANGED events

QueueStateChange(w) == idle' = [idle EXCEPT ![w] = TRUE]

(* validate_and_queue_state_change, for the methods that only use it.      *)
HandleStage(w, m) ==
    /\ m \in Methods \ {"Initialize", "StartProgram"}
    /\ Receive(w, m)
    /\ \/ Refuse(w, m) /\ UNCHANGED <<pending, idle>>
       \/ /\ ValidStateChange(w, m)
          /\ Accept(w, m)
          /\ QueueStateChange(w)
    /\ UNCHANGED profileVars

(* scdm_session_settings_load, called with no user loaded: the account may *)
(* be in the cache or be fetched.                                          *)
LoadSettings(w, now) ==
    settings' = [settings EXCEPT ![w] = IF now THEN "loaded" ELSE "loading"]

(* A session for a named user waits for that user's settings, unless they  *)
(* are at hand.  Settings loaded before make scdm_session_settings_load    *)
(* return FALSE as well, with no notification to come.                     *)
HandleInitialize(w) ==
    /\ Receive(w, "Initialize")
    /\ \/ Refuse(w, "Initialize") /\ UNCHANGED <<pending, idle, profileVars>>
       \/ LET c    == Head(calls[w])
              user == c.user \/ hasUser[w]
              prog == c.program \/ program[w]
          IN /\ ValidStateChange(w, "Initialize")
             /\ Accept(w, "Initialize")
             /\ hasUser' = [hasUser EXCEPT ![w] = user]
             /\ program' = [program EXCEPT ![w] = prog]
             /\ \/ /\ prog \/ ~user
                   /\ QueueStateChange(w)
                   /\ UNCHANGED <<settings, awaiting>>
                \/ /\ ~prog /\ user /\ settings[w] # "loaded"
                   /\ LoadSettings(w, TRUE)
                   /\ awaiting' = [awaiting EXCEPT ![w] = FALSE]
                   /\ QueueStateChange(w)
                \/ /\ ~prog /\ user
                   /\ IF settings[w] = "loaded" THEN UNCHANGED settings
                                                ELSE LoadSettings(w, FALSE)
                   /\ awaiting' = [awaiting EXCEPT ![w] = TRUE]
                   /\ UNCHANGED idle

(* Mutant: nobody asks whether this is a reauthentication.                 *)
HandleStartProgramAnyway(w) ==
    LET refused == ~ValidStateChange(w, "StartProgram")
    IN /\ Receive(w, "StartProgram")
       /\ IF refused THEN Emit(w, Reply("StartProgram", FALSE)) ELSE UNCHANGED events
       /\ pending' = [pending EXCEPT ![w] = [method |-> "StartProgram", answered |-> refused]]
       /\ QueueStateChange(w)
       /\ UNCHANGED profileVars

(* StartProgram answers an invalid request with an error and then goes on: *)
(* the answered invocation becomes the pending one and a stage change is   *)
(* queued.  It stops early for a reauthentication worker and when the      *)
(* command line does not parse.                                            *)
HandleStartProgram(w) ==
    LET refused == ~ValidStateChange(w, "StartProgram")
    IN /\ Receive(w, "StartProgram")
       /\ \/ /\ Emit(w, Reply("StartProgram", FALSE))
             /\ UNCHANGED <<pending, idle>>
          \/ /\ w \notin ReauthWorkers
             /\ IF refused THEN Emit(w, Reply("StartProgram", FALSE)) ELSE UNCHANGED events
             /\ pending' = [pending EXCEPT ![w] =
                              [method |-> "StartProgram", answered |-> refused]]
             /\ QueueStateChange(w)
       /\ UNCHANGED profileVars

HandleStartReauthentication(w) ==
    /\ LoopFree(w)
    /\ calls[w] # <<>>
    /\ Head(calls[w]).method = "StartReauthentication"
    /\ calls' = [calls EXCEPT ![w] = Tail(@)]
    /\ LET ok == state[w] = SESSION_STARTED
       IN /\ reauths' = [reauths EXCEPT ![w] =
                           IF ok THEN @ \cup {Head(calls[w]).caller} ELSE @]
          /\ Emit(w, Reply("StartReauthentication", ok))
    /\ UNCHANGED <<pamVars, profileVars, proc, child, graceful, sigterm, answer, conn>>
-----------------------------------------------------------------------------
(* The stage changes, run from the idle source.                            *)

IdleFires(w, stage) ==
    /\ LoopFree(w)
    /\ idle[w]
    /\ state[w] = stage
    /\ idle' = [idle EXCEPT ![w] = FALSE]

SetState(w, s) == state' = [state EXCEPT ![w] = s]
Gain(w, item)  == pam' = [pam EXCEPT ![w] = @ \cup {item}]

(* The result of a stage goes to whatever invocation is pending.           *)
ReplyPending(w, ok) ==
    /\ IF pending[w] = NoCall \/ pending[w].answered
       THEN UNCHANGED events
       ELSE Emit(w, Reply(pending[w].method, ok))
    /\ pending' = [pending EXCEPT ![w] = NoCall]

(* Mutant: the PAM session is closed only once the program runs.           *)
ReleasedLate(s) ==
    {"handle", "authenticated", "authorized"}
        \cup (IF s > SESSION_OPENED THEN {"session"} ELSE {})
        \cup (IF s >= ACCREDITED THEN {"cred"} ELSE {})

(* scdm_session_worker_uninitialize_pam: without a handle nothing happens. *)
(* Otherwise the session is closed and the credentials are deleted as far  *)
(* as the stage says they exist, the handle is ended, the stage is NONE.   *)
Released(s) ==
    {"handle", "authenticated", "authorized"}
        \cup (IF s >= SESSION_OPENED THEN {"session"} ELSE {})
        \cup (IF s >= ACCREDITED THEN {"cred"} ELSE {})

UninitializePam(w) ==
    IF "handle" \notin pam[w]
    THEN UNCHANGED <<state, pam>>
    ELSE /\ pam' = [pam EXCEPT ![w] = @ \ Released(state[w])]
         /\ SetState(w, NONE)

StageFails(w) == UninitializePam(w) /\ ReplyPending(w, FALSE)

DoSetup(w) ==
    /\ IdleFires(w, NONE)
    /\ \/ Gain(w, "handle") /\ SetState(w, SETUP_COMPLETE) /\ ReplyPending(w, TRUE)
       \/ StageFails(w)
    /\ UNCHANGED <<busy, profileVars, procVars, calls, answer, conn>>

(* pam_authenticate and pam_acct_mgmt/pam_chauthtok run a conversation;    *)
(* the main loop is blocked until they return.                             *)
EnterPam(w, stage) ==
    /\ IdleFires(w, stage)
    /\ busy' = [busy EXCEPT ![w] = "pam"]
    /\ UNCHANGED <<state, pending, pam, profileVars, procVars, wireVars>>

BeginAuthenticate(w) == EnterPam(w, SETUP_COMPLETE)
BeginAuthorize(w)    == EnterPam(w, AUTHENTICATED)

(* One message of the PAM conversation.  The user name PAM knows by now is *)
(* picked up, and its settings are tried if none are loaded; a prompt then *)
(* goes to the peer and the process waits.                                 *)
UpdateUsername(w) ==
    \/ UNCHANGED profileVars
    \/ /\ hasUser' = [hasUser EXCEPT ![w] = TRUE]
       /\ \/ settings[w] # "loaded" /\ \E now \in BOOLEAN : LoadSettings(w, now)
          \/ settings[w] = "loaded" /\ UNCHANGED settings
       /\ UNCHANGED <<program, awaiting>>

ProcessPamMessage(w) ==
    /\ Running(w) /\ busy[w] = "pam"
    /\ busy' = [busy EXCEPT ![w] = "query"]
    /\ UpdateUsername(w)
    /\ Emit(w, Signal("Query"))
    /\ UNCHANGED <<state, pending, idle, pam, procVars, calls, answer, conn>>

(* The answer arrives, or the connection is closed.  An error makes the    *)
(* conversation function return PAM_CONV_ERR; what PAM makes of that, or   *)
(* of a text, is up to its modules.                                        *)
QueryAnswered(w) ==
    /\ Running(w) /\ busy[w] = "query" /\ (answer[w] \/ ~conn[w])
    /\ busy'   = [busy EXCEPT ![w] = "pam"]
    /\ answer' = [answer EXCEPT ![w] = FALSE]
    /\ UNCHANGED <<state, pending, idle, pam, profileVars, procVars, calls, events, conn>>

PamReturns(w, stage) ==
    /\ Running(w) /\ busy[w] = "pam" /\ state[w] = stage
    /\ busy' = [busy EXCEPT ![w] = "no"]
    /\ UNCHANGED <<idle, procVars, calls, answer, conn>>

FinishAuthenticate(w) ==
    /\ PamReturns(w, SETUP_COMPLETE)
    /\ \/ /\ Gain(w, "authenticated")
          /\ SetState(w, AUTHENTICATED)
          /\ ReplyPending(w, TRUE)
          /\ IF program[w] THEN UNCHANGED profileVars ELSE UpdateUsername(w)
       \/ StageFails(w) /\ UNCHANGED profileVars

(* For a reauthentication the verdict of the account stage is overridden.  *)
FinishAuthorize(w) ==
    /\ PamReturns(w, AUTHENTICATED)
    /\ UNCHANGED profileVars
    /\ \/ Gain(w, "authorized") /\ SetState(w, AUTHORIZED) /\ ReplyPending(w, TRUE)
       \/ w \notin ReauthWorkers /\ StageFails(w)

(* Mutant: failing to accredit keeps the handle for another attempt.       *)
DoAccreditRetries(w) ==
    /\ IdleFires(w, AUTHORIZED)
    /\ \/ /\ hasUser[w]
          /\ Gain(w, "cred") /\ SetState(w, ACCREDITED) /\ ReplyPending(w, TRUE)
       \/ /\ pam' = [pam EXCEPT ![w] = {"handle"}]
          /\ SetState(w, SETUP_COMPLETE) /\ ReplyPending(w, FALSE)
    /\ UNCHANGED <<busy, profileVars, procVars, calls, answer, conn>>

(* Credentials need a user name with an account, and pam_setcred to work   *)
(* or to be overridden by a reauthentication.                              *)
DoAccredit(w) ==
    /\ IdleFires(w, AUTHORIZED)
    /\ \/ /\ hasUser[w]
          /\ Gain(w, "cred") /\ SetState(w, ACCREDITED) /\ ReplyPending(w, TRUE)
       \/ StageFails(w)
    /\ UNCHANGED <<busy, profileVars, procVars, calls, answer, conn>>

(* save_account_details_now                                                *)
SaveAccountDetails(w) ==
    /\ SetState(w, ACCOUNT_DETAILS_SAVED)
    /\ QueueStateChange(w)

DoSaveAccountDetailsWhenReady(w) ==
    /\ LoopFree(w) /\ idle[w] /\ state[w] = ACCREDITED
    /\ \/ settings[w] = "loaded" /\ SaveAccountDetails(w) /\ UNCHANGED <<settings, awaiting>>
       \/ /\ settings[w] # "loaded"
          /\ LoadSettings(w, TRUE)
          /\ SaveAccountDetails(w)
          /\ awaiting' = [awaiting EXCEPT ![w] = FALSE]
       \/ /\ settings[w] # "loaded"
          /\ LoadSettings(w, FALSE)
          /\ awaiting' = [awaiting EXCEPT ![w] = TRUE]
          /\ idle' = [idle EXCEPT ![w] = FALSE]
          /\ UNCHANGED state
    /\ UNCHANGED <<pending, busy, pam, hasUser, program, procVars, wireVars>>

(* The account is loaded and on_settings_is_loaded_changed, if connected,  *)
(* resumes the stage that waited; in any other stage it stays connected.   *)
SettingsLoaded(w) ==
    /\ LoopFree(w)
    /\ settings[w] = "loading"
    /\ settings' = [settings EXCEPT ![w] = "loaded"]
    /\ LET resumes == awaiting[w] /\ state[w] \in {NONE, ACCREDITED}
       IN /\ awaiting' = [awaiting EXCEPT ![w] = @ /\ ~resumes]
          /\ IF resumes THEN QueueStateChange(w) ELSE UNCHANGED idle
          /\ IF resumes /\ state[w] = ACCREDITED
             THEN SetState(w, ACCOUNT_DETAILS_SAVED) ELSE UNCHANGED state
    /\ UNCHANGED <<pending, busy, pam, hasUser, program, procVars, wireVars>>

(* A failure to set up the VT returns before the PAM calls and leaves the  *)
(* stage and the handle as they were.                                      *)
DoOpenSession(w) ==
    /\ IdleFires(w, ACCOUNT_DETAILS_SAVED)
    /\ \/ Gain(w, "session") /\ SetState(w, SESSION_OPENED) /\ ReplyPending(w, TRUE)
       \/ StageFails(w)
       \/ ReplyPending(w, FALSE) /\ UNCHANGED <<state, pam>>
    /\ UNCHANGED <<busy, profileVars, procVars, calls, answer, conn>>

(* Reaching SESSION_STARTED makes on_state_changed route SIGTERM to the    *)
(* main loop.                                                              *)
DoStartSession(w) ==
    /\ IdleFires(w, SESSION_OPENED)
    /\ \/ /\ child'    = [child EXCEPT ![w] = "running"]
          /\ graceful' = [graceful EXCEPT ![w] = TRUE]
          /\ SetState(w, SESSION_STARTED) /\ ReplyPending(w, TRUE)
          /\ UNCHANGED pam
       \/ StageFails(w) /\ UNCHANGED <<child, graceful>>
    /\ UNCHANGED <<busy, profileVars, proc, sigterm, reauths, calls, answer, conn>>

(* Mutant: the stage is advanced without looking.                          *)
StateChangeRunsOn(w) ==
    /\ LoopFree(w) /\ idle[w] /\ state[w] = SESSION_STARTED
    /\ SetState(w, state[w] + 1)
    /\ idle' = [idle EXCEPT ![w] = FALSE]
    /\ UNCHANGED <<pending, busy, pam, profileVars, procVars, wireVars>>

(* There is no stage after SESSION_STARTED: get_state_name aborts.         *)
StateChangeAborts(w) ==
    /\ LoopFree(w) /\ idle[w] /\ state[w] = SESSION_STARTED
    /\ Ends(w, "died")
    /\ UNCHANGED <<state, pam, child>>
-----------------------------------------------------------------------------
(* The session process, reauthentication, signals.                         *)

ChildExits(w) ==
    /\ child[w] = "running"
    /\ child' = [child EXCEPT ![w] = "zombie"]
    /\ UNCHANGED <<pamVars, profileVars, proc, graceful, sigterm, reauths, wireVars>>

(* Mutant: PAM is left as it is when the session process has ended.        *)
ChildWatchKeepsPam(w) ==
    /\ LoopFree(w) /\ child[w] = "zombie"
    /\ Emit(w, Signal("SessionExited"))
    /\ child' = [child EXCEPT ![w] = "none"]
    /\ UNCHANGED <<pamVars, profileVars, proc, graceful, sigterm, reauths, calls, answer, conn>>

(* session_worker_child_watch                                              *)
ChildWatch(w) ==
    /\ LoopFree(w) /\ child[w] = "zombie"
    /\ UninitializePam(w)
    /\ Emit(w, Signal("SessionExited"))
    /\ child' = [child EXCEPT ![w] = "none"]
    /\ UNCHANGED <<pending, idle, busy, profileVars, proc, graceful, sigterm, reauths, calls, answer, conn>>

(* on_reauthentication_verification_complete: the nested session of the    *)
(* caller verified the user; its request stays until the caller is gone.   *)
ReauthenticationComplete(w, c) ==
    /\ LoopFree(w) /\ c \in reauths[w]
    /\ Len(events[w]) < ChannelBound
    /\ Emit(w, Signal("Reauthenticated"))
    /\ UNCHANGED <<pamVars, profileVars, procVars, calls, answer, conn>>

(* on_reauthentication_client_disconnected                                 *)
ReauthenticationClientGone(w, c) ==
    /\ LoopFree(w) /\ c \in reauths[w]
    /\ reauths' = [reauths EXCEPT ![w] = @ \ {c}]
    /\ UNCHANGED <<pamVars, profileVars, proc, child, graceful, sigterm, wireVars>>

(* Before SESSION_STARTED, SIGTERM ends the process on the spot: nothing   *)
(* that PAM holds is released.                                             *)
SigtermExits(w) ==
    /\ Running(w) /\ sigterm[w] /\ ~graceful[w]
    /\ Ends(w, "exited")
    /\ UNCHANGED <<state, pam, child>>

(* Mutant: the worker goes without taking PAM down.                        *)
FinalizeKeepsPam(w) ==
    /\ LoopFree(w) /\ sigterm[w] /\ graceful[w]
    /\ Ends(w, "exited")
    /\ child' = [child EXCEPT ![w] = "none"]
    /\ UNCHANGED <<state, pam>>

(* Afterwards it quits the main loop, and scdm_session_worker_finalize     *)
(* terminates and awaits the session process and takes PAM down.           *)
Finalize(w) ==
    /\ LoopFree(w) /\ sigterm[w] /\ graceful[w]
    /\ Ends(w, "exited")
    /\ child' = [child EXCEPT ![w] = "none"]
    /\ UninitializePam(w)

(* A PAM module takes the process down.                                    *)
Crash(w) ==
    /\ Running(w)
    /\ Ends(w, "died")
    /\ UNCHANGED <<state, pam, child>>

WorkerStep(w) ==
    \/ \E m \in Methods : HandleStage(w, m)
    \/ HandleInitialize(w) \/ HandleStartProgram(w) \/ HandleStartReauthentication(w)
    \/ DoSetup(w) \/ BeginAuthenticate(w) \/ BeginAuthorize(w)
    \/ ProcessPamMessage(w) \/ QueryAnswered(w)
    \/ FinishAuthenticate(w) \/ FinishAuthorize(w)
    \/ DoAccredit(w) \/ DoSaveAccountDetailsWhenReady(w) \/ SettingsLoaded(w)
    \/ DoOpenSession(w) \/ DoStartSession(w) \/ StateChangeAborts(w)
    \/ ChildExits(w) \/ ChildWatch(w)
    \/ \E c \in Callers : ReauthenticationComplete(w, c) \/ ReauthenticationClientGone(w, c)
    \/ SigtermExits(w) \/ Finalize(w) \/ Crash(w)
-----------------------------------------------------------------------------
(* A peer that does as it likes while the process runs.                    *)

PeerCalls(w, c) ==
    /\ Running(w) /\ conn[w] /\ Len(calls[w]) + Len(events[w]) < ChannelBound
    /\ calls' = [calls EXCEPT ![w] = Append(@, c)]
    /\ UNCHANGED <<pamVars, profileVars, procVars, conn, answer, events>>

(* Taking a query off the wire is answering it.                            *)
PeerReads(w) ==
    /\ Running(w) /\ events[w] # <<>>
    /\ events' = [events EXCEPT ![w] = Tail(@)]
    /\ answer' = [answer EXCEPT ![w] = @ \/ (conn[w] /\ Head(events[w]) = Signal("Query"))]
    /\ UNCHANGED <<pamVars, profileVars, procVars, conn, calls>>

PeerCloses(w) ==
    /\ Running(w) /\ conn[w]
    /\ conn' = [conn EXCEPT ![w] = FALSE]
    /\ UNCHANGED <<pamVars, profileVars, procVars, calls, answer, events>>

PeerSendsSigterm(w) ==
    /\ Running(w)
    /\ sigterm' = [sigterm EXCEPT ![w] = TRUE]
    /\ UNCHANGED <<pamVars, profileVars, proc, child, graceful, reauths, wireVars>>

PeerStep(w) ==
    \/ \E c \in Call : PeerCalls(w, c)
    \/ PeerReads(w) \/ PeerCloses(w) \/ PeerSendsSigterm(w)

Next == \E w \in Workers : Start(w) \/ WorkerStep(w) \/ PeerStep(w)

Spec == WorkerInit /\ [][Next]_workerVars
-----------------------------------------------------------------------------
(* The refinement mapping: the abstract worker has the process, the stage, *)
(* PAM's holdings and the session process of the detailed one; requests,   *)
(* queues, settings and the connection are hidden.                         *)
Lifecycle == INSTANCE WorkerLifecycle
    WITH Workers <- Workers, proc <- proc, state <- state, pam <- pam,
         child <- child, graceful <- graceful

(* The stage always tells what PAM holds: uninitialize_pam, which decides  *)
(* by the stage what to close and delete, leaves nothing behind whichever  *)
(* stage failed, and initialize_pam never finds a handle in its way.       *)
StageHoldsPam == \A w \in Workers : pam[w] = Lifecycle!Holdings(state[w])

(* Whatever the peer sends, and in whatever order, a worker has a session  *)
(* process exactly while it is in SESSION_STARTED, that is, with a user    *)
(* authenticated, authorised, accredited, and a PAM session open.          *)
SessionNeedsPam ==
    \A w \in Workers :
        /\ Running(w) => (child[w] # "none" <=> state[w] = SESSION_STARTED)
        /\ Running(w) /\ child[w] # "none" => pam[w] = PamItems

(* A worker that ever started a session and is then terminated leaves no   *)
(* session process behind and has closed its PAM session and deleted its   *)
(* credentials, also if that session had ended and another conversation    *)
(* was under way.                                                          *)
TerminationCleansUp ==
    \A w \in Workers :
        proc[w] = "exited" /\ graceful[w] => pam[w] = {} /\ child[w] = "none"

(* A worker spawned for a reauthentication never runs a session process,   *)
(* though it goes through the same stages and overrides PAM's verdict on   *)
(* the account and the credentials.                                        *)
ReauthNeverStarts ==
    \A w \in ReauthWorkers : child[w] = "none" /\ state[w] # SESSION_STARTED

(* The worker keeps the promises of WorkerLifecycle, whatever is sent to   *)
(* it and whenever: requests, refusals, queries, settings loading late and *)
(* closed connections amount to one stage up, everything given back, or    *)
(* nothing.                                                                *)
ImplementsLifecycle == Lifecycle!Spec
=============================================================================
