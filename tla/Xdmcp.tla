-------------------------------- MODULE Xdmcp --------------------------------
(***************************************************************************)
(* The XDMCP display factory (daemon/scdm-xdmcp-display-factory.c) with    *)
(* the displays it creates (daemon/scdm-xdmcp-display.c): it answers the   *)
(* requests of X terminals, and passes terminals that ask indirectly on to *)
(* other managers.                                                         *)
(*                                                                         *)
(* Packets are UDP datagrams: they are lost, delayed and repeated.  So the *)
(* network is no variable; every handler may run at any time for every     *)
(* packet that is well formed.  What the factory sends back is left out,   *)
(* except that MANAGED_FORWARD is repeated on a timer.                     *)
(***************************************************************************)
EXTENDS Naturals, Sequences, FiniteSets

CONSTANTS
    Hosts,              \* terminals, by address
    LocalHosts,         \* those with an address of this machine
    LoopbackHosts,      \* those with a loopback address
    Nums,               \* X display numbers on a terminal
    Managers,           \* other managers, by address
    Here,               \* this manager, as a host to choose
    HonorIndirect,      \* configuration: are indirect queries served?
    MaxDisplays,        \* configuration: MaxSessions
    MaxPending,         \* configuration: MaxPending
    DisplaysPerHost,    \* configuration: DisplaysPerHost
    MaxForwardQueries,  \* SCDM_MAX_FORWARD_QUERIES
    MaxConnectAttempts, \* MAX_CONNECT_ATTEMPTS
    MaxId,              \* G_MAXINT32
    Objects,            \* display objects there can be at a time (bound)
    MaxTimers           \* connection timers of a display (bound)

ASSUME HostAssumption ==
    LoopbackHosts \subseteq LocalHosts /\ LocalHosts \subseteq Hosts /\ Here \notin Managers
ASSUME LimitAssumption ==
    /\ MaxDisplays \in Nat /\ MaxPending \in Nat /\ DisplaysPerHost \in Nat
    /\ MaxForwardQueries \in Nat /\ MaxConnectAttempts \in Nat \ {0}
    /\ MaxId \in Nat \ {0} /\ MaxTimers \in Nat
ASSUME ObjectAssumption == IsFiniteSet(Objects)

VARIABLES
    display,        \* the display objects
    serial,         \* session_serial
    num_sessions,   \* num_sessions
    purge,          \* purge_displays_id is set; an idle source is attached
    indirect,       \* indirect_clients: by terminal, the choice made for it
    forwards,       \* forward_queries, newest first
    managed,        \* managed_forwards: by manager and terminal, the resends
    up              \* no NULL pointer was dereferenced

displayVars == <<display, serial, num_sessions, purge>>
forwardVars == <<indirect, forwards, managed>>
vars        == <<displayVars, forwardVars, up>>
-----------------------------------------------------------------------------
(* Displays.  "stored" is membership in the display store.  "session" is   *)
(* set while the manager runs a greeter, a chooser or a user's session on  *)
(* the display.  "env" is its launch environment: for a greeter, for a     *)
(* chooser, for one in which a host was chosen, or none.  "timers" counts  *)
(* the sources that try to connect, "finishing" is finish_idle_id.         *)

(* WAITING_TO_FINISH is a status of local displays only.                   *)
Statuses == {"UNMANAGED", "PREPARED", "MANAGED", "FINISHED", "FAILED"}
Ended    == {"FINISHED", "FAILED"}

DisplayType ==
    [host : Hosts, num : Nums, id : 1..MaxId, status : Statuses,
     stored : BOOLEAN, session : BOOLEAN, finishing : BOOLEAN,
     env : {"greeter", "chooser", "chosen", "none"},
     timers : Nat, attempts : Nat]

Free == [stored |-> FALSE]

Stored(D)        == {o \in Objects : D[o].stored}
WithStatus(D, S) == {o \in Stored(D) : D[o].status \in S}
FromHost(D, h)   == {o \in Stored(D) : D[o].host = h}
WithId(i)        == {o \in Stored(display) : display[o].id = i}

(* A display that left the store lives on while a source or a session      *)
(* refers to it.  Its creator's reference is never dropped: what the model *)
(* frees is an object that nothing can reach any more.                     *)
Settle(d) == IF d.stored \/ d.session \/ d.finishing \/ d.timers > 0 THEN d ELSE Free

Drop(D, S) ==
    [o \in Objects |-> IF o \in S THEN Settle([D[o] EXCEPT !.stored = FALSE]) ELSE D[o]]

(* queue_finish ran its course, or scdm_display_finish was called.         *)
Finished(d) == [d EXCEPT !.status = "FINISHED", !.finishing = FALSE]

(* scdm_display_unmanage fails a display on which no session registered;   *)
(* one that was not yet managed has none.                                  *)
UnmanagedStatus(d) == IF d.status = "PREPARED" THEN {"FAILED"} ELSE {"FAILED", "UNMANAGED"}

(* scdm_display_factory_queue_purge_displays                               *)
QueuePurge == purge' = IF purge.queued THEN purge ELSE [queued |-> TRUE, source |-> TRUE]

(* on_display_status_changed of the factory, which follows a display even  *)
(* when it left the store.                                                 *)
StatusChanged(d, status) ==
    IF status # d.status /\ status \in Ended THEN QueuePurge ELSE UNCHANGED purge

SetDisplay(o, d) == display' = [display EXCEPT ![o] = Settle(d)]
-----------------------------------------------------------------------------
(* Forward queries and managed forwards.                                   *)

NoClient == "none"          \* no IndirectClient for the terminal
Unchosen == "unchosen"      \* one without a chosen_address

ASSUME ChoiceAssumption == {NoClient, Unchosen} \cap (Managers \cup {Here}) = {}

(* indirect_client_lookup finds a client for which nothing was chosen      *)
UseChooser(h) == HonorIndirect /\ indirect[h] = Unchosen

(* indirect_client_lookup_by_chosen                                        *)
ForwardedTo(m, h) ==
    {c \in Hosts : indirect[c] = m /\ (c = h \/ (c \in LoopbackHosts /\ h \in LocalHosts))}

(* forward_query_lookup: the place of the newest query for a terminal, if  *)
(* there is one.  (acctime is never set: forward queries do not age.)      *)
Lookup(s, h) ==
    {k \in DOMAIN s : s[k].display = h /\ \A j \in 1..(k - 1) : s[j].display # h}

(* g_slist_remove of an entry                                              *)
Removed(s, k) == SubSeq(s, 1, k - 1) \o SubSeq(s, k + 1, Len(s))

(* scdm_xdmcp_whack_queued_managed_forwards removes the first that matches *)
Whacked(m, h) ==
    [managed EXCEPT ![<<m, h>>] = IF @ = <<>> THEN @ ELSE Tail(@)]

(* scdm_xdmcp_send_managed_forward; the number is how often it was resent  *)
Queued(m, h) == [managed EXCEPT ![<<m, h>>] = <<0>> \o @]

(* Something became of the terminal, so the manager that forwarded it, if  *)
(* one did, is told.                                                       *)
ForwardResolved(h) ==
    \/ /\ Lookup(forwards, h) = {}
       /\ UNCHANGED <<forwards, managed>>
    \/ \E k \in Lookup(forwards, h) :
          /\ forwards' = Removed(forwards, k)
          /\ managed'  = Queued(forwards[k].from, h)

(* forward_query_create.  remove_oldest_forward looks for the smallest     *)
(* acctime, and all are zero: it takes the first, which is the newest.     *)
Evicted(s) ==
    IF Len(s) > MaxForwardQueries
    THEN SubSeq(s, Len(s) - MaxForwardQueries + 1, Len(s)) ELSE s

CreateForward(s, m, h) == <<[display |-> h, from |-> m]>> \o Evicted(s)

(* A FORWARD_QUERY takes the place of an earlier one for the terminal.     *)
ForwardRenewed(m, h) ==
    \/ /\ Lookup(forwards, h) = {}
       /\ forwards' = CreateForward(forwards, m, h)
    \/ \E k \in Lookup(forwards, h) :
          forwards' = CreateForward(Removed(forwards, k), m, h)
-----------------------------------------------------------------------------
TypeOK ==
    /\ display \in [Objects -> DisplayType \cup {Free}]
    /\ serial \in 1..MaxId
    /\ num_sessions \in Nat
    /\ purge \in [queued : BOOLEAN, source : BOOLEAN]
    /\ indirect \in [Hosts -> {NoClient, Unchosen, Here} \cup Managers]
    /\ forwards \in Seq([display : Hosts, from : Managers])
    /\ managed \in [Managers \X Hosts -> Seq(0..1)]
    /\ up \in BOOLEAN

Init ==
    /\ display = [o \in Objects |-> Free]
    /\ serial \in 1..MaxId
    /\ num_sessions = 0
    /\ purge = [queued |-> FALSE, source |-> FALSE]
    /\ indirect = [h \in Hosts |-> NoClient]
    /\ forwards = <<>>
    /\ managed = [p \in Managers \X Hosts |-> <<>>]
    /\ up = TRUE
-----------------------------------------------------------------------------
(* REQUEST: a terminal wants to be managed.                                *)

(* Mutant: the serial is not counted on.                                   *)
NextIdRepeats(i, next) == i = serial /\ next = serial

(* get_next_session_serial, from a random start; random at the maximum.    *)
NextId(i, next) ==
    IF serial # MaxId THEN i = serial /\ next = serial + 1 ELSE next = serial

(* scdm_xdmcp_display_create and the ACCEPT.  A display whose authority    *)
(* cannot be set up is discarded without an answer.                        *)
CreateDisplay(D, h, n) ==
    /\ \E i \in 1..MaxId :
          /\ NextId(i, serial')
          /\ \/ \E o \in {x \in Objects : D[x] = Free} :
                   display' = [D EXCEPT ![o] =
                       [host |-> h, num |-> n, id |-> i, status |-> "PREPARED",
                        stored |-> TRUE, session |-> FALSE, finishing |-> FALSE,
                        env |-> IF UseChooser(h) THEN "chooser" ELSE "greeter",
                        timers |-> 0, attempts |-> 0]]
             \/ display' = D
    /\ UNCHANGED <<forwards, managed>>

Decline(D, h) == display' = D /\ ForwardResolved(h) /\ UNCHANGED serial

(* Mutant: a display is too old whatever its status.                       *)
ExpiredAny == SUBSET Stored(display)

(* scdm_xdmcp_displays_purge: which UNMANAGED displays are older than      *)
(* MaxWait is left open.                                                   *)
Expired == SUBSET WithStatus(display, {"UNMANAGED"})

(* Mutant: a host may have one display more than its limit.                *)
UnderLimitOrAtIt(D, h) ==
    /\ Cardinality(WithStatus(D, {"MANAGED"})) < MaxDisplays
    /\ h \in LocalHosts \/ Cardinality(FromHost(D, h)) <= DisplaysPerHost

UnderLimit(D, h) ==
    /\ Cardinality(WithStatus(D, {"MANAGED"})) < MaxDisplays
    /\ h \in LocalHosts \/ Cardinality(FromHost(D, h)) < DisplaysPerHost

(* Mutant: an old display of the same screen is kept.                      *)
DisposedNone(D, h, n) == D

(* display_dispose_check                                                   *)
Disposed(D, h, n) == Drop(D, {o \in FromHost(D, h) : D[o].num = n})

(* The counters are recounted before they are tested, num_pending_sessions *)
(* always, so that it needs no variable: it is the number of UNMANAGED     *)
(* displays.  mitauth: the terminal offers MIT-MAGIC-COOKIE-1.             *)
HandleRequest(h, n, mitauth) ==
    up /\ \E old \in Expired :
        LET D == Drop(display, old)
            E == Disposed(D, h, n)
            entered == mitauth /\ UnderLimit(D, h)
        IN /\ num_sessions' = Cardinality(WithStatus(IF entered THEN E ELSE D, {"MANAGED"}))
           /\ \/ ~entered /\ Decline(D, h)
              \/ /\ entered
                 /\ IF Cardinality(WithStatus(E, {"UNMANAGED"})) >= MaxPending
                    THEN Decline(E, h) ELSE CreateDisplay(E, h, n)
           /\ UNCHANGED <<purge, indirect, up>>
-----------------------------------------------------------------------------
(* Mutant: the IndirectClient is destroyed although nothing was chosen.    *)
HandleManageForgets(h, i) ==
    up /\ \E o \in WithId(i) :
        /\ display[o].status = "PREPARED"
        /\ display[o].timers < MaxTimers
        /\ indirect' = [indirect EXCEPT ![h] = NoClient]
        /\ ForwardResolved(h)
        /\ num_sessions' = num_sessions + 1
        /\ display' = [display EXCEPT ![o].timers = @ + 1]
        /\ UNCHANGED <<serial, purge, up>>

(* MANAGE: the terminal is ready.  A MANAGED display is left alone.        *)
HandleManage(h, i) ==
    up /\ \E o \in WithId(i) :
        /\ display[o].status = "PREPARED"
        /\ display[o].timers < MaxTimers
        /\ indirect' = IF HonorIndirect /\ ~UseChooser(h)
                       THEN [indirect EXCEPT ![h] = NoClient] ELSE indirect
        /\ ForwardResolved(h)
        /\ num_sessions' = num_sessions + 1
        /\ display' = [display EXCEPT ![o].timers = @ + 1]
        /\ UNCHANGED <<serial, purge, up>>

(* A display that is gone, or that ended, is REFUSEd.                      *)
RefuseManage(h) ==
    /\ up
    /\ ForwardResolved(h)
    /\ UNCHANGED <<displayVars, indirect, up>>

(* The manager, which follows the displays in the store, starts a greeter  *)
(* on one that became MANAGED; its user may be unknown, and the launch     *)
(* environment of an earlier session is gone.                              *)
SetUpSession(o, d) ==
    \/ /\ d.env # "none"
       /\ SetDisplay(o, [d EXCEPT !.session = TRUE])
       /\ UNCHANGED <<purge, up>>
    \/ /\ d.env = "none"
       /\ up' = FALSE
       /\ SetDisplay(o, d)
       /\ UNCHANGED purge
    \/ /\ SetDisplay(o, Finished(d))
       /\ QueuePurge
       /\ UNCHANGED up

(* idle_connect_to_display: the connection is made,                        *)
Connected(o) ==
    LET d == display[o]
        e == [d EXCEPT !.status = "MANAGED", !.timers = @ - 1, !.attempts = @ + 1]
    IN /\ up /\ d # Free /\ d.timers > 0
       /\ IF d.stored /\ d.status # "MANAGED"
          THEN SetUpSession(o, e)
          ELSE SetDisplay(o, e) /\ UNCHANGED <<purge, up>>
       /\ UNCHANGED <<serial, num_sessions, forwardVars>>

(* or it is not, and after enough attempts the display is unmanaged.       *)
ConnectFails(o) ==
    LET d == display[o]
        e == [d EXCEPT !.attempts = @ + 1]
    IN /\ up /\ d # Free /\ d.timers > 0
       /\ IF e.attempts < MaxConnectAttempts
          THEN SetDisplay(o, e) /\ UNCHANGED purge
          ELSE \E s \in UnmanagedStatus(d) :
                  /\ SetDisplay(o, [e EXCEPT !.timers = @ - 1, !.status = s])
                  /\ StatusChanged(d, s)
       /\ UNCHANGED <<serial, num_sessions, forwardVars, up>>

(* A user logs in: the greeter is stopped, its launch environment cleared. *)
UserLogsIn(o) ==
    LET d == display[o]
    IN /\ up /\ d # Free /\ d.session /\ d.env = "greeter"
       /\ SetDisplay(o, [d EXCEPT !.env = "none"])
       /\ UNCHANGED <<serial, num_sessions, purge, forwardVars, up>>

(* on_client_disconnected, for a greeter or chooser of a MANAGED display,  *)
(* and remove_user_session: the display is unmanaged and finished at once. *)
SessionDisconnected(o) ==
    LET d == display[o]
    IN /\ up /\ d # Free /\ d.session
       /\ d.status = "MANAGED" \/ d.env = "none"
       /\ SetDisplay(o, [Finished(d) EXCEPT !.session = FALSE, !.env = "none"])
       /\ QueuePurge
       /\ UNCHANGED <<serial, num_sessions, forwardVars, up>>

(* self_destruct: the greeter ended, the display finishes from an idle     *)
(* source.                                                                 *)
GreeterEnds(o) ==
    LET d == display[o]
    IN /\ up /\ d # Free /\ d.session /\ d.env # "none"
       /\ \E s \in IF d.status = "MANAGED" THEN UnmanagedStatus(d) ELSE {d.status} :
             /\ SetDisplay(o, [d EXCEPT !.session = FALSE, !.status = s,
                                        !.finishing = @ \/ s # "FINISHED"])
             /\ StatusChanged(d, s)
       /\ UNCHANGED <<serial, num_sessions, forwardVars, up>>

FinishIdle(o) ==
    LET d == display[o]
    IN /\ up /\ d # Free /\ d.finishing
       /\ SetDisplay(o, Finished(d))
       /\ StatusChanged(d, "FINISHED")
       /\ UNCHANGED <<serial, num_sessions, forwardVars, up>>

(* Mutant: purge_displays_id is not reset.                                 *)
PurgeIdleForgets ==
    /\ up /\ purge.source
    /\ display' = Drop(display, WithStatus(display, Ended))
    /\ purge' \in [queued : {TRUE}, source : BOOLEAN]
    /\ UNCHANGED <<serial, num_sessions, forwardVars, up>>

(* purge_displays of the factory's base class.  It returns nothing where   *)
(* GLib expects to be told whether to keep the source, so either happens.  *)
PurgeIdle ==
    /\ up /\ purge.source
    /\ display' = Drop(display, WithStatus(display, Ended))
    /\ purge' \in [queued : {FALSE}, source : BOOLEAN]
    /\ UNCHANGED <<serial, num_sessions, forwardVars, up>>
-----------------------------------------------------------------------------
(* Terminals that ask indirectly, and other managers.                      *)

(* INDIRECT_QUERY.  A terminal for which a host was chosen is forwarded    *)
(* there, unless it is this one; any other is told to come, and will get a *)
(* chooser.  num_sessions is used as it was left.                          *)
HandleIndirectQuery(h) ==
    /\ up /\ HonorIndirect
    /\ num_sessions <= MaxDisplays
    /\ h \in LocalHosts \/ Cardinality(FromHost(display, h)) <= DisplaysPerHost
    /\ \/ indirect[h] = Here /\ indirect' = [indirect EXCEPT ![h] = NoClient]
       \/ indirect[h] = NoClient /\ indirect' = [indirect EXCEPT ![h] = Unchosen]
       \/ indirect[h] \in {Unchosen} \cup Managers /\ UNCHANGED indirect
    /\ UNCHANGED <<displayVars, forwards, managed, up>>

(* The user of a chooser picks a host; its name may not resolve.           *)
HostnameSelected(o, m) ==
    LET d == display[o]
    IN /\ up /\ d # Free /\ d.session /\ d.env = "chooser"
       /\ SetDisplay(o, [d EXCEPT !.env = "chosen"])
       /\ IF indirect[d.host] = NoClient
          THEN up' = FALSE /\ UNCHANGED indirect
          ELSE /\ indirect' \in {[indirect EXCEPT ![d.host] = c] : c \in {Unchosen, m}}
               /\ UNCHANGED up
       /\ UNCHANGED <<serial, num_sessions, purge, forwards, managed>>

(* Mutant: the MANAGED_FORWARD still queued for the terminal is kept.      *)
HandleForwardQueryKeeps(m, h) ==
    /\ up
    /\ ForwardRenewed(m, h) \/ UNCHANGED forwards
    /\ UNCHANGED <<displayVars, indirect, managed, up>>

(* FORWARD_QUERY: manager m passes terminal h on to this one, which may be *)
(* barred (host_allow).                                                    *)
HandleForwardQuery(m, h) ==
    /\ up
    /\ managed' = Whacked(m, h)
    /\ ForwardRenewed(m, h) \/ UNCHANGED forwards
    /\ UNCHANGED <<displayVars, indirect, up>>

(* MANAGED_FORWARD: m has dealt with the terminal h passed on to it.       *)
HandleManagedForward(m, h) ==
    /\ up
    /\ \E c \in ForwardedTo(m, h) :
          indirect' = [indirect EXCEPT ![c] = NoClient]
    /\ UNCHANGED <<displayVars, forwards, managed, up>>

(* GOT_MANAGED_FORWARD                                                     *)
HandleGotManagedForward(m, h) ==
    /\ up
    /\ managed' = Whacked(m, h)
    /\ UNCHANGED <<displayVars, indirect, forwards, up>>

(* Mutants: one resend too many; the resends are not counted.              *)
ResendManagedForwardThrice(m, h) ==
    /\ up
    /\ \E k \in DOMAIN managed[<<m, h>>] :
          LET s == managed[<<m, h>>]
          IN managed' = [managed EXCEPT ![<<m, h>>] =
                IF s[k] + 1 > 2
                THEN Removed(s, k)
                ELSE [s EXCEPT ![k] = @ + 1]]
    /\ UNCHANGED <<displayVars, indirect, forwards, up>>

ResendManagedForwardUncounted(m, h) == managed[<<m, h>>] # <<>> /\ UNCHANGED vars

(* managed_forward_handler: two resends.  Of several for one pair it may   *)
(* be any one's turn.                                                      *)
ResendManagedForward(m, h) ==
    /\ up
    /\ \E k \in DOMAIN managed[<<m, h>>] :
          LET s == managed[<<m, h>>]
          IN managed' = [managed EXCEPT ![<<m, h>>] =
                IF s[k] + 1 >= 2
                THEN Removed(s, k)
                ELSE [s EXCEPT ![k] = @ + 1]]
    /\ UNCHANGED <<displayVars, indirect, forwards, up>>
-----------------------------------------------------------------------------
DisplayStep(o) ==
    \/ Connected(o) \/ ConnectFails(o) \/ UserLogsIn(o)
    \/ SessionDisconnected(o) \/ GreeterEnds(o) \/ FinishIdle(o)

PacketFrom(h) ==
    \/ \E n \in Nums, mitauth \in BOOLEAN : HandleRequest(h, n, mitauth)
    \/ \E i \in 1..MaxId : HandleManage(h, i)
    \/ RefuseManage(h) \/ HandleIndirectQuery(h)

ManagerStep(m, h) ==
    \/ HandleForwardQuery(m, h) \/ HandleManagedForward(m, h)
    \/ HandleGotManagedForward(m, h) \/ ResendManagedForward(m, h)

Next ==
    \/ \E o \in Objects : DisplayStep(o)
    \/ \E o \in Objects, m \in Managers \cup {Here} : HostnameSelected(o, m)
    \/ PurgeIdle
    \/ \E h \in Hosts : PacketFrom(h)
    \/ \E m \in Managers, h \in Hosts : ManagerStep(m, h)

Spec == Init /\ [][Next]_vars

(* GLib runs the sources that are ready; a terminal to which nobody        *)
(* connects is given up in the end, one that is connected to stays.        *)
FairSpec ==
    /\ Spec
    /\ WF_vars(PurgeIdle)
    /\ \A o \in Objects :
          /\ WF_vars(FinishIdle(o))
          /\ WF_vars(Connected(o) \/ ConnectFails(o))
    /\ \A m \in Managers, h \in Hosts : WF_vars(ResendManagedForward(m, h))
-----------------------------------------------------------------------------
(* Properties *)

(* max_displays_per_host: a REQUEST, repeated or late, never leaves more   *)
(* than DisplaysPerHost displays of a remote terminal in the store.        *)
PerHostBounded ==
    \A h \in Hosts \ LocalHosts : Cardinality(FromHost(display, h)) <= DisplaysPerHost

(* display_dispose_check: no two displays of the store are the same screen *)
(* of the same terminal, so that scdm_xdmcp_display_lookup_by_host, which  *)
(* KEEPALIVE uses, finds the one that is in use.                           *)
OneDisplayPerSlot ==
    \A o, p \in Stored(display) :
        display[o].host = display[p].host /\ display[o].num = display[p].num => o = p

(* get_next_session_serial: until the serial reaches its maximum a MANAGE  *)
(* that is late can only be for the display whose ACCEPT it answers: no    *)
(* display, in the store or not, has the id of another or the next one.    *)
SessionIdsUnique ==
    serial < MaxId =>
        \A o, p \in {x \in Objects : display[x] # Free} :
            /\ display[o].id < serial
            /\ display[o].id = display[p].id => o = p

(* A display on which a greeter, a chooser or a user's session runs is in  *)
(* the store: it is counted for the limits and a KEEPALIVE finds it.  This *)
(* needs DisplaysPerHost = 1 and a terminal that sends MANAGE once.        *)
SessionStored ==
    \A o \in Objects : display[o] # Free /\ display[o].session => display[o].stored

(* on_hostname_selected finds the IndirectClient of the chooser's terminal *)
(* and start_greeter_session a launch environment: neither checks.  Needs  *)
(* what SessionStored needs.                                               *)
StaysUp == up

(* scdm_xdmcp_whack_queued_managed_forwards removes one entry: a manager   *)
(* has, for a terminal, a forward query waiting or a MANAGED_FORWARD being *)
(* resent, and only one of them, so that it gets at most 3 packets.        *)
OneManagedForward ==
    \A m \in Managers, h \in Hosts :
        Cardinality({k \in DOMAIN forwards : forwards[k] = [display |-> h, from |-> m]})
            + Len(managed[<<m, h>>]) <= 1

(* A display that ended leaves the store, unless a second source connects  *)
(* to it after all.                                                        *)
EndedLeave ==
    \A o \in Objects : (o \in WithStatus(display, Ended)) ~> (~up \/ o \notin WithStatus(display, Ended))

(* managed_forward_handler: resending a MANAGED_FORWARD comes to an end,   *)
(* also when it is never acknowledged.                                     *)
ManagedForwardsEnd ==
    \A m \in Managers, h \in Hosts : (managed[<<m, h>>] # <<>>) ~> (~up \/ managed[<<m, h>>] = <<>>)

(* docs/C/index.docbook on MaxSessions: "the maximum number of remote      *)
(* display connections which will be managed simultaneously".              *)
MaxSessionsRespected == Cardinality(WithStatus(display, {"MANAGED"})) <= MaxDisplays
=============================================================================
